-------------------------------- MODULE ConfigNvs --------------------------------
(***************************************************************************)
(* The configuration store on the target, config/nvs/config_nvs.c, over     *)
(* several tasks, restarts and losses of power.  The first cfg_open         *)
(* initializes ESP-IDF's NVS library, and erases its partition if the       *)
(* library finds it full or written by a newer version; a static flag says  *)
(* that this is done.  Nothing serializes the tasks.                        *)
(*                                                                          *)
(* NVS is external, modelled by what its documentation promises: a value    *)
(* set is read back at once by every handle, but is sure to survive a       *)
(* restart only after nvs_commit; a set that fails with REMOVE_FAILED has   *)
(* written its value all the same, to be found once NVS is initialized      *)
(* again; nvs_flash_init does nothing when NVS is up; nvs_flash_erase takes *)
(* NVS down first, and with it every handle.                                *)
(***************************************************************************)
EXTENDS Naturals

CONSTANTS Tasks, Keys, Values, Nothing

VARIABLES
    partition,  \* what nvs_flash_init finds: "good", "refused" (no free pages,
                \* or a newer version) or "broken" (any other error)
    up,         \* NVS is initialized
    live,       \* the value of each key as handles read it, or Nothing
    flash,      \* ... as of the last nvs_commit
    pending,    \* ... the values it was given since; any of them may be found
                \* after a loss of power
    torn,       \* ... the values of sets that failed and were written; any of
                \* them may be found once NVS is initialized anew
    sNvsInit,   \* s_nvs_init
    at,         \* where each task is: "closed", in cfg_open, or "open"
    valid,      \* the tasks whose NVS handle works
    found,      \* history: partition when the unit started
    wiped,      \* history: the partition was erased since, if only in part
    promised,   \* history: what each key may hold after a loss of power, going
                \* by what the start found and the calls returned
    firm        \* history: no task was about to erase the partition at the
                \* last successful cfg_commit, or there was none since the start

nvs == <<partition, up, live, flash, pending, torn>>
history == <<found, wiped, promised, firm>>
vars == <<nvs, sNvsInit, at, valid, history>>

Contents == Values \cup {Nothing}
Empty == [k \in Keys |-> Nothing]
NonePending == [k \in Keys |-> {}]

\* After a loss of power k has one of these.
Survivors(k) == {flash[k]} \cup pending[k] \cup torn[k]

\* What a start with partition p leaves of the contents c: a refused partition
\* is cured by an erase, so that its settings may be gone.
Promise(p, c) == [k \in Keys |-> IF p = "refused" THEN {c[k], Nothing} ELSE {c[k]}]

Init ==
    /\ partition \in {"good", "refused", "broken"}
    /\ found = partition
    /\ up = FALSE /\ sNvsInit = FALSE /\ wiped = FALSE
    /\ live \in [Keys -> Contents]
    /\ flash = live
    /\ pending = NonePending /\ torn = NonePending
    /\ promised = Promise(partition, live) /\ firm = TRUE
    /\ at = [t \in Tasks |-> "closed"]
    /\ valid = {}

Goto(t, place) == at' = [at EXCEPT ![t] = place]

\* Bug variant of CfgOpen: does not look at the flag.
CfgOpenForgetsFlag(t) ==
    /\ at[t] = "closed"
    /\ Goto(t, "init")
    /\ UNCHANGED <<nvs, sNvsInit, valid, history>>

\* ensure_nvs_init, up to the test of the flag
CfgOpen(t) ==
    /\ at[t] = "closed"
    /\ Goto(t, IF sNvsInit THEN "calloc" ELSE "init")
    /\ UNCHANGED <<nvs, sNvsInit, valid, history>>

\* Bug variant of FlashInit: erases whatever the error is.
FlashInitErasesAnyway(t) ==
    /\ at[t] = "init"
    /\ up' = (up \/ partition = "good")
    /\ sNvsInit' = (sNvsInit \/ up')
    /\ Goto(t, IF up' THEN "calloc" ELSE "erase")
    /\ UNCHANGED <<partition, live, flash, pending, torn, valid, history>>

\* The first nvs_flash_init.  An error other than the two ends cfg_open.
FlashInit(t) ==
    /\ at[t] = "init"
    /\ up' = (up \/ partition = "good")
    /\ sNvsInit' = (sNvsInit \/ up')
    /\ Goto(t, IF up' THEN "calloc" ELSE IF partition = "refused" THEN "erase" ELSE "closed")
    /\ UNCHANGED <<partition, live, flash, pending, torn, valid, history>>

\* nvs_flash_erase; what it returns is not looked at.  If it fails, settings
\* may be gone or not, each by itself.
FlashErase(t) ==
    /\ at[t] = "erase"
    /\ Goto(t, "again")
    /\ up' = FALSE /\ valid' = {}
    /\ \/ partition' = "good" /\ flash' = Empty
       \/ /\ UNCHANGED partition
          /\ flash' \in {f \in [Keys -> Contents] :
                           \A k \in Keys : f[k] \in Survivors(k) \cup {Nothing}}
    /\ live' = flash' /\ pending' = NonePending /\ torn' = NonePending
    /\ wiped' = TRUE
    /\ UNCHANGED <<sNvsInit, found, promised, firm>>

\* The second nvs_flash_init.
FlashInitAgain(t) ==
    /\ at[t] = "again"
    /\ up' = (up \/ partition = "good")
    /\ sNvsInit' = (sNvsInit \/ up')
    /\ Goto(t, IF up' THEN "calloc" ELSE "closed")
    /\ UNCHANGED <<partition, live, flash, pending, torn, valid, history>>

\* calloc and nvs_open; either may fail, and nvs_open does when NVS is down.
CfgOpened(t) ==
    /\ at[t] = "calloc"
    /\ \/ up /\ Goto(t, "open") /\ valid' = valid \cup {t}
       \/ Goto(t, "closed") /\ UNCHANGED valid
    /\ UNCHANGED <<nvs, sNvsInit, history>>

\* Bug variant of CfgClose: frees the handle without nvs_close.
CfgCloseLeaksHandle(t) ==
    /\ at[t] = "open"
    /\ Goto(t, "closed")
    /\ UNCHANGED <<nvs, sNvsInit, valid, history>>

CfgClose(t) ==
    /\ at[t] = "open"
    /\ Goto(t, "closed")
    /\ valid' = valid \ {t}
    /\ UNCHANGED <<nvs, sNvsInit, history>>

\* A call on a handle that works; any other returns false and changes nothing,
\* as do those that NVS refuses, but for CfgSetTorn.
Works(t) == at[t] = "open" /\ t \in valid

\* cfg_set_str, cfg_set_u32 and cfg_set_blob return true
CfgSet(t, k, v) ==
    /\ Works(t)
    /\ live' = [live EXCEPT ![k] = v]
    /\ pending' = [pending EXCEPT ![k] = @ \cup {v}]
    /\ promised' = [promised EXCEPT ![k] = @ \cup {v}]
    /\ UNCHANGED <<partition, up, flash, torn, sNvsInit, at, valid, found, wiped, firm>>

\* They return false: ESP_ERR_NVS_REMOVE_FAILED, the value was written.
CfgSetTorn(t, k, v) ==
    /\ Works(t)
    /\ torn' = [torn EXCEPT ![k] = @ \cup {v}]
    /\ promised' = [promised EXCEPT ![k] = @ \cup {v}]
    /\ UNCHANGED <<partition, up, live, flash, pending, sNvsInit, at, valid, found, wiped, firm>>

\* cfg_erase returns true
CfgErase(t, k) == live[k] # Nothing /\ CfgSet(t, k, Nothing)

\* What a successful cfg_commit tells its caller: from now on each key has the
\* value it has, or that of a set that failed; unless a task that saw the
\* partition refused has yet to erase it.
Committed ==
    /\ promised' = [k \in Keys |-> {live[k]} \cup torn[k]]
    /\ firm' = \A t \in Tasks : at[t] # "erase"

\* Bug variant of CfgCommit: as in the host build, there is nothing to do.
CfgCommitIsNop(t) ==
    /\ Works(t)
    /\ Committed
    /\ UNCHANGED <<nvs, sNvsInit, at, valid, found, wiped>>

\* cfg_commit returns true
CfgCommit(t) ==
    /\ Works(t)
    /\ flash' = live
    /\ pending' = NonePending
    /\ Committed
    /\ UNCHANGED <<partition, up, live, torn, sNvsInit, at, valid, found, wiped>>

\* Power goes and comes back.  A used partition may turn out full, a new
\* firmware may find it written by a newer one, and flash may wear out.
Restart ==
    /\ partition' \in {"good", "refused", "broken"}
    /\ found' = partition'
    /\ flash' \in {f \in [Keys -> Contents] : \A k \in Keys : f[k] \in Survivors(k)}
    /\ live' = flash' /\ pending' = NonePending /\ torn' = NonePending
    /\ promised' = Promise(partition', flash') /\ firm' = TRUE
    /\ up' = FALSE /\ sNvsInit' = FALSE /\ wiped' = FALSE
    /\ at' = [t \in Tasks |-> "closed"] /\ valid' = {}

Next ==
    \/ \E t \in Tasks :
          \/ CfgOpen(t) \/ FlashInit(t) \/ FlashErase(t) \/ FlashInitAgain(t) \/ CfgOpened(t)
          \/ CfgClose(t) \/ CfgCommit(t)
          \/ \E k \in Keys : CfgErase(t, k) \/ \E v \in Values : CfgSet(t, k, v) \/ CfgSetTorn(t, k, v)
    \/ Restart

Spec == Init /\ [][Next]_vars

-----------------------------------------------------------------------------

\* The variables have their types; a working handle is an open one, and NVS
\* is up for it.
TypeOK ==
    /\ partition \in {"good", "refused", "broken"} /\ found \in {"good", "refused", "broken"}
    /\ {up, sNvsInit, wiped, firm} \subseteq BOOLEAN
    /\ live \in [Keys -> Contents] /\ flash \in [Keys -> Contents]
    /\ pending \in [Keys -> SUBSET Contents] /\ torn \in [Keys -> SUBSET Contents]
    /\ promised \in [Keys -> SUBSET Contents]
    /\ at \in [Tasks -> {"closed", "init", "erase", "again", "calloc", "open"}]
    /\ valid \subseteq {t \in Tasks : at[t] = "open"}
    /\ valid # {} => up

\* After a loss of power at any moment a key has the value it had at the last
\* cfg_commit that returned true, or one it was given to set since, or one of a
\* set that returned false (config_nvs.c:92-95).
CommitsAreKept == \A k \in Keys : Survivors(k) \subseteq promised[k]

\* That holds of every commit that was made while no task stood between the
\* refusal of the partition and its erase (config_nvs.c:21-22): not even tasks
\* that open the store at the same time can lose it then.
CommittedSurvives == firm => CommitsAreKept

\* The settings are erased only at a start at which NVS refused the partition
\* for one of the two reasons an erase can cure (config_nvs.c:21), whichever
\* tasks open the store and whenever.
ErasedOnlyIfRefused == wiped => found = "refused"

\* NVS was initialized and no task is still on its way through
\* ensure_nvs_init.
Settled == sNvsInit /\ \A t \in Tasks : at[t] \notin {"init", "erase", "again"}

\* Two tasks that open the store at once may both erase the partition, the
\* second one with what the first has set and committed meanwhile
\* (config_nvs.c:17-23).  Once the store is settled that is over: it stays
\* settled, handles keep working and settings change only by calls on them.
SettledStoreIsSafe ==
    [][Settled /\ ~Restart =>
          /\ Settled'
          /\ \A t \in valid : t \in valid' \/ at'[t] = "closed"
          /\ wiped' = wiped
          /\ live' # live => \E t \in valid : at'[t] = "open"]_vars

=============================================================================
