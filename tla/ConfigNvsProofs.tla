----------------------------- MODULE ConfigNvsProofs -----------------------------
(***************************************************************************)
(* Proofs about the NVS build of the configuration store, for any tasks,    *)
(* keys and values.                                                         *)
(***************************************************************************)
EXTENDS ConfigNvs, TLAPS

\* The steps of a task, for a task and, where there is one, a key.
TaskStep(t) ==
    \/ CfgOpen(t) \/ FlashInit(t) \/ FlashErase(t) \/ FlashInitAgain(t) \/ CfgOpened(t)
    \/ CfgClose(t) \/ CfgCommit(t)

\* Every step is a task's, a set of one key, or a restart: erasing a key is
\* setting it to Nothing.
LEMMA NextCases ==
    ASSUME [Next]_vars
    PROVE  \/ \E t \in Tasks : TaskStep(t)
           \/ \E t \in Tasks, k \in Keys, v \in Contents : CfgSet(t, k, v) \/ CfgSetTorn(t, k, v)
           \/ Restart
           \/ UNCHANGED vars
  BY DEF Next, TaskStep, CfgErase, Contents

-----------------------------------------------------------------------------

\* The initial state has the types.
LEMMA InitTyped == Init => TypeOK
<1> SUFFICES ASSUME Init PROVE TypeOK
  OBVIOUS
<1>1. live \in [Keys -> Contents] /\ flash \in [Keys -> Contents]
  BY DEF Init
<1>2. pending \in [Keys -> SUBSET Contents] /\ torn \in [Keys -> SUBSET Contents]
  BY DEF Init, NonePending
<1>3. promised \in [Keys -> SUBSET Contents]
  BY <1>1 DEF Init, Promise, Contents
<1>4. partition \in {"good", "refused", "broken"} /\ found = partition
  BY DEF Init
<1>5. {up, sNvsInit, wiped, firm} \subseteq BOOLEAN /\ valid = {}
  BY DEF Init
<1>6. at \in [Tasks -> {"closed", "init", "erase", "again", "calloc", "open"}]
  BY DEF Init
<1> QED
  BY <1>1, <1>2, <1>3, <1>4, <1>5, <1>6 DEF TypeOK

\* A step keeps them.  A handle works only while its task holds it and NVS is
\* up: nvs_flash_erase takes all handles along.
LEMMA StepTyped == TypeOK /\ [Next]_vars => TypeOK'
<1> SUFFICES ASSUME TypeOK, [Next]_vars PROVE TypeOK'
  OBVIOUS
<1>1. CASE \E t \in Tasks : TaskStep(t)
  <2>1. PICK t \in Tasks : TaskStep(t)
    BY <1>1
  <2>2. CASE CfgOpen(t)
    BY <2>2 DEF TypeOK, CfgOpen, Goto, nvs, history
  <2>3. CASE FlashInit(t)
    BY <2>3 DEF TypeOK, FlashInit, Goto, history
  <2>4. CASE FlashErase(t)
    BY <2>4 DEF TypeOK, FlashErase, Goto, Contents, Empty, NonePending
  <2>5. CASE FlashInitAgain(t)
    BY <2>5 DEF TypeOK, FlashInitAgain, Goto, history
  <2>6. CASE CfgOpened(t)
    BY <2>6 DEF TypeOK, CfgOpened, Goto, nvs, history
  <2>7. CASE CfgClose(t)
    BY <2>7 DEF TypeOK, CfgClose, Goto, nvs, history
  <2>8. CASE CfgCommit(t)
    BY <2>8 DEF TypeOK, CfgCommit, Committed, NonePending
  <2> QED
    BY <2>1, <2>2, <2>3, <2>4, <2>5, <2>6, <2>7, <2>8 DEF TaskStep
<1>2. CASE \E t \in Tasks, k \in Keys, v \in Contents : CfgSet(t, k, v) \/ CfgSetTorn(t, k, v)
  <2>1. PICK t \in Tasks, k \in Keys, v \in Contents : CfgSet(t, k, v) \/ CfgSetTorn(t, k, v)
    BY <1>2
  <2> QED
    BY <2>1 DEF TypeOK, CfgSet, CfgSetTorn
<1>3. CASE Restart
  BY <1>3 DEF TypeOK, Restart, Promise, Survivors, NonePending, Contents
<1>4. CASE UNCHANGED vars
  BY <1>4 DEF TypeOK, vars, nvs, history
<1> QED
  BY <1>1, <1>2, <1>3, <1>4, NextCases

\* The variables of the NVS build keep their types, and a handle works only
\* while its task holds it and NVS is up (config_nvs.c:31-54).
THEOREM TypeCorrect == Spec => []TypeOK
<1>1. Init => TypeOK
  BY InitTyped
<1>2. TypeOK /\ [Next]_vars => TypeOK'
  BY StepTyped
<1> QED
  BY <1>1, <1>2, PTL DEF Spec

-----------------------------------------------------------------------------

\* After a firm commit either every key may be found empty all the same, because
\* the partition was refused at the start, or no task is about to erase the
\* partition and none can come to it: NVS is up, or would not refuse it.
NoEraseAhead ==
    firm => \/ \A k \in Keys : Nothing \in promised[k]
            \/ /\ \A t \in Tasks : at[t] # "erase"
               /\ up \/ partition # "refused"

\* Every step keeps it: a task comes to the erase only while NVS is down, and a
\* commit needs a handle, and so NVS up.
LEMMA StepNoEraseAhead == TypeOK /\ NoEraseAhead /\ [Next]_vars => NoEraseAhead'
<1> SUFFICES ASSUME TypeOK, NoEraseAhead, [Next]_vars PROVE NoEraseAhead'
  OBVIOUS
<1> USE DEF NoEraseAhead
<1>1. CASE \E t \in Tasks : TaskStep(t)
  <2>1. PICK t \in Tasks : TaskStep(t)
    BY <1>1
  <2>2. CASE CfgOpen(t) \/ CfgOpened(t) \/ CfgClose(t)
    BY <2>2 DEF TypeOK, CfgOpen, CfgOpened, CfgClose, Goto, nvs, history
  <2>3. CASE FlashInit(t)
    BY <2>3 DEF TypeOK, FlashInit, Goto, history
  <2>4. CASE FlashErase(t)
    BY <2>4 DEF TypeOK, FlashErase
  <2>5. CASE FlashInitAgain(t)
    BY <2>5 DEF TypeOK, FlashInitAgain, Goto, history
  <2>6. CASE CfgCommit(t)
    BY <2>6 DEF TypeOK, CfgCommit, Committed, Works
  <2> QED
    BY <2>1, <2>2, <2>3, <2>4, <2>5, <2>6 DEF TaskStep
<1>2. CASE \E t \in Tasks, c \in Keys, v \in Contents : CfgSet(t, c, v) \/ CfgSetTorn(t, c, v)
  <2>1. PICK t \in Tasks, c \in Keys, v \in Contents : CfgSet(t, c, v) \/ CfgSetTorn(t, c, v)
    BY <1>2
  <2>2. UNCHANGED <<firm, at, up, partition>>
    BY <2>1 DEF CfgSet, CfgSetTorn
  <2>3. \A k \in Keys : promised[k] \subseteq promised'[k]
    BY <2>1 DEF TypeOK, CfgSet, CfgSetTorn
  <2> QED
    BY <2>2, <2>3
<1>3. CASE Restart
  BY <1>3 DEF Restart, Promise
<1>4. CASE UNCHANGED vars
  BY <1>4 DEF vars, nvs, history
<1> QED
  BY <1>1, <1>2, <1>3, <1>4, NextCases

\* What flash may hold after a loss of power was promised: a set widens both
\* sides alike, a commit makes both one value, or that of a torn set; and an
\* erase comes where it was promised, or after a commit that was not firm.
LEMMA StepKeepsPromise ==
    TypeOK /\ NoEraseAhead /\ CommittedSurvives /\ [Next]_vars => CommittedSurvives'
<1> SUFFICES ASSUME TypeOK, NoEraseAhead, CommittedSurvives, [Next]_vars, firm', NEW k \in Keys
             PROVE  Survivors(k)' \subseteq promised'[k]
  BY DEF CommittedSurvives, CommitsAreKept
<1>0. firm => {flash[k]} \cup pending[k] \cup torn[k] \subseteq promised[k]
  BY DEF CommittedSurvives, CommitsAreKept, Survivors
<1>1. CASE \E t \in Tasks : TaskStep(t)
  <2>1. PICK t \in Tasks : TaskStep(t)
    BY <1>1
  <2>2. CASE CfgOpen(t) \/ FlashInit(t) \/ FlashInitAgain(t) \/ CfgOpened(t) \/ CfgClose(t)
    BY <1>0, <2>2 DEF CfgOpen, FlashInit, FlashInitAgain, CfgOpened, CfgClose, nvs, history, Survivors
  <2>3. CASE FlashErase(t)
    <3>1. firm /\ promised' = promised /\ Nothing \in promised[k]
      BY <2>1, <2>3 DEF FlashErase, NoEraseAhead
    <3>2. flash'[k] \in Survivors(k) \cup {Nothing}
      BY <2>3 DEF FlashErase, Empty
    <3>3. pending'[k] = {} /\ torn'[k] = {}
      BY <2>3 DEF FlashErase, NonePending
    <3> QED
      BY <1>0, <3>1, <3>2, <3>3 DEF Survivors
  <2>4. CASE CfgCommit(t)
    BY <2>4 DEF CfgCommit, Committed, NonePending, Survivors
  <2> QED
    BY <2>1, <2>2, <2>3, <2>4 DEF TaskStep
<1>2. CASE \E t \in Tasks, c \in Keys, v \in Contents : CfgSet(t, c, v) \/ CfgSetTorn(t, c, v)
  <2>1. PICK t \in Tasks, c \in Keys, v \in Contents : CfgSet(t, c, v) \/ CfgSetTorn(t, c, v)
    BY <1>2
  <2>2. /\ flash'[k] = flash[k] /\ firm
        /\ pending'[k] \cup torn'[k] \subseteq
             pending[k] \cup torn[k] \cup (IF k = c THEN {v} ELSE {})
    BY <2>1 DEF CfgSet, CfgSetTorn, TypeOK
  <2>3. promised'[k] = promised[k] \cup (IF k = c THEN {v} ELSE {})
    BY <2>1 DEF CfgSet, CfgSetTorn, TypeOK
  <2> QED
    BY <1>0, <2>2, <2>3 DEF Survivors
<1>3. CASE Restart
  BY <1>3 DEF Restart, Promise, NonePending, Survivors
<1>4. CASE UNCHANGED vars
  BY <1>0, <1>4 DEF vars, nvs, history, Survivors
<1> QED
  BY <1>1, <1>2, <1>3, <1>4, NextCases

\* After a loss of power at any moment, and any number of them, a key has the
\* value it had at the last cfg_commit that returned true, or one it was given
\* to set since (config_nvs.c:92-95), whatever tasks open the store meanwhile;
\* provided that none of them stood before the erase at that commit.
THEOREM CommitsSurvive == Spec => []CommittedSurvives
<1>1. Init => CommittedSurvives /\ NoEraseAhead
  <2> SUFFICES ASSUME Init PROVE CommittedSurvives /\ NoEraseAhead
    OBVIOUS
  <2>1. \A k \in Keys : Survivors(k) = {live[k]}
    BY DEF Init, Survivors, NonePending
  <2>2. \A k \in Keys : live[k] \in promised[k]
    BY DEF Init, Promise
  <2>3. NoEraseAhead
    BY DEF Init, NoEraseAhead, Promise
  <2> QED
    BY <2>1, <2>2, <2>3 DEF CommittedSurvives, CommitsAreKept
<1>2. TypeOK /\ NoEraseAhead /\ [Next]_vars => NoEraseAhead'
  BY StepNoEraseAhead
<1>3. TypeOK /\ NoEraseAhead /\ CommittedSurvives /\ [Next]_vars => CommittedSurvives'
  BY StepKeepsPromise
<1> QED
  BY <1>1, <1>2, <1>3, TypeCorrect, PTL DEF Spec

-----------------------------------------------------------------------------

\* The partition stays as it was found until an erase makes it good, and a
\* task is on its way to an erase, or has erased, only if it was refused.
ErasePath ==
    /\ partition \in {found, "good"}
    /\ \A t \in Tasks : at[t] = "erase" => found = "refused"
    /\ ErasedOnlyIfRefused

\* Every step of every task, and every restart, keeps it.
LEMMA StepKeepsErasePath == TypeOK /\ ErasePath /\ [Next]_vars => ErasePath'
<1> SUFFICES ASSUME TypeOK, ErasePath, [Next]_vars PROVE ErasePath'
  OBVIOUS
<1> USE DEF ErasePath, ErasedOnlyIfRefused
<1>1. CASE \E t \in Tasks : TaskStep(t)
  <2>1. PICK t \in Tasks : TaskStep(t)
    BY <1>1
  <2>2. CASE CfgOpen(t) \/ CfgOpened(t) \/ CfgClose(t)
    BY <2>2 DEF TypeOK, CfgOpen, CfgOpened, CfgClose, Goto, nvs, history
  <2>3. CASE FlashInit(t)
    BY <2>3 DEF TypeOK, FlashInit, Goto, history
  <2>4. CASE FlashErase(t)
    BY <2>4 DEF TypeOK, FlashErase, Goto
  <2>5. CASE FlashInitAgain(t)
    BY <2>5 DEF TypeOK, FlashInitAgain, Goto, history
  <2>6. CASE CfgCommit(t)
    BY <2>6 DEF CfgCommit
  <2> QED
    BY <2>1, <2>2, <2>3, <2>4, <2>5, <2>6 DEF TaskStep
<1>2. CASE \E t \in Tasks, k \in Keys, v \in Contents : CfgSet(t, k, v) \/ CfgSetTorn(t, k, v)
  BY <1>2 DEF CfgSet, CfgSetTorn
<1>3. CASE Restart
  BY <1>3 DEF Restart
<1>4. CASE UNCHANGED vars
  BY <1>4 DEF vars, nvs, history
<1> QED
  BY <1>1, <1>2, <1>3, <1>4, NextCases

\* However many tasks open the store, and however their opens interleave, the
\* settings are erased only at a start at which NVS refused the partition for
\* one of the two reasons an erase can cure (config_nvs.c:21).
THEOREM EraseNeedsRefusal == Spec => []ErasedOnlyIfRefused
<1>1. Init => ErasePath
  BY DEF Init, ErasePath, ErasedOnlyIfRefused
<1>2. TypeOK /\ ErasePath /\ [Next]_vars => ErasePath'
  BY StepKeepsErasePath
<1>3. ErasePath => ErasedOnlyIfRefused
  BY DEF ErasePath
<1> QED
  BY <1>1, <1>2, <1>3, TypeCorrect, PTL DEF Spec

-----------------------------------------------------------------------------

\* The steps of a settled store leave it settled.
StaysSettled ==
    /\ Settled'
    /\ \A t \in valid : t \in valid' \/ at'[t] = "closed"
    /\ wiped' = wiped
    /\ live' # live => \E t \in valid : at'[t] = "open"

\* No step but a restart unsettles the store.
LEMMA SettledStep == TypeOK /\ Settled /\ ~Restart /\ [Next]_vars => StaysSettled
<1> SUFFICES ASSUME TypeOK, Settled, ~Restart, [Next]_vars PROVE StaysSettled
  OBVIOUS
<1> USE DEF StaysSettled, Settled
<1>1. CASE \E t \in Tasks : TaskStep(t)
  <2>1. PICK t \in Tasks : TaskStep(t)
    BY <1>1
  <2>2. ~FlashInit(t) /\ ~FlashErase(t) /\ ~FlashInitAgain(t)
    BY DEF FlashInit, FlashErase, FlashInitAgain
  <2>3. CASE CfgOpen(t)
    BY <2>3 DEF TypeOK, CfgOpen, Goto, nvs, history
  <2>4. CASE CfgOpened(t)
    BY <2>4 DEF TypeOK, CfgOpened, Goto, nvs, history
  <2>5. CASE CfgClose(t)
    BY <2>5 DEF TypeOK, CfgClose, Goto, nvs, history
  <2>6. CASE CfgCommit(t)
    BY <2>6 DEF CfgCommit
  <2> QED
    BY <2>1, <2>2, <2>3, <2>4, <2>5, <2>6 DEF TaskStep
<1>2. CASE \E t \in Tasks, k \in Keys, v \in Contents : CfgSet(t, k, v) \/ CfgSetTorn(t, k, v)
  BY <1>2 DEF CfgSet, CfgSetTorn, Works
<1>3. CASE UNCHANGED vars
  BY <1>3 DEF vars, nvs, history
<1> QED
  BY <1>1, <1>2, <1>3, NextCases

\* Once NVS is up and no task is left in ensure_nvs_init it stays so until the
\* next start: handles keep working, nothing is erased, and settings change
\* only by calls on them (config_nvs.c:14-27).
THEOREM SettledIsSafe == Spec => SettledStoreIsSafe
<1>1. TypeOK /\ [Next]_vars
        => [Settled /\ ~Restart =>
              /\ Settled'
              /\ \A t \in valid : t \in valid' \/ at'[t] = "closed"
              /\ wiped' = wiped
              /\ live' # live => \E t \in valid : at'[t] = "open"]_vars
  BY SettledStep DEF StaysSettled
<1> QED
  BY <1>1, TypeCorrect, PTL DEF Spec, SettledStoreIsSafe

=============================================================================
