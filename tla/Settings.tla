-------------------------------- MODULE Settings --------------------------------
(***************************************************************************)
(* What include/config.h promises of one open handle: a map from keys to    *)
(* values of three types.  A get answers with the value last set, if it has *)
(* the type asked for and fits the caller's buffer; an erased key has no    *)
(* value.  A set that fails leaves the old value, none, or a spoilt one,    *)
(* which must be set again or erased before anyone gets it.                 *)
(***************************************************************************)
EXTENDS Naturals, Sequences

CONSTANTS
    Keys, Values,
    Rooms,      \* the sizes of the callers' buffers
    Replies,    \* what a call may return
    Nothing, Spoilt,
    NoData      \* in a reply that carries no data

Types == {"str", "u32", "blob"}

VARIABLES
    store,  \* the value of each key, Nothing or Spoilt
    call,   \* the last call: its name, its key and its argument
    reply   \* what it returned: [ok, len, data]

vars == <<store, call, reply>>

No == [ok |-> FALSE, len |-> 0, data |-> NoData]
Yes == [No EXCEPT !.ok = TRUE]

Init ==
    /\ store = [k \in Keys |-> Nothing]
    /\ call = <<>>
    /\ reply = No

Set(k, v) ==
    /\ call' = <<"set", k, v>>
    /\ \/ store' = [store EXCEPT ![k] = v] /\ reply' = Yes
       \/ /\ \E left \in {store[k], Nothing, Spoilt} : store' = [store EXCEPT ![k] = left]
          /\ reply' = No

Has(k, type) == store[k] # Nothing /\ store[k].type = type

GetSpoilt(k) ==
    /\ store[k] = Spoilt
    /\ \E what \in {"str", "u32", "blob", "length"}, room \in Rooms : call' = <<what, k, room>>
    /\ reply' \in Replies
    /\ UNCHANGED store

\* room: the size of the buffer; a string needs one more for its terminator.
\* A blob that does not fit is refused with its length.
GetStr(k, room) ==
    /\ call' = <<"str", k, room>>
    /\ store[k] # Spoilt
    /\ reply' = IF Has(k, "str") /\ store[k].data < room
                THEN [Yes EXCEPT !.data = store[k].data] ELSE No
    /\ UNCHANGED store

GetU32(k) ==
    /\ call' = <<"u32", k, 0>>
    /\ store[k] # Spoilt
    /\ reply' = IF Has(k, "u32") THEN [Yes EXCEPT !.data = store[k].data] ELSE No
    /\ UNCHANGED store

GetBlob(k, room) ==
    /\ call' = <<"blob", k, room>>
    /\ store[k] # Spoilt
    /\ reply' = IF ~Has(k, "blob") THEN No
                ELSE IF store[k].data <= room
                THEN [ok |-> TRUE, len |-> store[k].data, data |-> store[k].data]
                ELSE [No EXCEPT !.len = store[k].data]
    /\ UNCHANGED store

BlobLength(k) ==
    /\ call' = <<"length", k, 0>>
    /\ store[k] # Spoilt
    /\ reply' = IF Has(k, "blob") THEN [Yes EXCEPT !.len = store[k].data] ELSE No
    /\ UNCHANGED store

Erase(k) ==
    /\ call' = <<"erase", k, 0>>
    /\ store' = [store EXCEPT ![k] = Nothing]
    /\ reply' = IF store[k] = Nothing THEN No ELSE Yes

Commit == call' = <<"commit">> /\ reply' = Yes /\ UNCHANGED store

\* The host build keeps values in the handle: a new one knows nothing.
Reopen == call' = <<"reopen">> /\ store' = [k \in Keys |-> Nothing] /\ reply' = Yes

Next ==
    \/ \E k \in Keys :
          \/ \E v \in Values : Set(k, v)
          \/ \E room \in Rooms : GetStr(k, room) \/ GetBlob(k, room)
          \/ GetU32(k) \/ BlobLength(k) \/ GetSpoilt(k) \/ Erase(k)
    \/ Commit \/ Reopen

Spec == Init /\ [][Next]_vars

=============================================================================
