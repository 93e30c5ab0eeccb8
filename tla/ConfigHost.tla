------------------------------- MODULE ConfigHost -------------------------------
(***************************************************************************)
(* The host build of the configuration store, config/host/config_host.c:    *)
(* a linked list of entries, the newest first, each with a slot for a value *)
(* of every type and a tag that says which one counts.                      *)
(*                                                                          *)
(* A string or a blob is modelled by its length, a number by itself.  Keys  *)
(* have at most 15 characters, as all CFG_KEY_* of config.h do, so that the *)
(* copy in the entry (config_host.c:58) is the key.                         *)
(***************************************************************************)
EXTENDS Naturals, SequencesExt

CONSTANTS
    Keys,
    MaxData,    \* bound on the lengths of strings and blobs, and on numbers
    Null,
    Undefined   \* the data of a call whose behaviour is undefined

\* A pointer that is NULL points to no data.
ASSUME DataAssumption == MaxData \in Nat /\ Null \notin Nat

Data == 0 .. MaxData
Rooms == 0 .. MaxData + 1

VARIABLES
    entries,    \* the list from cfg_handle.head on
    call,       \* history: the last call, its key and its argument
    reply       \* what it returned, *inout_len and the data it copied

vars == <<entries, call, reply>>

Entries == [key : Keys, type : {"str", "u32", "blob"},
            str : Data \cup {Null}, u32 : Data, blob : Data \cup {Null}, len : Data]

No == [ok |-> FALSE, len |-> 0, data |-> Null]
Yes == [No EXCEPT !.ok = TRUE]
Crash == [No EXCEPT !.data = Undefined]

Init == entries = <<>> /\ call = <<>> /\ reply = No

\* find_entry: the first entry with the key, as a set of at most one place
FindEntry(es, k) ==
    {i \in DOMAIN es : es[i].key = k /\ \A j \in 1 .. i - 1 : es[j].key # k}

Known(k) == FindEntry(entries, k) # {}

\* Is there a value of the type asked for?  The entry is e then.
Holds(k, type) == \E i \in FindEntry(entries, k) : entries[i].type = type
Entry(k) == entries[CHOOSE i \in FindEntry(entries, k) : TRUE]

NewEntry(k, type) ==
    [key |-> k, type |-> type, str |-> Null, u32 |-> 0, blob |-> Null, len |-> 0]

\* Bug variant of Put: does not look whether the key is known.
PutInFront(k, e) == <<e>> \o entries

\* The list in which e has the place of k's entry, or a new one in front.
Put(k, e) ==
    IF Known(k)
    THEN [i \in DOMAIN entries |-> IF i \in FindEntry(entries, k) THEN e ELSE entries[i]]
    ELSE <<e>> \o entries

\* get_or_create: the entry found loses the value it had.
GetOrCreate(k, type) == Put(k, NewEntry(k, type))

\* calloc fails in get_or_create, and nothing has happened.
CannotCreate(k) == ~Known(k) /\ entries' = entries /\ reply' = No

\* strdup or malloc fails, and the value that was there is gone.
CannotCopy(k, type) ==
    /\ entries' = GetOrCreate(k, type)
    /\ reply' = No

CfgSetStr(k, s) ==
    /\ call' = <<"set", k, [type |-> "str", data |-> s]>>
    /\ \/ CannotCreate(k)
       \/ CannotCopy(k, "str")
       \/ entries' = Put(k, [NewEntry(k, "str") EXCEPT !.str = s]) /\ reply' = Yes

CfgSetU32(k, n) ==
    /\ call' = <<"set", k, [type |-> "u32", data |-> n]>>
    /\ \/ CannotCreate(k)
       \/ entries' = Put(k, [NewEntry(k, "u32") EXCEPT !.u32 = n]) /\ reply' = Yes

CfgSetBlob(k, b) ==
    /\ call' = <<"set", k, [type |-> "blob", data |-> b]>>
    /\ \/ CannotCreate(k)
       \/ CannotCopy(k, "blob")
       \/ entries' = Put(k, [NewEntry(k, "blob") EXCEPT !.blob = b, !.len = b]) /\ reply' = Yes

\* Bug variant of StrReply: forgets the terminator.
StrReplyOffByOne(e, room) ==
    IF e.str = Null THEN Crash
    ELSE IF e.str <= room THEN [Yes EXCEPT !.data = e.str] ELSE No

\* strlen(e->str) + 1 is compared with buflen; strlen(NULL) is undefined.
StrReply(e, room) ==
    IF e.str = Null THEN Crash
    ELSE IF e.str + 1 <= room THEN [Yes EXCEPT !.data = e.str] ELSE No

CfgGetStr(k, room) ==
    /\ call' = <<"str", k, room>>
    /\ reply' = IF Holds(k, "str") THEN StrReply(Entry(k), room) ELSE No
    /\ UNCHANGED entries

CfgGetU32(k) ==
    /\ call' = <<"u32", k, 0>>
    /\ reply' = IF Holds(k, "u32") THEN [Yes EXCEPT !.data = Entry(k).u32] ELSE No
    /\ UNCHANGED entries

BlobReply(e, room) ==
    [ok |-> e.len <= room, len |-> e.len, data |-> IF e.len <= room THEN e.blob ELSE Null]

CfgGetBlob(k, room) ==
    /\ call' = <<"blob", k, room>>
    /\ reply' = IF Holds(k, "blob") THEN BlobReply(Entry(k), room) ELSE No
    /\ UNCHANGED entries

\* cfg_get_blob without a buffer asks for the length.
CfgGetBlobLength(k) ==
    /\ call' = <<"length", k, 0>>
    /\ reply' = IF Holds(k, "blob") THEN [Yes EXCEPT !.len = Entry(k).len] ELSE No
    /\ UNCHANGED entries

CfgErase(k) ==
    /\ call' = <<"erase", k, 0>>
    /\ IF Known(k)
       THEN /\ \E i \in FindEntry(entries, k) : entries' = RemoveAt(entries, i)
            /\ reply' = Yes
       ELSE entries' = entries /\ reply' = No

CfgCommit == call' = <<"commit">> /\ reply' = Yes /\ UNCHANGED entries

\* cfg_close, and cfg_open of the next handle.
Reopen == call' = <<"reopen">> /\ entries' = <<>> /\ reply' = Yes

Next ==
    \/ \E k \in Keys, d \in Data : CfgSetStr(k, d) \/ CfgSetU32(k, d) \/ CfgSetBlob(k, d)
    \/ \E k \in Keys, room \in Rooms : CfgGetStr(k, room) \/ CfgGetBlob(k, room)
    \/ \E k \in Keys : CfgGetU32(k) \/ CfgGetBlobLength(k) \/ CfgErase(k)
    \/ CfgCommit
    \/ Reopen

Spec == Init /\ [][Next]_vars

-----------------------------------------------------------------------------

\* The fields have their types, and no key has two entries, however often it
\* is set, retyped and erased (config_host.c:48): an erase would otherwise
\* bring back the value before last.
TypeOK ==
    /\ entries \in Seq(Entries)
    /\ \A i, j \in DOMAIN entries : entries[i].key = entries[j].key => i = j
    /\ reply.ok \in BOOLEAN

Nothing == [type |-> "none"]
Spoilt == [type |-> "spoilt"]

\* The value a key has for its readers.
ValueOf(k) ==
    LET e == Entry(k) IN
    CASE ~Known(k) -> Nothing
      [] Holds(k, "u32") -> [type |-> "u32", data |-> e.u32]
      [] Holds(k, "str") /\ e.str # Null -> [type |-> "str", data |-> e.str]
      [] Holds(k, "blob") /\ e.blob # Null -> [type |-> "blob", data |-> e.blob]
      [] OTHER -> Spoilt

S == INSTANCE Settings WITH
         Values <- [type : {"str", "u32", "blob"}, data : Data],
         Replies <- [ok : BOOLEAN, len : Data, data : Data \cup {Null, Undefined}],
         NoData <- Null,
         store <- [k \in Keys |-> ValueOf(k)]

\* The list is the map of config.h: a get answers with what was last set,
\* across retyping, erasing, failing and other keys, and says how long the
\* blob is when the buffer is too small.  Only a key whose last set failed
\* for want of memory is spoilt (config_host.c:106, :159).
ImplementsSettings == S!Spec

\* test_get_missing_str_returns_false: getting the string of a key under
\* which no value is stored returns false.
MissingStrReturnsFalse ==
    [][\A k \in Keys, room \in Rooms :
          CfgGetStr(k, room) /\ ValueOf(k) \in {Nothing, Spoilt} => reply' = No]_vars

=============================================================================
