---------------------------- MODULE ReadService ----------------------------
(***************************************************************************)
(* What AsyncFlashReader (runtime/flash_io.py) promises its callers, with  *)
(* no threads, locks, descriptors or buffers: at most one read of an       *)
(* object is in flight; each read that finishes is queued once, with the   *)
(* status of its own layout entry; a completion is taken once, all of them *)
(* by poll_completions or the oldest of one object by wait_completion.     *)
(* FlashReader implements it; TraceReplay is built on it.                  *)
(***************************************************************************)
EXTENDS Naturals, Sequences, SequencesExt

CONSTANTS
    Objects,     \* object ids
    Entries,     \* flash layout entries
    Truncated    \* the entries whose read comes back short

VARIABLES
    inflight,     \* the reads in flight: [object, entry]
    completions   \* the queue of finished reads: [object, entry, status]

service == <<inflight, completions>>

Read == [object : Objects, entry : Entries]
Completion == [object : Objects, entry : Entries, status : {"COMPLETED", "FAILED"}]

InFlight(o) == \E read \in inflight : read.object = o

ServiceInit == inflight = {} /\ completions = <<>>

Accept(o, e) ==
    /\ ~InFlight(o)
    /\ inflight' = inflight \cup {[object |-> o, entry |-> e]}
    /\ UNCHANGED completions

Complete(read) ==
    /\ read \in inflight
    /\ inflight' = inflight \ {read}
    /\ completions' = Append(completions,
          [object |-> read.object, entry |-> read.entry,
           status |-> IF read.entry \in Truncated THEN "FAILED" ELSE "COMPLETED"])

TakeAll ==
    /\ completions' = <<>>
    /\ UNCHANGED inflight

\* i is the oldest completion of o.
Oldest(i, o) ==
    /\ i \in DOMAIN completions
    /\ completions[i].object = o
    /\ \A j \in 1 .. i - 1 : completions[j].object # o

TakeOldest(o, i) ==
    /\ Oldest(i, o)
    /\ completions' = RemoveAt(completions, i)
    /\ UNCHANGED inflight

ServiceNext ==
    \/ \E o \in Objects, e \in Entries : Accept(o, e)
    \/ \E read \in inflight : Complete(read)
    \/ TakeAll
    \/ \E o \in Objects, i \in DOMAIN completions : TakeOldest(o, i)

ServiceSpec == ServiceInit /\ [][ServiceNext]_service
============================================================================
