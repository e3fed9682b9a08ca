---------------------------- MODULE CallFeedback ----------------------------
(***************************************************************************)
(* The profile of a call site (struct CallFeedback,                        *)
(* include/rjit/feedback/feedback.hpp): up to kMaxCallees callees with a   *)
(* count each, a total, and a flag set when a call found every entry taken *)
(* by others.  record uses no lock: an empty entry is claimed by a compare *)
(* and swap, and threads that lose the race go on from what they see.      *)
(*                                                                         *)
(* One action per atomic access of record.  All accesses are relaxed; a    *)
(* callee is written once, so a relaxed load may also return the null that *)
(* was there before (any load, here: the order in which one thread sees    *)
(* the values of one entry is not kept).  A read-modify-write sees the     *)
(* current value.  The counters' width, 64 bits, is not modelled.          *)
(***************************************************************************)
EXTENDS Naturals, FiniteSets, Functions

CONSTANTS
  Thread,       \* the threads that execute the call site
  Callee,       \* what it calls
  Null,         \* nullptr: not a callee
  MaxCallees,   \* kMaxCallees
  MaxRecords    \* bound: calls recorded

ASSUME NullAssumption == Null \notin Callee
ASSUME SizeAssumption == MaxCallees \in Nat \ {0} /\ MaxRecords \in Nat
ASSUME ThreadAssumption == IsFiniteSet(Thread)

Entries == 1..MaxCallees

VARIABLES
  callee,       \* callee[i]: entries[i].callee
  count,        \* count[i]: entries[i].count
  total,
  megamorphic,
  pc,           \* pc[t]: the access record does next in thread t
  arg,          \* arg[t]: record's argument
  i             \* i[t]: record's loop variable

feedbackVars == <<callee, count, total, megamorphic, pc, arg, i>>

-----------------------------------------------------------------------------
FeedbackInit ==
  /\ callee = [e \in Entries |-> Null]
  /\ count = [e \in Entries |-> 0]
  /\ total = 0
  /\ megamorphic = FALSE
  /\ pc = [t \in Thread |-> "idle"]
  /\ arg = [t \in Thread |-> Null]
  /\ i = [t \in Thread |-> 1]

\* Mutant: the search starts at the last entry.
record_from_back(t, c) ==
  /\ pc[t] = "idle"
  /\ total < MaxRecords
  /\ total' = total + 1
  /\ pc' = [pc EXCEPT ![t] = "load"]
  /\ arg' = [arg EXCEPT ![t] = c]
  /\ i' = [i EXCEPT ![t] = MaxCallees]
  /\ UNCHANGED <<callee, count, megamorphic>>

\* record(c) is called, and adds to the total.
record(t, c) ==
  /\ pc[t] = "idle"
  /\ total < MaxRecords
  /\ total' = total + 1
  /\ pc' = [pc EXCEPT ![t] = "load"]
  /\ arg' = [arg EXCEPT ![t] = c]
  /\ i' = [i EXCEPT ![t] = 1]
  /\ UNCHANGED <<callee, count, megamorphic>>

\* Mutant: the loop runs once too often.
NextEntryPastEnd(t) ==
  /\ i' = [i EXCEPT ![t] = @ + 1]
  /\ pc' = [pc EXCEPT ![t] = IF i[t] <= MaxCallees THEN "load" ELSE "full"]

\* Mutant: the loop starts over.
NextEntryAround(t) ==
  /\ i' = [i EXCEPT ![t] = IF @ < MaxCallees THEN @ + 1 ELSE 1]
  /\ pc' = [pc EXCEPT ![t] = "load"]

\* The next entry, or the end of the loop.
NextEntry(t) ==
  /\ i' = [i EXCEPT ![t] = @ + 1]
  /\ pc' = [pc EXCEPT ![t] = IF i[t] < MaxCallees THEN "load" ELSE "full"]

Load(t) ==
  /\ pc[t] = "load"
  /\ \E cur \in {callee[i[t]], Null} :
       \/ cur = arg[t] /\ pc' = [pc EXCEPT ![t] = "count"] /\ UNCHANGED i
       \/ cur = Null   /\ pc' = [pc EXCEPT ![t] = "claim"] /\ UNCHANGED i
       \/ cur \notin {arg[t], Null} /\ NextEntry(t)
  /\ UNCHANGED <<callee, count, total, megamorphic, arg>>

\* Mutant: a thread that lost the race does not look at who won.
ClaimLostGoesOn(t) ==
  /\ pc[t] = "claim"
  /\ \/ /\ callee[i[t]] = Null
        /\ callee' = [callee EXCEPT ![i[t]] = arg[t]]
        /\ pc' = [pc EXCEPT ![t] = "count"]
        /\ UNCHANGED i
     \/ /\ callee[i[t]] # Null
        /\ NextEntry(t)
        /\ UNCHANGED callee
  /\ UNCHANGED <<count, total, megamorphic, arg>>

\* Mutant: a thread that lost the race gives up.
ClaimLostGivesUp(t) ==
  /\ pc[t] = "claim"
  /\ \/ /\ callee[i[t]] = Null
        /\ callee' = [callee EXCEPT ![i[t]] = arg[t]]
        /\ pc' = [pc EXCEPT ![t] = "count"]
     \/ /\ callee[i[t]] # Null
        /\ pc' = [pc EXCEPT ![t] = "full"]
        /\ UNCHANGED callee
  /\ UNCHANGED <<count, total, megamorphic, arg, i>>

\* Mutant: the new entry's owner returns without counting.
ClaimUncounted(t) ==
  /\ pc[t] = "claim"
  /\ \/ /\ callee[i[t]] = Null
        /\ callee' = [callee EXCEPT ![i[t]] = arg[t]]
        /\ pc' = [pc EXCEPT ![t] = "idle"]
        /\ UNCHANGED i
     \/ /\ callee[i[t]] = arg[t]
        /\ pc' = [pc EXCEPT ![t] = "count"]
        /\ UNCHANGED <<callee, i>>
     \/ /\ callee[i[t]] \notin {arg[t], Null}
        /\ NextEntry(t)
        /\ UNCHANGED callee
  /\ UNCHANGED <<count, total, megamorphic, arg>>

\* Mutant: a store in place of the compare and swap.
ClaimByStore(t) ==
  /\ pc[t] = "claim"
  /\ callee' = [callee EXCEPT ![i[t]] = arg[t]]
  /\ pc' = [pc EXCEPT ![t] = "count"]
  /\ UNCHANGED <<count, total, megamorphic, arg, i>>

\* compare_exchange_strong, and what record makes of the value it finds.
Claim(t) ==
  /\ pc[t] = "claim"
  /\ \/ /\ callee[i[t]] = Null
        /\ callee' = [callee EXCEPT ![i[t]] = arg[t]]
        /\ pc' = [pc EXCEPT ![t] = "count"]
        /\ UNCHANGED i
     \/ /\ callee[i[t]] = arg[t]
        /\ pc' = [pc EXCEPT ![t] = "count"]
        /\ UNCHANGED <<callee, i>>
     \/ /\ callee[i[t]] \notin {arg[t], Null}
        /\ NextEntry(t)
        /\ UNCHANGED callee
  /\ UNCHANGED <<count, total, megamorphic, arg>>

Count(t) ==
  /\ pc[t] = "count"
  /\ count' = [count EXCEPT ![i[t]] = @ + 1]
  /\ pc' = [pc EXCEPT ![t] = "idle"]
  /\ UNCHANGED <<callee, total, megamorphic, arg, i>>

Full(t) ==
  /\ pc[t] = "full"
  /\ megamorphic' = TRUE
  /\ pc' = [pc EXCEPT ![t] = "idle"]
  /\ UNCHANGED <<callee, count, total, arg, i>>

Access(t) == Load(t) \/ Claim(t) \/ Count(t) \/ Full(t)

FeedbackNext == \E t \in Thread : (\E c \in Callee : record(t, c)) \/ Access(t)

FeedbackSpec == FeedbackInit /\ [][FeedbackNext]_feedbackVars

\* Every thread that is in record is scheduled again.
FairFeedbackSpec == FeedbackSpec /\ \A t \in Thread : WF_feedbackVars(Access(t))

-----------------------------------------------------------------------------
(***************************************************************************)
(* Properties                                                              *)
(***************************************************************************)

\* The type invariant.
FeedbackTypeOK ==
  /\ callee \in [Entries -> Callee \cup {Null}]
  /\ count \in [Entries -> Nat]
  /\ total \in Nat
  /\ megamorphic \in BOOLEAN
  /\ pc \in [Thread -> {"idle", "load", "claim", "count", "full"}]
  /\ arg \in [Thread -> Callee \cup {Null}]
  /\ i \in [Thread -> 1..(MaxCallees + 1)]
  /\ \A t \in Thread : pc[t] # "idle" => arg[t] \in Callee
  /\ \A t \in Thread : pc[t] \in {"load", "claim", "count"} => i[t] \in Entries

\* What a thread has seen when it looks at entry i: all entries before are
\* other callees'; when it counts: entry i is its callee's.
SearchSound ==
  \A t \in Thread :
    /\ pc[t] \in {"load", "claim"} =>
         \A e \in Entries : e < i[t] => callee[e] \notin {Null, arg[t]}
    /\ pc[t] = "count" => callee[i[t]] = arg[t]

\* No callee has two entries, whoever raced for them: its count is not split.
OneEntryPerCallee ==
  \A a, b \in Entries : callee[a] = callee[b] /\ callee[a] # Null => a = b

\* The entries fill from the front, so a search may stop at the first null.
FilledFromFront ==
  \A a, b \in Entries : a < b /\ callee[b] # Null => callee[a] # Null

\* A thread that gives up found every entry taken by another callee, so a
\* site is called megamorphic only with more than kMaxCallees callees.
MegamorphicIsMeant ==
  /\ megamorphic => \A e \in Entries : callee[e] # Null
  /\ \A t \in Thread :
       pc[t] = "full" => \A e \in Entries : callee[e] \notin {Null, arg[t]}

Recording == {t \in Thread : pc[t] # "idle"}

\* No call is counted twice, and none is lost until the site is megamorphic:
\* the total is the calls counted and the calls being recorded.
NoCallLost ==
  LET accounted == FoldFunction(+, 0, count) + Cardinality(Recording)
  IN  IF megamorphic THEN total > accounted ELSE total = accounted

\* An entry, once claimed, keeps its callee.
ClaimsAreFinal ==
  [][\A e \in Entries : callee[e] # Null => callee'[e] = callee[e]]_feedbackVars

\* record always returns, in as many steps as there are entries.
RecordReturns ==
  \A t \in Thread : (pc[t] # "idle") ~> (pc[t] = "idle")
=============================================================================
