------------------------------ MODULE Numbering ------------------------------
(***************************************************************************)
(* How SupabaseStore numbers its rows (app/storage.py).                    *)
(*                                                                         *)
(* An id is <<kind, number>>: RUN-007 is <<"BASE", 7>> and RUN-ALT-007     *)
(* <<"ALT", 7>>.  Both kinds live in one table, each with a counter in the *)
(* process that is read off the table when it is first used.  Numbers are  *)
(* written with as many digits as fit below PadLimit (1000) and one more   *)
(* above; the query that reads the last number orders ids as text and      *)
(* returns one page of them.  A row is written under its id some time      *)
(* after the id was taken, by an upsert: an id taken twice is a lost row.  *)
(*                                                                         *)
(* The scan and the increment are one step: both happen under the store's  *)
(* lock, and while a counter is unread no request holds a number of its    *)
(* kind that could be saved in between.                                    *)
(***************************************************************************)
EXTENDS Integers, FiniteSets

CONSTANTS
  Nothing,    \* no number in hand
  Requests,   \* requests in flight at once
  Biggest,    \* bound of the model: the last number of each kind
  PadLimit,   \* the first number that needs another digit
  Radix,      \* values of a digit
  PageSize,   \* rows the query returns
  Crashes,    \* bound of the model: how often the process restarts
  Failures    \* bound of the model: how many scans fail

Kinds == {"BASE", "ALT"}
Ids   == Kinds \X Nat

ASSUME ConstantsAssumption ==
  /\ Nothing \notin Ids
  /\ Biggest \in [Kinds -> Nat]
  /\ PadLimit \in Nat /\ Radix \in Nat \ {0} /\ PageSize \in Nat \ {0}
  /\ \A kind \in Kinds : Biggest[kind] < PadLimit * Radix
  /\ Crashes \in Nat /\ Failures \in Nat

VARIABLES
  table,     \* ids of the rows stored
  counter,   \* per kind: the last number issued, Unread until first used
  held,      \* per request: the id it took and has not saved yet
  misread,   \* history: kinds whose last number was read off a failed or
             \* too large scan
  crashes, failures   \* still to come

vars == <<table, counter, held, misread, crashes, failures>>

Unread == -1

Of(kind, ids) == {id \in ids : id[1] = kind}

HeldIds == {held[q] : q \in Requests} \ {Nothing}

\* Above the pad limit the text of a number starts with the text of the
\* number without its last digit; a longer text sorts above its own start.
Stem(n) == IF n < PadLimit THEN n ELSE n \div Radix

\* The text of one id sorts above that of another: letters above digits,
\* then digit by digit.
TextAbove(a, b) ==
  \/ a[1] = "ALT" /\ b[1] = "BASE"
  \/ /\ a[1] = b[1]
     /\ \/ Stem(a[2]) > Stem(b[2])
        \/ Stem(a[2]) = Stem(b[2]) /\ a[2] > b[2]

\* The first page of some rows in descending text order.
Page(rows) ==
  {a \in rows : Cardinality({b \in rows : TextAbove(b, a)}) < PageSize}

\* Mutant: the longer ids are sorted out after the page was read.
PageFilteredLate(kind) == Of(kind, Page(table))

\* The query leaves out the ids of the other kind before it takes a page.
PageOf(kind) == Page(Of(kind, table))

\* Mutant: the largest text is taken for the largest number.
LastByText(kind) ==
  IF PageOf(kind) = {} THEN {0}
  ELSE {a[2] : a \in {b \in PageOf(kind) : \A c \in PageOf(kind) : ~TextAbove(c, b)}}

\* _highest_sequence: the largest number on the page, 0 if there is none.
Last(kind) ==
  IF PageOf(kind) = {} THEN {0}
  ELSE {a[2] : a \in {b \in PageOf(kind) : \A c \in PageOf(kind) : c[2] <= b[2]}}

\* The page is sure to hold the largest number: every number is padded, or
\* the rows fit on it.
Scannable(kind) ==
  \/ \A a \in Of(kind, table) : a[2] < PadLimit
  \/ Cardinality(Of(kind, table)) <= PageSize

-----------------------------------------------------------------------------

Take(q, kind, last) ==
  /\ held[q] = Nothing
  /\ last < Biggest[kind]
  /\ counter' = [counter EXCEPT ![kind] = last + 1]
  /\ held' = [held EXCEPT ![q] = <<kind, last + 1>>]
  /\ UNCHANGED <<table, crashes>>

\* The first number of a kind in this process.
TakeFirst(q) ==
  \E kind \in Kinds :
    /\ counter[kind] = Unread
    /\ \E last \in Last(kind) : Take(q, kind, last)
    /\ misread' = IF Scannable(kind) THEN misread ELSE misread \cup {kind}
    /\ UNCHANGED failures

\* The query raises: the table is taken to be empty.
TakeAfterFailedScan(q) ==
  \E kind \in Kinds :
    /\ counter[kind] = Unread
    /\ failures > 0
    /\ failures' = failures - 1
    /\ Take(q, kind, 0)
    /\ misread' = misread \cup {kind}

TakeNext(q) ==
  \E kind \in Kinds :
    /\ counter[kind] # Unread
    /\ Take(q, kind, counter[kind])
    /\ UNCHANGED <<misread, failures>>

\* Mutant: a request saves whether or not it holds an id.
SaveUnheld(q) ==
  /\ table' = table \cup {held[q]}
  /\ held' = [held EXCEPT ![q] = Nothing]
  /\ UNCHANGED <<counter, misread, crashes, failures>>

\* The upsert writes the row, over another if there is one.
Save(q) ==
  /\ held[q] # Nothing
  /\ table' = table \cup {held[q]}
  /\ held' = [held EXCEPT ![q] = Nothing]
  /\ UNCHANGED <<counter, misread, crashes, failures>>

\* The request ends without saving: the solve failed or the change was refused.
Abandon(q) ==
  /\ held[q] # Nothing
  /\ held' = [held EXCEPT ![q] = Nothing]
  /\ UNCHANGED <<table, counter, misread, crashes, failures>>

\* A deletion takes the rows of one scenario with it.
Delete ==
  \E id \in table :
    /\ table' = table \ {id}
    /\ UNCHANGED <<counter, held, misread, crashes, failures>>

\* Requests and counters die with the process; the table does not.
Restart ==
  /\ crashes > 0
  /\ crashes' = crashes - 1
  /\ counter' = [kind \in Kinds |-> Unread]
  /\ held' = [q \in Requests |-> Nothing]
  /\ UNCHANGED <<table, misread, failures>>

Init ==
  /\ table = {}
  /\ counter = [kind \in Kinds |-> Unread]
  /\ held = [q \in Requests |-> Nothing]
  /\ misread = {}
  /\ crashes = Crashes /\ failures = Failures

Next ==
  \/ \E q \in Requests :
       TakeFirst(q) \/ TakeAfterFailedScan(q) \/ TakeNext(q) \/ Save(q) \/ Abandon(q)
  \/ Delete \/ Restart

Spec == Init /\ [][Next]_vars

-----------------------------------------------------------------------------
(* Properties *)

\* Rows, numbers in hand and counters are of their kinds; a counter that was
\* read never becomes negative.
TypeOK ==
  /\ table \subseteq Ids
  /\ counter \in [Kinds -> Nat \cup {Unread}]
  /\ held \in [Requests -> Ids \cup {Nothing}]
  /\ misread \subseteq Kinds
  /\ crashes \in Nat /\ failures \in Nat

\* Once read, a counter is at or above every number of its kind, stored or in
\* hand, and while it is unread no request holds one: the promise of "Continue
\* numbering after a restart" (storage.py:511), short of a misread scan.
CounterLeads ==
  \A kind \in Kinds \ misread :
    IF counter[kind] = Unread
    THEN Of(kind, HeldIds) = {}
    ELSE \A id \in Of(kind, table \cup HeldIds) : id[2] <= counter[kind]

\* An id in hand belongs to no stored row and to no other request, so saving
\* it overwrites nothing, as long as no scan of its kind failed or read a
\* table that outgrew the page with numbers past the pad limit
\* (storage.py:519-541).
HeldIsFree ==
  \A q \in Requests :
    held[q] # Nothing /\ held[q][1] \notin misread =>
      /\ held[q] \notin table
      /\ \A other \in Requests \ {q} : held[other] # held[q]
=============================================================================
