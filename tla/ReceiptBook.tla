---------------------------- MODULE ReceiptBook -----------------------------
(***************************************************************************)
(* What the tax receipts of one year promise, with no worker, transaction, *)
(* upload or key in sight: a book with numbered entries.  Every entry      *)
(* takes the number after the last one, even when earlier entries were     *)
(* struck out; it is made out for a donation that exists and carries that  *)
(* number on it.  Nobody changes an entry.  A donation gets a second one   *)
(* only after it has fallen into doubt whether its first attempt is over.  *)
(* Deleting the donation strikes out its entries and frees no number.      *)
(***************************************************************************)
EXTENDS Naturals

CONSTANT Donations

VARIABLES
  last,     \* the last number used
  printed,  \* the number each donation shows, 0 before there is one
  entries,
  standing, \* the donations that exist
  doubted   \* the donations whose attempt may or may not be over

book == <<last, printed, entries, standing, doubted>>

Entry(number, d) == [number |-> number, of |-> d]

Init ==
  /\ last = 0 /\ printed = [d \in Donations |-> 0]
  /\ entries = {} /\ standing = Donations /\ doubted = {}

(* The entry, its number and the number on the donation appear together. *)
Issue(d) ==
  /\ last' = last + 1
  /\ d \in standing
  /\ d \in doubted \/ \A e \in entries : e.of # d
  /\ printed' = [printed EXCEPT ![d] = last + 1]
  /\ entries' = entries \cup {Entry(last + 1, d)}
  /\ UNCHANGED <<standing, doubted>>

Strike(d) ==
  /\ d \in standing
  /\ standing' = standing \ {d}
  /\ entries' = {e \in entries : e.of # d}
  /\ UNCHANGED <<last, printed, doubted>>

Doubt(d) ==
  /\ d \notin doubted
  /\ doubted' = doubted \cup {d}
  /\ UNCHANGED <<last, printed, entries, standing>>

Next == \E d \in Donations : Issue(d) \/ Strike(d) \/ Doubt(d)

Spec == Init /\ [][Next]_book

=============================================================================
