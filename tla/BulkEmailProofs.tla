-------------------------- MODULE BulkEmailProofs ---------------------------
(***************************************************************************)
(* Proofs about BulkEmail, for any number of recipients, rows, runs and    *)
(* faults.                                                                 *)
(*                                                                         *)
(* What has been dealt with (delivered, failed or gone) and what a run     *)
(* still has on its list together cover the row at every step, whatever    *)
(* overlaps.  That a recipient is not mailed twice rests on the rows that  *)
(* list them being a line: all but the last were resumed, a row that was   *)
(* resumed is at rest, and as long as the last one remains to be mailed to *)
(* them, nobody has mailed them.  Each recipient has such a line of their  *)
(* own, so that the exceptions for one do not touch the others.            *)
(***************************************************************************)
EXTENDS BulkEmail, FiniteSetTheorems, TLAPS

Alive(w) == run[w].at # "idle"

(* The run has a mail out that the row does not show yet. *)
InFlight(w, c) == run[w].at = "record" /\ run[w].who = c /\ run[w].outcome = "delivered"

(* Rows and runs are well formed, in every state. *)
RowsFormed ==
  \A n \in Rows :
    /\ row[n].delivered \subseteq row[n].ids /\ row[n].failed \subseteq row[n].ids
    /\ row[n].status = "completed" => row[n].count >= Total(n)
    /\ row[n].parent < n
    /\ n > used => row[n] = NoRow /\ n \notin unsent /\ mailJobs[n] = "none"

RunsFormed ==
  \A w \in Workers :
    /\ ~Alive(w) => run[w] = NoRun
    /\ Alive(w) => run[w].row \in 1..used
    /\ run[w].at \in {"gate", "load", "close"} => run[w].todo = {}
    /\ Alive(w) => run[w].todo \subseteq row[run[w].row].ids
    /\ run[w].at = "record" => run[w].who \in run[w].todo

(* The list of a run covers what its row does not account for. *)
ListsCover ==
  \A w \in Workers :
    LET r == row[run[w].row] IN
    /\ run[w].at = "fetch" => r.ids \ (r.delivered \cup r.failed) \subseteq run[w].todo
    /\ run[w].at \in {"send", "record", "close"} =>
         r.ids \ (r.delivered \cup r.failed) \subseteq run[w].todo \cup gone

DeliveredWasSent ==
  /\ \A n \in Rows : \A c \in row[n].delivered : mails[c] > 0
  /\ \A w \in Workers : \A c \in Recipients : InFlight(w, c) => mails[c] > 0
  /\ used = 0 => \A c \in Recipients : mails[c] = 0

(* A row that was never handed out twice has one run at most. *)
OneRun ==
  \A v, w \in Workers :
    Alive(v) /\ Alive(w) /\ run[v].row = run[w].row /\ run[v].row \notin doubled => v = w

(* Then its counter is exact, and who is on the list is not in the row. *)
Exact ==
  /\ \A n \in Rows \ doubled : row[n].count = Cardinality(row[n].delivered)
  /\ \A w \in Workers : Alive(w) /\ run[w].row \notin doubled =>
       run[w].todo \cap (row[run[w].row].delivered \cup row[run[w].row].failed) = {}

(* The rows that list c are a line, of which only the last may mail c. *)
Line(c) ==
  /\ \A n, m \in 1..used : n < m /\ c \in row[n].ids /\ c \in row[m].ids => WasResumed(n)
  /\ \A n \in 1..used : WasResumed(n) /\ c \in Remaining(n) => ~StillMailing(n)
  /\ \A n \in 1..used : c \in Remaining(n) /\ ~WasResumed(n) =>
       mails[c] = 0 \/ c \in unproved \/ \E w \in Workers : InFlight(w, c)

Lines == \A c \in Recipients : ~Repeated(c) => Line(c)

IInv ==
  /\ TypeOK
  /\ RowsFormed
  /\ RunsFormed
  /\ ListsCover
  /\ NobodyForgotten
  /\ DeliveredWasSent
  /\ OneRun
  /\ Exact
  /\ Lines
  /\ NobodyMailedTwice

(* Sets of recipients are finite. *)
LEMMA SmallSets == \A S \in SUBSET Recipients : IsFiniteSet(S) /\ Cardinality(S) \in Nat
BY RecipientsAssumption, FS_Subset, FS_CardinalityType

(* One run moves, the others stay. *)
LEMMA RunPut ==
  ASSUME TypeOK, NEW w \in Workers, NEW r \in RunRecord, run' = [run EXCEPT ![w] = r]
  PROVE  /\ run' \in [Workers -> RunRecord] /\ run'[w] = r
         /\ \A v \in Workers : v # w => run'[v] = run[v]
BY DEF TypeOK

(* One row changes, the others stay. *)
LEMMA RowPut ==
  ASSUME TypeOK, NEW n \in Rows, NEW x \in RowRecord, row' = [row EXCEPT ![n] = x]
  PROVE  /\ row' \in [Rows -> RowRecord] /\ row'[n] = x
         /\ \A m \in Rows : m # n => row'[m] = row[m]
BY DEF TypeOK

(* The fields of rows and runs. *)
LEMMA Fields ==
  ASSUME TypeOK
  PROVE  /\ \A n \in Rows :
              /\ row[n].status \in RowStatus /\ row[n].ids \subseteq Recipients
              /\ row[n].delivered \subseteq Recipients /\ row[n].failed \subseteq Recipients
              /\ row[n].count \in Nat /\ row[n].parent \in Nat
         /\ \A w \in Workers :
              /\ run[w].row \in 0..MaxRows /\ run[w].todo \subseteq Recipients
              /\ run[w].at \in {"idle", "gate", "load", "fetch", "send", "record", "close"}
              /\ run[w].outcome \in {"none", "delivered", "failed"}
BY DEF TypeOK, RowRecord, RunRecord

(* The numbers of rows. *)
LEMMA Numbers ==
  ASSUME TypeOK
  PROVE  /\ used \in Nat /\ \A m \in 1..used : m \in Rows
         /\ \A m \in Rows : m \in Nat /\ m > 0 /\ (m < used => m + 1 \in Rows) /\ (m <= used => m \in 1..used)
BY BoundsAssumption DEF TypeOK, Rows

(* A run that has no job. *)
LEMMA NoRunType ==
  NoRun \in RunRecord /\ NoRun.at = "idle" /\ NoRun.todo = {} /\ NoRun.outcome = "none"
BY BoundsAssumption DEF NoRun, RunRecord

(* The number of faults is a number. *)
LEMMA Faults == TypeOK /\ Fault => faults' \in Nat
BY DEF TypeOK, Fault

(* The lines stay when no row changes hands: rows keep their recipients,   *)
(* nothing at rest starts again, and who is mailed is in a run's hands.    *)
LEMMA LinesStay ==
  ASSUME IInv, used' = used, doubled \subseteq doubled', shared' = shared, again' = again,
         \A m \in Rows : /\ row'[m].ids = row[m].ids /\ row'[m].delivered = row[m].delivered
                         /\ row'[m].parent = row[m].parent,
         \A m \in Rows : StillMailing(m)' => StillMailing(m),
         unproved \subseteq unproved',
         \A c \in Recipients :
           mails'[c] = mails[c] \/ c \in unproved' \/ \E v \in Workers : InFlight(v, c)',
         \A v \in Workers, c \in Recipients : InFlight(v, c) => InFlight(v, c)' \/ c \in unproved'
  PROVE  Lines'
<1> SUFFICES ASSUME NEW c \in Recipients, ~Repeated(c)' PROVE Line(c)'
  BY DEF Lines
<1>1. \A n \in 1..used : n \in Rows
  BY Numbers DEF IInv
<1>2. ~Repeated(c)
  BY DEF Repeated, IInv, TypeOK
<1>3. Line(c)
  BY <1>2 DEF IInv, Lines
<1>4. \A n \in 1..used : (WasResumed(n)' <=> WasResumed(n)) /\ Remaining(n)' = Remaining(n)
  BY <1>1 DEF WasResumed, Remaining
<1>5. \A n, m \in 1..used' : n < m /\ c \in row'[n].ids /\ c \in row'[m].ids => WasResumed(n)'
  BY <1>1, <1>3, <1>4 DEF Line
<1>6. \A n \in 1..used' : WasResumed(n)' /\ c \in Remaining(n)' => ~StillMailing(n)'
  BY <1>1, <1>3, <1>4 DEF Line
<1>7. \A n \in 1..used' : c \in Remaining(n)' /\ ~WasResumed(n)' =>
        mails'[c] = 0 \/ c \in unproved' \/ \E w \in Workers : InFlight(w, c)'
  BY <1>1, <1>3, <1>4 DEF Line
<1> QED BY <1>5, <1>6, <1>7 DEF Line

(* Whose line it is: a run that has c on its list is the only one to mail  *)
(* them, and has not done so yet.                                          *)
LEMMA OnTheList ==
  ASSUME IInv, NEW w \in Workers, NEW c \in run[w].todo, Alive(w), ~Repeated(c)
  PROVE  /\ c \in Recipients /\ run[w].row \in 1..used /\ run[w].row \in Rows
         /\ c \in Remaining(run[w].row) /\ ~WasResumed(run[w].row)
         /\ \A v \in Workers : InFlight(v, c) => v = w
         /\ \A m \in 1..used : c \in row[m].ids /\ m # run[w].row => WasResumed(m)
<1> DEFINE n == run[w].row
<1>1. /\ c \in Recipients /\ n \in 1..used /\ n \in Rows /\ c \in row[n].ids
      /\ n \notin doubled /\ used \in Nat
  BY Numbers, Fields DEF IInv, RunsFormed, Repeated
<1>2. Line(c)
  BY <1>1 DEF IInv, Lines
<1>3. c \in Remaining(n)
  BY <1>1 DEF IInv, Exact, Remaining
<1>4. StillMailing(n)
  BY DEF StillMailing
<1>5. ~WasResumed(n)
  BY <1>1, <1>2, <1>3, <1>4 DEF Line
<1>6. \A m \in 1..used : c \in row[m].ids /\ m # n => WasResumed(m)
  <2> SUFFICES ASSUME NEW m \in 1..used, c \in row[m].ids, m # n PROVE WasResumed(m)
    OBVIOUS
  <2>1. m < n \/ n < m
    BY <1>1
  <2> QED BY <1>1, <1>2, <1>5, <2>1 DEF Line
<1>7. ASSUME NEW v \in Workers, InFlight(v, c), v # w PROVE FALSE
  <2>1. Alive(v) /\ c \in run[v].todo /\ run[v].row \in 1..used /\ c \in row[run[v].row].ids
    BY <1>7 DEF InFlight, Alive, IInv, RunsFormed
  <2>2. run[v].row # n
    BY <1>1, <1>7, <2>1 DEF IInv, OneRun
  <2>3. run[v].row \notin doubled /\ c \notin row[run[v].row].delivered
    BY <2>1 DEF Repeated, IInv, Exact
  <2>4. c \in Remaining(run[v].row) /\ StillMailing(run[v].row)
    BY <2>1, <2>3 DEF Remaining, StillMailing
  <2> QED BY <1>2, <1>6, <2>1, <2>2, <2>4 DEF Line
<1> QED BY <1>1, <1>3, <1>5, <1>6, <1>7

(* A run without a mail in flight ends: the row and the mails stay. *)
LEMMA EndKeeps ==
  ASSUME IInv, NEW w \in Workers, Alive(w), NEW o \in {"completed", "failed"}, EndRun(w, o),
         faults' \in Nat, \A c : ~InFlight(w, c),
         UNCHANGED <<used, row, cold, envVars, mails, unproved, doubled, shared, again>>
  PROVE  IInv'
<1>1. /\ run' = [run EXCEPT ![w] = NoRun] /\ NoRun \in RunRecord /\ NoRun.at = "idle"
      /\ UNCHANGED <<used, row, cold, gone, flag, flips, mails, unproved, doubled, shared, again, unsent, stalled>>
      /\ faults' \in Nat
  BY BoundsAssumption DEF EndRun, NoRun, RunRecord, envVars
<1>2. /\ run' \in [Workers -> RunRecord] /\ run'[w] = NoRun
      /\ \A v \in Workers : v # w => run'[v] = run[v]
  BY <1>1, RunPut DEF IInv
<1>3. run[w].row \in 1..used /\ run[w].row \in Rows
  BY BoundsAssumption DEF IInv, RunsFormed, TypeOK, Rows
<1>4. /\ mailJobs' \in [Rows -> JobState] /\ owner' \in [Rows -> Workers \cup {Idle}]
      /\ \A n \in Rows : n # run[w].row => mailJobs'[n] = mailJobs[n]
      /\ \A n \in Rows : mailJobs'[n] \in {"waiting", "active"} => mailJobs[n] \in {"waiting", "active"}
  BY <1>3 DEF EndRun, Move, JobState, IInv, TypeOK
<1>5. \A v \in Workers : \A c : InFlight(v, c)' <=> InFlight(v, c)
  BY <1>1, <1>2 DEF InFlight
<1>10. TypeOK'
  BY <1>1, <1>2, <1>3, <1>4 DEF IInv, TypeOK, Rows
<1>11. RowsFormed'
  BY <1>1, <1>3, <1>4, BoundsAssumption DEF IInv, TypeOK, RowsFormed, Total, Rows
<1>12. RunsFormed'
  BY <1>1, <1>2, <1>3, <1>4 DEF IInv, RowsFormed, RunsFormed, Alive
<1>13. ListsCover'
  BY <1>1, <1>2, <1>3, <1>4 DEF IInv, RowsFormed, RunsFormed, Alive, ListsCover
<1>14. NobodyForgotten'
  BY <1>1, <1>2, <1>3, <1>4 DEF IInv, RowsFormed, RunsFormed, Alive, ListsCover, NobodyForgotten, Ended
<1>15. DeliveredWasSent'
  BY <1>1, <1>2, <1>3, <1>4 DEF IInv, RunsFormed, Alive, DeliveredWasSent, InFlight
<1>16. OneRun'
  BY <1>1, <1>2, <1>3, <1>4 DEF IInv, RunsFormed, OneRun, Alive
<1>17. Exact'
  BY <1>1, <1>2, <1>3, <1>4, <1>5 DEF IInv, OneRun, Exact, Alive
<1>18. NobodyMailedTwice'
  BY <1>1, <1>2, <1>3, <1>4 DEF IInv, NobodyMailedTwice, Repeated, TypeOK
<1>19. Lines'
  <2>1. \A m \in Rows : StillMailing(m)' => StillMailing(m)
    BY <1>1, <1>2, <1>4, Numbers DEF StillMailing, NoRun, IInv, RunsFormed, Alive
  <2>2. \A v \in Workers, c \in Recipients : InFlight(v, c) => InFlight(v, c)' \/ c \in unproved'
    BY <1>5 DEF InFlight
  <2> QED BY <1>1, <2>1, <2>2, LinesStay
<1> QED BY <1>10, <1>11, <1>12, <1>13, <1>14, <1>15, <1>16, <1>17, <1>18, <1>19 DEF IInv

(* A mail is accepted: nobody on a list has been mailed before, with the exceptions. *)
LEMMA SendMailKeeps ==
  ASSUME IInv, NEW w \in Workers, NEW c \in Recipients, SendMail(w, c)
  PROVE  IInv'
<1>1. PICK r \in RunRecord :
        /\ run' = [run EXCEPT ![w] = r]
        /\ r.row = run[w].row /\ r.todo = run[w].todo
        /\ r.at = "record" /\ r.who = c /\ r.outcome = "delivered"
  <2> DEFINE q == [run[w] EXCEPT !.at = "record", !.who = c, !.outcome = "delivered"]
  <2>1. run[w] \in RunRecord
    BY DEF IInv, TypeOK
  <2>2. q \in RunRecord
    BY <2>1, BoundsAssumption DEF RunRecord, AfterOne, NoRun
  <2>3. run' = [run EXCEPT ![w] = q]
    BY DEF SendMail, SmtpAnswer
  <2>4. /\ q.row = run[w].row /\ q.todo = run[w].todo
        /\ q.at = "record" /\ q.who = c /\ q.outcome = "delivered"
    BY <2>1 DEF RunRecord, SendMail, SmtpAnswer
  <2> QED BY <2>2, <2>3, <2>4
<1>2. /\ run' \in [Workers -> RunRecord] /\ run'[w] = r
      /\ \A v \in Workers : v # w => run'[v] = run[v]
  BY <1>1, RunPut DEF IInv
<1>3. /\ UNCHANGED <<used, row, unsent, mailJobs, stalled, owner, cold, gone, flag, flips, doubled, shared, again>>
      /\ mails' = [mails EXCEPT ![c] = @ + 1] /\ UNCHANGED <<faults, unproved>>
  BY DEF SendMail, SmtpAnswer, Fault, queueVars, envVars, mailVars, overlapVars
<1>4. run[w].at = "send" /\ c \in run[w].todo /\ Alive(w) /\ faults' \in Nat
  BY Faults DEF SendMail, SmtpAnswer, Alive, IInv, TypeOK
<1>5. mails' \in [Recipients -> Nat] /\ \A x \in Recipients : mails'[x] >= mails[x] /\ (x # c => mails'[x] = mails[x])
  BY <1>3 DEF IInv, TypeOK
<1>6. mails[c] \in Nat /\ mails'[c] = mails[c] + 1
  BY <1>3 DEF IInv, TypeOK
<1>7. ~Repeated(c) /\ c \notin unproved => mails[c] = 0
  <2> SUFFICES ASSUME ~Repeated(c), c \notin unproved PROVE mails[c] = 0
    OBVIOUS
  <2>1. \A v \in Workers : ~InFlight(v, c)
    BY <1>4, OnTheList DEF InFlight
  <2> QED BY <1>4, <2>1, OnTheList DEF IInv, Lines, Line
<1>10. TypeOK'
  BY <1>1, <1>2, <1>3, <1>4, <1>5, <1>6, <1>7 DEF IInv, TypeOK
<1>11. RowsFormed'
  BY <1>1, <1>2, <1>3, <1>4, <1>5, <1>6, <1>7 DEF IInv, RowsFormed, RunsFormed, Alive, Total
<1>12. RunsFormed'
  BY <1>1, <1>2, <1>3, <1>4, <1>5, <1>6, <1>7 DEF IInv, RowsFormed, RunsFormed, Alive
<1>13. ListsCover'
  BY <1>1, <1>2, <1>3, <1>4, <1>5, <1>6, <1>7 DEF IInv, RowsFormed, RunsFormed, Alive, ListsCover
<1>14. NobodyForgotten'
  BY <1>1, <1>2, <1>3, <1>4, <1>5, <1>6, <1>7 DEF IInv, RowsFormed, RunsFormed, Alive, ListsCover, NobodyForgotten, Ended
<1>15. DeliveredWasSent'
  BY <1>1, <1>2, <1>3, <1>4, <1>5, <1>6, <1>7 DEF IInv, RunsFormed, Alive, DeliveredWasSent, InFlight
<1>16. OneRun'
  BY <1>1, <1>2, <1>3, <1>4, <1>5, <1>6, <1>7 DEF IInv, RunsFormed, OneRun, Alive
<1>17. Exact'
  BY <1>1, <1>2, <1>3, <1>4, <1>5, <1>6, <1>7 DEF IInv, RowsFormed, RunsFormed, OneRun, Exact, Alive, InFlight
<1>18. NobodyMailedTwice'
  BY <1>1, <1>2, <1>3, <1>4, <1>5, <1>6, <1>7 DEF IInv, NobodyMailedTwice, Repeated, TypeOK
<1>19. Lines'
  <2>1. \A m \in Rows : StillMailing(m)' => StillMailing(m)
    BY <1>1, <1>2, <1>3 DEF StillMailing
  <2>2. \A v \in Workers, x \in Recipients : InFlight(v, x) => InFlight(v, x)' \/ x \in unproved'
    BY <1>1, <1>2, <1>3, <1>4 DEF InFlight
  <2>3. InFlight(w, c)'
    BY <1>1, <1>2 DEF InFlight
  <2> QED BY <1>3, <1>5, <2>3, <2>1, <2>2, LinesStay
<1> QED BY <1>10, <1>11, <1>12, <1>13, <1>14, <1>15, <1>16, <1>17, <1>18, <1>19 DEF IInv

(* A mail is refused. *)
LEMMA MailRefusedKeeps ==
  ASSUME IInv, NEW w \in Workers, NEW c \in Recipients, MailRefused(w, c)
  PROVE  IInv'
<1>1. PICK r \in RunRecord :
        /\ run' = [run EXCEPT ![w] = r]
        /\ r.row = run[w].row /\ r.todo = run[w].todo
        /\ r.at = "record" /\ r.who = c /\ r.outcome = "failed"
  <2> DEFINE q == [run[w] EXCEPT !.at = "record", !.who = c, !.outcome = "failed"]
  <2>1. run[w] \in RunRecord
    BY DEF IInv, TypeOK
  <2>2. q \in RunRecord
    BY <2>1, BoundsAssumption DEF RunRecord, AfterOne, NoRun
  <2>3. run' = [run EXCEPT ![w] = q]
    BY DEF MailRefused, SmtpAnswer
  <2>4. /\ q.row = run[w].row /\ q.todo = run[w].todo
        /\ q.at = "record" /\ q.who = c /\ q.outcome = "failed"
    BY <2>1 DEF RunRecord, MailRefused, SmtpAnswer
  <2> QED BY <2>2, <2>3, <2>4
<1>2. /\ run' \in [Workers -> RunRecord] /\ run'[w] = r
      /\ \A v \in Workers : v # w => run'[v] = run[v]
  BY <1>1, RunPut DEF IInv
<1>3. /\ UNCHANGED <<used, row, unsent, mailJobs, stalled, owner, cold, gone, flag, flips, doubled, shared, again>>
      /\ UNCHANGED <<faults, mails, unproved>>
  BY DEF MailRefused, SmtpAnswer, Fault, queueVars, envVars, mailVars, overlapVars
<1>4. run[w].at = "send" /\ c \in run[w].todo /\ Alive(w) /\ faults' \in Nat
  BY Faults DEF MailRefused, SmtpAnswer, Alive, IInv, TypeOK
<1>5. mails' \in [Recipients -> Nat] /\ \A x \in Recipients : mails'[x] >= mails[x] /\ (x # c => mails'[x] = mails[x])
  BY <1>3 DEF IInv, TypeOK
<1>10. TypeOK'
  BY <1>1, <1>2, <1>3, <1>4, <1>5 DEF IInv, TypeOK
<1>11. RowsFormed'
  BY <1>1, <1>2, <1>3, <1>4, <1>5 DEF IInv, RowsFormed, RunsFormed, Alive, Total
<1>12. RunsFormed'
  BY <1>1, <1>2, <1>3, <1>4, <1>5 DEF IInv, RowsFormed, RunsFormed, Alive
<1>13. ListsCover'
  BY <1>1, <1>2, <1>3, <1>4, <1>5 DEF IInv, RowsFormed, RunsFormed, Alive, ListsCover
<1>14. NobodyForgotten'
  BY <1>1, <1>2, <1>3, <1>4, <1>5 DEF IInv, RowsFormed, RunsFormed, Alive, ListsCover, NobodyForgotten, Ended
<1>15. DeliveredWasSent'
  BY <1>1, <1>2, <1>3, <1>4, <1>5 DEF IInv, RunsFormed, Alive, DeliveredWasSent, InFlight
<1>16. OneRun'
  BY <1>1, <1>2, <1>3, <1>4, <1>5 DEF IInv, RunsFormed, OneRun, Alive
<1>17. Exact'
  BY <1>1, <1>2, <1>3, <1>4, <1>5 DEF IInv, RowsFormed, RunsFormed, OneRun, Exact, Alive, InFlight
<1>18. NobodyMailedTwice'
  BY <1>1, <1>2, <1>3, <1>4, <1>5 DEF IInv, NobodyMailedTwice, Repeated, TypeOK
<1>19. Lines'
  <2>1. \A m \in Rows : StillMailing(m)' => StillMailing(m)
    BY <1>1, <1>2, <1>3 DEF StillMailing
  <2>2. \A v \in Workers, x \in Recipients : InFlight(v, x) => InFlight(v, x)' \/ x \in unproved'
    BY <1>1, <1>2, <1>3, <1>4 DEF InFlight
  <2> QED BY <1>3, <2>1, <2>2, LinesStay
<1> QED BY <1>10, <1>11, <1>12, <1>13, <1>14, <1>15, <1>16, <1>17, <1>18, <1>19 DEF IInv

(* A mail arrives although the client sees an error. *)
LEMMA MailAmbiguousKeeps ==
  ASSUME IInv, NEW w \in Workers, NEW c \in Recipients, MailAmbiguous(w, c)
  PROVE  IInv'
<1>1. PICK r \in RunRecord :
        /\ run' = [run EXCEPT ![w] = r]
        /\ r.row = run[w].row /\ r.todo = run[w].todo
        /\ r.at = "record" /\ r.who = c /\ r.outcome = "failed"
  <2> DEFINE q == [run[w] EXCEPT !.at = "record", !.who = c, !.outcome = "failed"]
  <2>1. run[w] \in RunRecord
    BY DEF IInv, TypeOK
  <2>2. q \in RunRecord
    BY <2>1, BoundsAssumption DEF RunRecord, AfterOne, NoRun
  <2>3. run' = [run EXCEPT ![w] = q]
    BY DEF MailAmbiguous, SmtpAnswer
  <2>4. /\ q.row = run[w].row /\ q.todo = run[w].todo
        /\ q.at = "record" /\ q.who = c /\ q.outcome = "failed"
    BY <2>1 DEF RunRecord, MailAmbiguous, SmtpAnswer
  <2> QED BY <2>2, <2>3, <2>4
<1>2. /\ run' \in [Workers -> RunRecord] /\ run'[w] = r
      /\ \A v \in Workers : v # w => run'[v] = run[v]
  BY <1>1, RunPut DEF IInv
<1>3. /\ UNCHANGED <<used, row, unsent, mailJobs, stalled, owner, cold, gone, flag, flips, doubled, shared, again>>
      /\ mails' = [mails EXCEPT ![c] = @ + 1] /\ unproved' = unproved \cup {c}
  BY DEF MailAmbiguous, SmtpAnswer, Fault, queueVars, envVars, mailVars, overlapVars
<1>4. run[w].at = "send" /\ c \in run[w].todo /\ Alive(w) /\ faults' \in Nat
  BY Faults DEF MailAmbiguous, SmtpAnswer, Alive, IInv, TypeOK
<1>5. mails' \in [Recipients -> Nat] /\ \A x \in Recipients : mails'[x] >= mails[x] /\ (x # c => mails'[x] = mails[x])
  BY <1>3 DEF IInv, TypeOK
<1>6. mails[c] \in Nat /\ mails'[c] = mails[c] + 1
  BY <1>3 DEF IInv, TypeOK
<1>10. TypeOK'
  BY <1>1, <1>2, <1>3, <1>4, <1>5, <1>6 DEF IInv, TypeOK
<1>11. RowsFormed'
  BY <1>1, <1>2, <1>3, <1>4, <1>5, <1>6 DEF IInv, RowsFormed, RunsFormed, Alive, Total
<1>12. RunsFormed'
  BY <1>1, <1>2, <1>3, <1>4, <1>5, <1>6 DEF IInv, RowsFormed, RunsFormed, Alive
<1>13. ListsCover'
  BY <1>1, <1>2, <1>3, <1>4, <1>5, <1>6 DEF IInv, RowsFormed, RunsFormed, Alive, ListsCover
<1>14. NobodyForgotten'
  BY <1>1, <1>2, <1>3, <1>4, <1>5, <1>6 DEF IInv, RowsFormed, RunsFormed, Alive, ListsCover, NobodyForgotten, Ended
<1>15. DeliveredWasSent'
  BY <1>1, <1>2, <1>3, <1>4, <1>5, <1>6 DEF IInv, RunsFormed, Alive, DeliveredWasSent, InFlight
<1>16. OneRun'
  BY <1>1, <1>2, <1>3, <1>4, <1>5, <1>6 DEF IInv, RunsFormed, OneRun, Alive
<1>17. Exact'
  BY <1>1, <1>2, <1>3, <1>4, <1>5, <1>6 DEF IInv, RowsFormed, RunsFormed, OneRun, Exact, Alive, InFlight
<1>18. NobodyMailedTwice'
  BY <1>1, <1>2, <1>3, <1>4, <1>5, <1>6 DEF IInv, NobodyMailedTwice, Repeated, TypeOK
<1>19. Lines'
  <2>1. \A m \in Rows : StillMailing(m)' => StillMailing(m)
    BY <1>1, <1>2, <1>3 DEF StillMailing
  <2>2. \A v \in Workers, x \in Recipients : InFlight(v, x) => InFlight(v, x)' \/ x \in unproved'
    BY <1>1, <1>2, <1>3, <1>4 DEF InFlight
  <2> QED BY <1>3, <1>5, <2>1, <2>2, LinesStay
<1> QED BY <1>10, <1>11, <1>12, <1>13, <1>14, <1>15, <1>16, <1>17, <1>18, <1>19 DEF IInv

(* The recipients that are gone leave the list. *)
LEMMA FetchRecipientsKeeps ==
  ASSUME IInv, NEW w \in Workers, FetchRecipients(w)
  PROVE  IInv'
<1>1. PICK r \in RunRecord :
        /\ run' = [run EXCEPT ![w] = r]
        /\ r.row = run[w].row /\ r.todo = run[w].todo \ gone
        /\ r.at = AfterOne(r.todo) /\ r.outcome = run[w].outcome /\ r.who = run[w].who
  <2> DEFINE q == [run[w] EXCEPT !.todo = @ \ gone, !.at = AfterOne(run[w].todo \ gone)]
  <2>1. run[w] \in RunRecord
    BY DEF IInv, TypeOK
  <2>2. q \in RunRecord
    BY <2>1, BoundsAssumption DEF RunRecord, AfterOne, NoRun
  <2>3. run' = [run EXCEPT ![w] = q]
    BY DEF FetchRecipients
  <2>4. /\ q.row = run[w].row /\ q.todo = run[w].todo \ gone
        /\ q.at = AfterOne(q.todo) /\ q.outcome = run[w].outcome /\ q.who = run[w].who
    BY <2>1 DEF RunRecord, FetchRecipients
  <2> QED BY <2>2, <2>3, <2>4
<1>2. /\ run' \in [Workers -> RunRecord] /\ run'[w] = r
      /\ \A v \in Workers : v # w => run'[v] = run[v]
  BY <1>1, RunPut DEF IInv
<1>3. /\ UNCHANGED <<used, row, unsent, mailJobs, stalled, owner, cold, gone, flag, flips, doubled, shared, again>> /\ UNCHANGED <<faults, mails, unproved>>
  BY DEF FetchRecipients, Fault, queueVars, envVars, mailVars, overlapVars
<1>4. run[w].at = "fetch" /\ Alive(w)
  BY DEF FetchRecipients, Alive
<1>5. r.at \in {"send", "close"} /\ (r.at = "close" <=> r.todo = {})
  BY <1>1 DEF AfterOne
<1>10. TypeOK'
  BY <1>1, <1>2, <1>3, <1>4, <1>5 DEF IInv, TypeOK
<1>11. RowsFormed'
  BY <1>1, <1>2, <1>3, <1>4, <1>5 DEF IInv, RowsFormed, RunsFormed, Alive, Total
<1>12. RunsFormed'
  BY <1>1, <1>2, <1>3, <1>4, <1>5 DEF IInv, RowsFormed, RunsFormed, Alive
<1>13. ListsCover'
  BY <1>1, <1>2, <1>3, <1>4, <1>5 DEF IInv, RowsFormed, RunsFormed, Alive, ListsCover
<1>14. NobodyForgotten'
  BY <1>1, <1>2, <1>3, <1>4, <1>5 DEF IInv, RowsFormed, RunsFormed, Alive, ListsCover, NobodyForgotten, Ended
<1>15. DeliveredWasSent'
  BY <1>1, <1>2, <1>3, <1>4, <1>5 DEF IInv, RunsFormed, Alive, DeliveredWasSent, InFlight
<1>16. OneRun'
  BY <1>1, <1>2, <1>3, <1>4, <1>5 DEF IInv, RunsFormed, OneRun, Alive
<1>17. Exact'
  BY <1>1, <1>2, <1>3, <1>4, <1>5 DEF IInv, RowsFormed, RunsFormed, OneRun, Exact, Alive, InFlight
<1>18. NobodyMailedTwice'
  BY <1>1, <1>2, <1>3, <1>4, <1>5 DEF IInv, NobodyMailedTwice, Repeated, TypeOK
<1>19. Lines'
  <2>1. \A m \in Rows : StillMailing(m)' => StillMailing(m)
    BY <1>1, <1>2, <1>3 DEF StillMailing
  <2>2. \A v \in Workers, c \in Recipients : InFlight(v, c) => InFlight(v, c)' \/ c \in unproved'
    BY <1>1, <1>2, <1>3, <1>4 DEF InFlight
  <2> QED BY <1>3, <2>1, <2>2, LinesStay
<1> QED BY <1>10, <1>11, <1>12, <1>13, <1>14, <1>15, <1>16, <1>17, <1>18, <1>19 DEF IInv

(* A run takes a job: it is the only one, or it races. *)
LEMMA TakeMailJobKeeps ==
  ASSUME IInv, NEW w \in Workers, NEW n \in Rows, TakeMailJob(w, n)
  PROVE  IInv'
<1>1. PICK r \in RunRecord :
        /\ run' = [run EXCEPT ![w] = r]
        /\ r.row = n /\ r.todo = {}
        /\ r.at = "gate"
  <2> DEFINE q == [NoRun EXCEPT !.row = n, !.at = "gate"]
  <2>1. run[w] \in RunRecord
    BY DEF IInv, TypeOK
  <2>2. q \in RunRecord
    <3>1. n \in 0..MaxRows
      BY BoundsAssumption DEF Rows
    <3>2. NoRun \in RunRecord
      BY NoRunType
    <3> QED BY <3>1, <3>2 DEF RunRecord
  <2>3. run' = [run EXCEPT ![w] = q]
    BY DEF TakeMailJob
  <2>4. /\ q.row = n /\ q.todo = {}
        /\ q.at = "gate"
    BY NoRunType DEF RunRecord
  <2> QED BY <2>2, <2>3, <2>4
<1>2. /\ run' \in [Workers -> RunRecord] /\ run'[w] = r
      /\ \A v \in Workers : v # w => run'[v] = run[v]
  BY <1>1, RunPut DEF IInv
<1>3. /\ UNCHANGED <<used, row, unsent, stalled, cold, gone, flag, flips, faults, mails, unproved>>
      /\ doubled' = IF \E v \in Workers : run[v].row = n THEN doubled \cup {n} ELSE doubled
      /\ UNCHANGED <<shared, again>>
  BY DEF TakeMailJob, Fault, queueVars, envVars, mailVars, overlapVars
<1>4. run[w].at = "idle" /\ mailJobs[n] = "waiting" /\ n \in 1..used
  BY BoundsAssumption DEF TakeMailJob, IInv, RowsFormed, TypeOK, Rows
<1>5. /\ mailJobs' \in [Rows -> JobState] /\ owner' \in [Rows -> Workers \cup {Idle}]
      /\ mailJobs'[n] = "active" /\ \A m \in Rows : m # n => mailJobs'[m] = mailJobs[m]
  BY DEF TakeMailJob, Move, JobState, IInv, TypeOK
<1>6. \A v \in Workers, c \in Recipients : InFlight(v, c)' <=> InFlight(v, c)
  BY <1>1, <1>2, <1>4 DEF InFlight
<1>7. doubled \subseteq doubled' /\ (n \notin doubled' => \A v \in Workers : run[v].row # n)
  BY <1>3
<1>10. TypeOK'
  BY <1>1, <1>2, <1>3, <1>4, <1>5, <1>6, <1>7 DEF IInv, TypeOK, NoRun
<1>11. RowsFormed'
  BY <1>1, <1>2, <1>3, <1>4, <1>5, <1>6, <1>7 DEF IInv, RowsFormed, RunsFormed, Alive, Total, Rows
<1>12. RunsFormed'
  BY <1>1, <1>2, <1>3, <1>4, <1>5, <1>6, <1>7 DEF IInv, RowsFormed, RunsFormed, Alive
<1>13. ListsCover'
  BY <1>1, <1>2, <1>3, <1>4, <1>5, <1>6, <1>7 DEF IInv, RowsFormed, RunsFormed, Alive, ListsCover
<1>14. NobodyForgotten'
  BY <1>1, <1>2, <1>3, <1>4, <1>5, <1>6, <1>7 DEF IInv, RowsFormed, RunsFormed, Alive, ListsCover, NobodyForgotten, Ended
<1>15. DeliveredWasSent'
  BY <1>1, <1>2, <1>3, <1>4, <1>5, <1>6, <1>7 DEF IInv, RunsFormed, Alive, DeliveredWasSent, InFlight
<1>16. OneRun'
  BY <1>1, <1>2, <1>3, <1>4, <1>5, <1>6, <1>7 DEF IInv, RunsFormed, OneRun, Alive
<1>17. Exact'
  BY <1>1, <1>2, <1>3, <1>4, <1>5, <1>6, <1>7 DEF IInv, RowsFormed, RunsFormed, OneRun, Exact, Alive, InFlight
<1>18. NobodyMailedTwice'
  BY <1>1, <1>2, <1>3, <1>4, <1>5, <1>6, <1>7 DEF IInv, NobodyMailedTwice, Repeated, TypeOK
<1>19. Lines'
  <2>1. \A m \in Rows : StillMailing(m)' => StillMailing(m)
    BY <1>1, <1>2, <1>3, <1>4, <1>5 DEF StillMailing
  <2>2. \A v \in Workers, c \in Recipients : InFlight(v, c) => InFlight(v, c)' \/ c \in unproved'
    BY <1>6 DEF IInv
  <2> QED BY <1>3, <2>1, <2>2, LinesStay
<1> QED BY <1>10, <1>11, <1>12, <1>13, <1>14, <1>15, <1>16, <1>17, <1>18, <1>19 DEF IInv

(* The flag is on. *)
LEMMA PassFlagKeeps ==
  ASSUME IInv, NEW w \in Workers, CheckFlag(w), flag
  PROVE  IInv'
<1>1. PICK r \in RunRecord :
        /\ run' = [run EXCEPT ![w] = r]
        /\ r.row = run[w].row /\ r.todo = run[w].todo
        /\ r.at = "load"
  <2> DEFINE q == [run[w] EXCEPT !.at = "load"]
  <2>1. run[w] \in RunRecord
    BY DEF IInv, TypeOK
  <2>2. q \in RunRecord
    BY <2>1, BoundsAssumption DEF RunRecord, AfterOne, NoRun
  <2>3. run' = [run EXCEPT ![w] = q]
    BY DEF CheckFlag, Step
  <2>4. /\ q.row = run[w].row /\ q.todo = run[w].todo
        /\ q.at = "load"
    BY <2>1 DEF RunRecord, CheckFlag, Step
  <2> QED BY <2>2, <2>3, <2>4
<1>2. /\ run' \in [Workers -> RunRecord] /\ run'[w] = r
      /\ \A v \in Workers : v # w => run'[v] = run[v]
  BY <1>1, RunPut DEF IInv
<1>3. /\ UNCHANGED <<used, row, unsent, mailJobs, stalled, owner, cold, gone, flag, flips, doubled, shared, again>> /\ UNCHANGED <<faults, mails, unproved>>
  BY DEF CheckFlag, Step, Fault, queueVars, envVars, mailVars, overlapVars
<1>4. run[w].at = "gate" /\ Alive(w)
  BY DEF CheckFlag, Alive
<1>5. \A v \in Workers, c \in Recipients : InFlight(v, c)' <=> InFlight(v, c)
  BY <1>1, <1>2, <1>4 DEF InFlight
<1>10. TypeOK'
  BY <1>1, <1>2, <1>3, <1>4, <1>5 DEF IInv, TypeOK
<1>11. RowsFormed'
  BY <1>1, <1>2, <1>3, <1>4, <1>5 DEF IInv, RowsFormed, RunsFormed, Alive, Total
<1>12. RunsFormed'
  BY <1>1, <1>2, <1>3, <1>4, <1>5 DEF IInv, RowsFormed, RunsFormed, Alive
<1>13. ListsCover'
  BY <1>1, <1>2, <1>3, <1>4, <1>5 DEF IInv, RowsFormed, RunsFormed, Alive, ListsCover
<1>14. NobodyForgotten'
  BY <1>1, <1>2, <1>3, <1>4, <1>5 DEF IInv, RowsFormed, RunsFormed, Alive, ListsCover, NobodyForgotten, Ended
<1>15. DeliveredWasSent'
  BY <1>1, <1>2, <1>3, <1>4, <1>5 DEF IInv, RunsFormed, Alive, DeliveredWasSent, InFlight
<1>16. OneRun'
  BY <1>1, <1>2, <1>3, <1>4, <1>5 DEF IInv, RunsFormed, OneRun, Alive
<1>17. Exact'
  BY <1>1, <1>2, <1>3, <1>4, <1>5 DEF IInv, RowsFormed, RunsFormed, OneRun, Exact, Alive, InFlight
<1>18. NobodyMailedTwice'
  BY <1>1, <1>2, <1>3, <1>4, <1>5 DEF IInv, NobodyMailedTwice, Repeated, TypeOK
<1>19. Lines'
  <2>1. \A m \in Rows : StillMailing(m)' => StillMailing(m)
    BY <1>1, <1>2, <1>3 DEF StillMailing
  <2>2. \A v \in Workers, c \in Recipients : InFlight(v, c) => InFlight(v, c)' \/ c \in unproved'
    BY <1>5 DEF IInv
  <2> QED BY <1>3, <2>1, <2>2, LinesStay
<1> QED BY <1>10, <1>11, <1>12, <1>13, <1>14, <1>15, <1>16, <1>17, <1>18, <1>19 DEF IInv

(* The flag sends a run on or ends it. *)
LEMMA CheckFlagKeeps == ASSUME IInv, NEW w \in Workers, CheckFlag(w) PROVE IInv'
<1>1. CASE flag
  BY <1>1, PassFlagKeeps
<1>2. CASE ~flag
  BY <1>2, EndKeeps DEF CheckFlag, Alive, InFlight, envVars, mailVars, overlapVars, IInv, TypeOK
<1> QED BY <1>1, <1>2

(* An error ends a run that has no mail in flight. *)
LEMMA ProcessorThrowsKeeps == ASSUME IInv, NEW w \in Workers, ProcessorThrows(w) PROVE IInv'
BY EndKeeps, Faults DEF ProcessorThrows, Alive, InFlight, mailVars, overlapVars, IInv

(* The delivered outcome could not be recorded and becomes a failure. *)
LEMMA RecordAgainKeeps ==
  ASSUME IInv, NEW w \in Workers, RecordThrows(w), run[w].outcome = "delivered"
  PROVE  IInv'
<1>1. PICK r \in RunRecord :
        /\ run' = [run EXCEPT ![w] = r]
        /\ r.row = run[w].row /\ r.todo = run[w].todo
        /\ r.at = run[w].at /\ r.who = run[w].who /\ r.outcome = "failed"
  <2> DEFINE q == [run[w] EXCEPT !.outcome = "failed"]
  <2>1. run[w] \in RunRecord
    BY DEF IInv, TypeOK
  <2>2. q \in RunRecord
    BY <2>1, BoundsAssumption DEF RunRecord, AfterOne, NoRun
  <2>3. run' = [run EXCEPT ![w] = q]
    BY DEF RecordThrows
  <2>4. /\ q.row = run[w].row /\ q.todo = run[w].todo
        /\ q.at = run[w].at /\ q.who = run[w].who /\ q.outcome = "failed"
    BY <2>1 DEF RunRecord, RecordThrows
  <2> QED BY <2>2, <2>3, <2>4
<1>2. /\ run' \in [Workers -> RunRecord] /\ run'[w] = r
      /\ \A v \in Workers : v # w => run'[v] = run[v]
  BY <1>1, RunPut DEF IInv
<1>3. /\ UNCHANGED <<used, row, unsent, mailJobs, stalled, owner, cold, gone, flag, flips, doubled, shared, again>>
      /\ mails' = mails /\ unproved' = unproved \cup {run[w].who}
  BY DEF RecordThrows, Fault, queueVars, envVars, mailVars, overlapVars
<1>4. /\ run[w].at = "record" /\ Alive(w) /\ faults' \in Nat
      /\ run[w].who \in run[w].todo /\ run[w].todo \subseteq Recipients
  BY Faults, Fields DEF RecordThrows, Alive, IInv, RunsFormed
<1>5. \A v \in Workers, c \in Recipients : v # w => (InFlight(v, c)' <=> InFlight(v, c))
  BY <1>1, <1>2, <1>4 DEF InFlight
<1>10. TypeOK'
  BY <1>1, <1>2, <1>3, <1>4, <1>5 DEF IInv, TypeOK
<1>11. RowsFormed'
  BY <1>1, <1>2, <1>3, <1>4, <1>5 DEF IInv, RowsFormed, RunsFormed, Alive, Total
<1>12. RunsFormed'
  BY <1>1, <1>2, <1>3, <1>4, <1>5 DEF IInv, RowsFormed, RunsFormed, Alive
<1>13. ListsCover'
  BY <1>1, <1>2, <1>3, <1>4, <1>5 DEF IInv, RowsFormed, RunsFormed, Alive, ListsCover
<1>14. NobodyForgotten'
  BY <1>1, <1>2, <1>3, <1>4, <1>5 DEF IInv, RowsFormed, RunsFormed, Alive, ListsCover, NobodyForgotten, Ended
<1>15. DeliveredWasSent'
  BY <1>1, <1>2, <1>3, <1>4, <1>5 DEF IInv, RunsFormed, Alive, DeliveredWasSent, InFlight
<1>16. OneRun'
  BY <1>1, <1>2, <1>3, <1>4, <1>5 DEF IInv, RunsFormed, OneRun, Alive
<1>17. Exact'
  BY <1>1, <1>2, <1>3, <1>4, <1>5 DEF IInv, RowsFormed, RunsFormed, OneRun, Exact, Alive, InFlight
<1>18. NobodyMailedTwice'
  BY <1>1, <1>2, <1>3, <1>4, <1>5 DEF IInv, NobodyMailedTwice, Repeated, TypeOK
<1>19. Lines'
  <2>1. \A m \in Rows : StillMailing(m)' => StillMailing(m)
    BY <1>1, <1>2, <1>3 DEF StillMailing
  <2>2. \A v \in Workers, c \in Recipients : InFlight(v, c) => InFlight(v, c)' \/ c \in unproved'
    BY <1>1, <1>2, <1>3, <1>4 DEF InFlight
  <2> QED BY <1>3, <2>1, <2>2, LinesStay
<1> QED BY <1>10, <1>11, <1>12, <1>13, <1>14, <1>15, <1>16, <1>17, <1>18, <1>19 DEF IInv

(* An error while recording leads to a failure or ends the run. *)
LEMMA RecordThrowsKeeps == ASSUME IInv, NEW w \in Workers, RecordThrows(w) PROVE IInv'
<1>1. CASE run[w].outcome = "delivered"
  BY <1>1, RecordAgainKeeps
<1>2. CASE run[w].outcome # "delivered"
  BY <1>2, EndKeeps, Faults DEF RecordThrows, Alive, InFlight, IInv, overlapVars
<1> QED BY <1>1, <1>2

(* A row is loaded and its list is made. *)
LEMMA StartRowKeeps ==
  ASSUME IInv, NEW w \in Workers, LoadRow(w), row[run[w].row].status \notin Ended
  PROVE  IInv'
<1>0. run[w].at = "load" /\ Alive(w) /\ run[w].row \in 1..used /\ run[w].row \in Rows
  BY Numbers DEF LoadRow, Alive, IInv, RunsFormed
<1>1. PICK r \in RunRecord :
        /\ run' = [run EXCEPT ![w] = r]
        /\ r.row = run[w].row /\ r.todo = row[r.row].ids \ (row[r.row].delivered \cup row[r.row].failed)
        /\ r.at = IF r.todo = {} THEN "close" ELSE "fetch"
  <2> DEFINE q == [run[w] EXCEPT !.todo = Unhandled(run[w].row), !.at = IF Unhandled(run[w].row) = {} THEN "close" ELSE "fetch"]
  <2>1. run[w] \in RunRecord
    BY DEF IInv, TypeOK
  <2>2. q \in RunRecord
    BY <1>0, <2>1, Fields DEF RunRecord, Unhandled, IInv
  <2>3. run' = [run EXCEPT ![w] = q]
    BY DEF LoadRow, Unhandled
  <2>4. /\ q.row = run[w].row /\ q.todo = row[q.row].ids \ (row[q.row].delivered \cup row[q.row].failed)
        /\ q.at = IF q.todo = {} THEN "close" ELSE "fetch"
    BY <1>0, <2>1 DEF RunRecord, LoadRow, Unhandled
  <2> QED BY <2>2, <2>3, <2>4
<1>2. /\ run' \in [Workers -> RunRecord] /\ run'[w] = r
      /\ \A v \in Workers : v # w => run'[v] = run[v]
  BY <1>1, RunPut DEF IInv
<1>3. /\ UNCHANGED <<used, unsent, mailJobs, stalled, owner, gone, flag, flips, faults, mails, unproved, doubled, shared, again>>
      /\ cold' = cold \ {run[w].row}
  BY DEF LoadRow, Unhandled, Fault, queueVars, envVars, mailVars, overlapVars
<1>5. PICK x \in RowRecord :
        /\ row' = [row EXCEPT ![run[w].row] = x]
        /\ x.ids = row[run[w].row].ids /\ x.delivered = row[run[w].row].delivered
        /\ x.failed = row[run[w].row].failed /\ x.count = row[run[w].row].count
        /\ x.parent = row[run[w].row].parent /\ x.status = "processing"
  <2> DEFINE q == [row[run[w].row] EXCEPT !.status = "processing"]
  <2>1. row[run[w].row] \in RowRecord
    BY <1>0 DEF IInv, TypeOK
  <2>2. q \in RowRecord /\ row' = [row EXCEPT ![run[w].row] = q]
    BY <2>1 DEF LoadRow, RowRecord, RowStatus
  <2> QED BY <2>1, <2>2 DEF RowRecord
<1>6. /\ row' \in [Rows -> RowRecord]
      /\ \A m \in Rows : /\ row'[m].ids = row[m].ids /\ row'[m].delivered = row[m].delivered
                         /\ row'[m].failed = row[m].failed /\ row'[m].count = row[m].count
                         /\ row'[m].parent = row[m].parent
                         /\ row'[m].status \in {row[m].status, "processing"}
      /\ \A m \in Rows : m > used => row'[m] = row[m]
  BY <1>0, <1>5, RowPut DEF IInv, TypeOK, Rows
<1>7. \A v \in Workers : \A c : InFlight(v, c)' <=> InFlight(v, c)
  BY <1>1, <1>2, <1>0 DEF InFlight
<1>8. used \in Nat /\ \A v \in Workers : Alive(v) => run[v].row \in Rows /\ run[v].row \in 1..used
  BY BoundsAssumption DEF IInv, RunsFormed, TypeOK, Rows
<1>10. TypeOK'
  BY <1>2, <1>3, <1>6 DEF IInv, TypeOK
<1>11. RowsFormed'
  BY <1>3, <1>6 DEF IInv, RowsFormed, Total
<1>12. RunsFormed'
  BY <1>0, <1>1, <1>2, <1>3, <1>6, <1>8, Numbers DEF IInv, RowsFormed, RunsFormed, Alive
<1>13. ListsCover'
  BY <1>0, <1>1, <1>2, <1>3, <1>6, <1>8, Numbers DEF IInv, RowsFormed, RunsFormed, Alive, ListsCover
<1>14. NobodyForgotten'
  BY <1>0, <1>1, <1>2, <1>3, <1>6, <1>8, Numbers DEF IInv, RowsFormed, RunsFormed, Alive, ListsCover, NobodyForgotten, Ended
<1>15. DeliveredWasSent'
  BY <1>3, <1>6, <1>7 DEF IInv, DeliveredWasSent
<1>16. OneRun'
  BY <1>0, <1>1, <1>2, <1>3, <1>6, Numbers DEF IInv, OneRun, Alive
<1>17. Exact'
  BY <1>1, <1>2, <1>3, <1>0, <1>6, <1>7, <1>8, Numbers DEF IInv, OneRun, Exact, Alive
<1>18. NobodyMailedTwice'
  BY <1>0, <1>1, <1>2, <1>3, <1>6, <1>8, Numbers DEF IInv, NobodyMailedTwice, Repeated, TypeOK
<1>19. Lines'
  <2>1. \A m \in Rows : StillMailing(m)' => StillMailing(m)
    BY <1>1, <1>2, <1>3 DEF StillMailing
  <2>2. \A v \in Workers, c \in Recipients : InFlight(v, c) => InFlight(v, c)' \/ c \in unproved'
    BY <1>7 DEF IInv
  <2> QED BY <1>3, <1>6, <2>1, <2>2, LinesStay
<1> QED BY <1>10, <1>11, <1>12, <1>13, <1>14, <1>15, <1>16, <1>17, <1>18, <1>19 DEF IInv

(* A row that has ended ends the run, any other one is worked on. *)
LEMMA LoadRowKeeps == ASSUME IInv, NEW w \in Workers, LoadRow(w) PROVE IInv'
<1>1. CASE row[run[w].row].status \in Ended
  BY <1>1, EndKeeps DEF LoadRow, Alive, InFlight, envVars, mailVars, overlapVars, IInv, TypeOK
<1>2. CASE row[run[w].row].status \notin Ended
  BY <1>2, StartRowKeeps
<1> QED BY <1>1, <1>2

(* The row ends with its run, whose list is empty. *)
LEMMA FinaliseJobKeeps == ASSUME IInv, NEW w \in Workers, FinaliseJob(w) PROVE IInv'
<1>0. /\ run[w].at = "close" /\ Alive(w) /\ run[w].row \in 1..used /\ run[w].row \in Rows
      /\ run[w].todo = {}
  BY Numbers DEF FinaliseJob, Alive, IInv, RunsFormed
<1>1. /\ run' = [run EXCEPT ![w] = NoRun] /\ NoRun \in RunRecord /\ NoRun.at = "idle"
      /\ UNCHANGED <<used, gone, flag, flips, faults, mails, unproved, doubled, shared, again, unsent, stalled>>
      /\ cold' = cold \ {run[w].row}
  BY BoundsAssumption DEF FinaliseJob, EndRun, NoRun, RunRecord, envVars, mailVars, overlapVars
<1>2. /\ run' \in [Workers -> RunRecord] /\ run'[w] = NoRun
      /\ \A v \in Workers : v # w => run'[v] = run[v]
  BY <1>1, RunPut DEF IInv
<1>3. /\ mailJobs' \in [Rows -> JobState] /\ owner' \in [Rows -> Workers \cup {Idle}]
      /\ \A n \in Rows : n # run[w].row => mailJobs'[n] = mailJobs[n]
      /\ \A n \in Rows : mailJobs'[n] \in {"waiting", "active"} => mailJobs[n] \in {"waiting", "active"}
  BY <1>0 DEF FinaliseJob, EndRun, Move, JobState, IInv, TypeOK
<1>4. PICK x \in RowRecord :
        /\ row' = [row EXCEPT ![run[w].row] = x]
        /\ x.ids = row[run[w].row].ids /\ x.delivered = row[run[w].row].delivered
        /\ x.failed = row[run[w].row].failed /\ x.count = row[run[w].row].count
        /\ x.parent = row[run[w].row].parent /\ x.status = Outcome(run[w].row)
  <2> DEFINE q == [row[run[w].row] EXCEPT !.status = Outcome(run[w].row)]
  <2>1. row[run[w].row] \in RowRecord
    BY <1>0 DEF IInv, TypeOK
  <2>2. q \in RowRecord /\ row' = [row EXCEPT ![run[w].row] = q]
    BY <2>1 DEF FinaliseJob, Outcome, RowRecord, RowStatus
  <2> QED BY <2>1, <2>2 DEF RowRecord
<1>5. /\ row' \in [Rows -> RowRecord]
      /\ \A m \in Rows : /\ row'[m].ids = row[m].ids /\ row'[m].delivered = row[m].delivered
                         /\ row'[m].failed = row[m].failed /\ row'[m].count = row[m].count
                         /\ row'[m].parent = row[m].parent
                         /\ m # run[w].row => row'[m] = row[m]
      /\ row'[run[w].row].status = Outcome(run[w].row)
  BY <1>0, <1>4, RowPut DEF IInv
<1>6. \A v \in Workers : \A c : InFlight(v, c)' <=> InFlight(v, c)
  BY <1>0, <1>1, <1>2 DEF InFlight
<1>7. \A v \in Workers : Alive(v) => run[v].row \in Rows /\ run[v].row \in 1..used
  BY Numbers DEF IInv, RunsFormed
<1>10. TypeOK'
  BY <1>1, <1>2, <1>3, <1>5 DEF IInv, TypeOK
<1>11. RowsFormed'
  BY <1>0, <1>1, <1>3, <1>5, Numbers DEF IInv, RowsFormed, Total, Outcome
<1>12. RunsFormed'
  BY <1>0, <1>1, <1>2, <1>3, <1>5, <1>7, Numbers DEF IInv, RowsFormed, RunsFormed, Alive
<1>13. ListsCover'
  BY <1>0, <1>1, <1>2, <1>3, <1>5, <1>7, Numbers DEF IInv, RowsFormed, RunsFormed, Alive, ListsCover
<1>14. NobodyForgotten'
  BY <1>0, <1>1, <1>5, Numbers DEF IInv, ListsCover, NobodyForgotten, Ended
<1>15. DeliveredWasSent'
  BY <1>1, <1>5, <1>6 DEF IInv, DeliveredWasSent
<1>16. OneRun'
  BY <1>0, <1>1, <1>2, <1>3, <1>5, <1>7, Numbers DEF IInv, RunsFormed, OneRun, Alive
<1>17. Exact'
  BY <1>0, <1>1, <1>2, <1>5, <1>6, <1>7, Numbers DEF IInv, OneRun, Exact, Alive
<1>18. NobodyMailedTwice'
  BY <1>0, <1>1, <1>2, <1>3, <1>5, <1>7, Numbers DEF IInv, NobodyMailedTwice, Repeated, TypeOK
<1>19. Lines'
  <2>1. \A m \in Rows : StillMailing(m)' => StillMailing(m)
    BY <1>1, <1>2, <1>3, Numbers DEF StillMailing, NoRun, IInv
  <2>2. \A v \in Workers, c \in Recipients : InFlight(v, c) => InFlight(v, c)' \/ c \in unproved'
    BY <1>6 DEF IInv
  <2> QED BY <1>1, <1>5, <2>1, <2>2, LinesStay
<1> QED BY <1>10, <1>11, <1>12, <1>13, <1>14, <1>15, <1>16, <1>17, <1>18, <1>19 DEF IInv

(* An outcome is recorded: the recipient leaves the list and enters the row. *)
LEMMA RecordOutcomeKeeps ==
  ASSUME IInv, NEW w \in Workers, RecordOutcome(w)
  PROVE  IInv'
<1>0. /\ run[w].at = "record" /\ Alive(w) /\ run[w].row \in 1..used /\ run[w].row \in Rows
      /\ run[w].who \in run[w].todo /\ run[w].todo \subseteq row[run[w].row].ids
      /\ run[w].who \in Recipients
  BY Numbers, Fields DEF RecordOutcome, Alive, IInv, RunsFormed
<1>1. PICK r \in RunRecord :
        /\ run' = [run EXCEPT ![w] = r]
        /\ r.row = run[w].row /\ r.todo = run[w].todo \ {run[w].who}
        /\ r.at = AfterOne(r.todo) /\ r.outcome = "none"
  <2> DEFINE q == [run[w] EXCEPT !.todo = @ \ {run[w].who}, !.who = Nobody, !.outcome = "none", !.at = AfterOne(run[w].todo \ {run[w].who})]
  <2>1. run[w] \in RunRecord
    BY DEF IInv, TypeOK
  <2>2. q \in RunRecord
    BY <2>1, BoundsAssumption DEF RunRecord, AfterOne, NoRun
  <2>3. run' = [run EXCEPT ![w] = q]
    BY DEF RecordOutcome
  <2>4. /\ q.row = run[w].row /\ q.todo = run[w].todo \ {run[w].who}
        /\ q.at = AfterOne(q.todo) /\ q.outcome = "none"
    BY <1>0, <2>1 DEF RunRecord, RecordOutcome
  <2> QED BY <2>2, <2>3, <2>4
<1>2. /\ run' \in [Workers -> RunRecord] /\ run'[w] = r
      /\ \A v \in Workers : v # w => run'[v] = run[v]
  BY <1>1, RunPut DEF IInv
<1>3. /\ UNCHANGED <<used, unsent, mailJobs, stalled, owner, gone, flag, flips, faults, mails, unproved, doubled, shared, again>>
      /\ cold' = cold \ {run[w].row}
  BY DEF RecordOutcome, Fault, queueVars, envVars, mailVars, overlapVars
<1>4. r.at \in {"send", "close"} /\ (r.at = "close" <=> r.todo = {})
  BY <1>1 DEF AfterOne
<1>5. PICK x \in RowRecord :
        /\ row' = [row EXCEPT ![run[w].row] = x]
        /\ x.ids = row[run[w].row].ids /\ x.status = row[run[w].row].status
        /\ x.parent = row[run[w].row].parent
        /\ run[w].outcome = "delivered" =>
             /\ x.delivered = row[run[w].row].delivered \cup {run[w].who}
             /\ x.count = row[run[w].row].count + 1 /\ x.failed = row[run[w].row].failed
        /\ run[w].outcome # "delivered" =>
             /\ x.failed = row[run[w].row].failed \cup {run[w].who}
             /\ x.count = row[run[w].row].count /\ x.delivered = row[run[w].row].delivered
  <2>1. row[run[w].row] \in RowRecord
    BY <1>0 DEF IInv, TypeOK
  <2>2. CASE run[w].outcome = "delivered"
    <3> DEFINE q == [row[run[w].row] EXCEPT !.delivered = @ \cup {run[w].who}, !.count = @ + 1]
    <3>1. q \in RowRecord /\ row' = [row EXCEPT ![run[w].row] = q]
      <4>1. q \in RowRecord
        <5>1. /\ row[run[w].row].delivered \cup {run[w].who} \in SUBSET Recipients
              /\ row[run[w].row].count + 1 \in Nat
          BY <1>0, Fields DEF IInv
        <5> QED BY <2>1, <5>1 DEF RowRecord
      <4>2. row' = [row EXCEPT ![run[w].row] = q]
        BY <2>2 DEF RecordOutcome, Noted
      <4> QED BY <4>1, <4>2
    <3> QED BY <2>1, <2>2, <3>1 DEF RowRecord
  <2>3. CASE run[w].outcome # "delivered"
    <3> DEFINE q == [row[run[w].row] EXCEPT !.failed = @ \cup {run[w].who}]
    <3>1. q \in RowRecord /\ row' = [row EXCEPT ![run[w].row] = q]
      BY <1>0, <2>1, <2>3 DEF RecordOutcome, Noted, RowRecord
    <3> QED BY <2>1, <2>3, <3>1 DEF RowRecord
  <2> QED BY <2>2, <2>3
<1>6. /\ row' \in [Rows -> RowRecord] /\ row'[run[w].row] = x
      /\ \A m \in Rows : m # run[w].row => row'[m] = row[m]
  BY <1>0, <1>5, RowPut DEF IInv
<1>7. /\ \A v \in Workers : v # w => \A c : (InFlight(v, c)' <=> InFlight(v, c))
      /\ \A c : ~InFlight(w, c)'
      /\ \A c : InFlight(w, c) <=> run[w].outcome = "delivered" /\ c = run[w].who
  BY <1>0, <1>1, <1>2, <1>4 DEF InFlight
<1>8. \A v \in Workers : Alive(v) => run[v].row \in Rows /\ run[v].row \in 1..used
  BY Numbers DEF IInv, RunsFormed
<1>9. x.delivered \subseteq x.ids /\ x.failed \subseteq x.ids
  BY <1>0, <1>5 DEF IInv, RowsFormed
<1>10. TypeOK'
  BY <1>2, <1>3, <1>6 DEF IInv, TypeOK
<1>11. RowsFormed'
  BY <1>0, <1>3, <1>5, <1>6, <1>9, SmallSets, Fields, Numbers DEF IInv, RowsFormed, Total
<1>12. RunsFormed'
  BY <1>0, <1>1, <1>2, <1>3, <1>4, <1>5, <1>6, <1>8, <1>9, Numbers DEF IInv, RowsFormed, RunsFormed, Alive
<1>13. ListsCover'
  BY <1>0, <1>1, <1>2, <1>3, <1>4, <1>5, <1>6, <1>8, <1>9, Numbers DEF IInv, RowsFormed, RunsFormed, Alive, ListsCover
<1>14. NobodyForgotten'
  BY <1>0, <1>1, <1>2, <1>3, <1>4, <1>5, <1>6, <1>8, <1>9, Numbers DEF IInv, RowsFormed, RunsFormed, Alive, ListsCover, NobodyForgotten, Ended
<1>15. DeliveredWasSent'
  BY <1>0, <1>3, <1>5, <1>6, <1>7 DEF IInv, DeliveredWasSent
<1>16. OneRun'
  BY <1>0, <1>1, <1>2, <1>3, <1>4, <1>5, <1>6, <1>8, <1>9, Numbers DEF IInv, RunsFormed, OneRun, Alive
<1>17. Exact'
  <2> DEFINE k == run[w].row
  <2>1. k \notin doubled => x.count = Cardinality(x.delivered)
    <3> SUFFICES ASSUME k \notin doubled PROVE x.count = Cardinality(x.delivered)
      OBVIOUS
    <3>1. /\ row[k].count = Cardinality(row[k].delivered) /\ IsFiniteSet(row[k].delivered)
          /\ run[w].who \notin row[k].delivered
      BY <1>0, SmallSets, Fields DEF IInv, Exact
    <3> QED BY <1>5, <3>1, FS_AddElement
  <2>2. \A n \in Rows \ doubled : row'[n].count = Cardinality(row'[n].delivered)
    BY <1>0, <1>6, <2>1 DEF IInv, Exact
  <2>3. k \notin doubled => run'[w].todo \cap (row'[k].delivered \cup row'[k].failed) = {}
    BY <1>0, <1>1, <1>2, <1>5, <1>6 DEF IInv, Exact
  <2>4. run'[w].row = k
    BY <1>1, <1>2
  <2>5. ASSUME NEW v \in Workers, v # w, Alive(v)', run'[v].row \notin doubled'
        PROVE  run'[v].todo \cap (row'[run'[v].row].delivered \cup row'[run'[v].row].failed) = {}
    <3>1. Alive(v) /\ run'[v] = run[v] /\ run[v].row \notin doubled
      BY <1>2, <1>3, <2>5 DEF Alive
    <3>2. run[v].row # k
      BY <1>0, <2>5, <3>1 DEF IInv, OneRun
    <3> QED BY <1>6, <1>8, <3>1, <3>2 DEF IInv, Exact
  <2> QED BY <1>3, <2>2, <2>3, <2>4, <2>5 DEF Exact
<1>18. NobodyMailedTwice'
  BY <1>0, <1>1, <1>2, <1>3, <1>4, <1>5, <1>6, <1>8, <1>9, Numbers DEF IInv, NobodyMailedTwice, Repeated, TypeOK
<1>19. Lines'
  <2> SUFFICES ASSUME NEW c \in Recipients, ~Repeated(c)' PROVE Line(c)'
    BY DEF Lines
  <2> DEFINE k == run[w].row
  <2>1. used \in Nat /\ \A n \in 1..used : n \in Rows
    BY Numbers DEF IInv
  <2>2. \A n \in Rows : /\ row'[n].ids = row[n].ids /\ row'[n].parent = row[n].parent
                        /\ row[n].delivered \subseteq row'[n].delivered
    BY <1>5, <1>6
  <2>3. ~Repeated(c) /\ Line(c)
    BY <1>3, <2>2 DEF Repeated, IInv, TypeOK, Lines
  <2>4. \A n \in 1..used : (WasResumed(n)' <=> WasResumed(n)) /\ Remaining(n)' \subseteq Remaining(n)
    BY <1>3, <2>1, <2>2 DEF WasResumed, Remaining
  <2>5. \A n \in Rows : StillMailing(n)' <=> StillMailing(n)
    BY <1>1, <1>2, <1>3 DEF StillMailing
  <2>6. \A n, m \in 1..used' : n < m /\ c \in row'[n].ids /\ c \in row'[m].ids => WasResumed(n)'
    BY <1>3, <2>1, <2>2, <2>3, <2>4 DEF Line
  <2>7. \A n \in 1..used' : WasResumed(n)' /\ c \in Remaining(n)' => ~StillMailing(n)'
    BY <1>3, <2>1, <2>3, <2>4, <2>5 DEF Line
  <2>8. ASSUME NEW n \in 1..used', c \in Remaining(n)', ~WasResumed(n)'
        PROVE  mails'[c] = 0 \/ c \in unproved' \/ \E v \in Workers : InFlight(v, c)'
    <3>1. /\ n \in 1..used /\ c \in Remaining(n) /\ ~WasResumed(n)
          /\ mails[c] = 0 \/ c \in unproved \/ \E v \in Workers : InFlight(v, c)
      BY <1>3, <2>3, <2>4, <2>8 DEF Line
    <3>2. CASE \E v \in Workers : v # w /\ InFlight(v, c)
      BY <1>7, <3>2
    <3>3. CASE InFlight(w, c)
      <4>1. c = run[w].who /\ run[w].outcome = "delivered" /\ c \in run[w].todo
        BY <1>0, <3>3 DEF InFlight
      <4>2. n = k
        BY <1>0, <2>3, <3>1, <4>1, OnTheList DEF Remaining
      <4>3. c \in row'[n].delivered
        BY <1>5, <1>6, <4>1, <4>2
      <4> QED BY <2>8, <4>3 DEF Remaining
    <3>4. CASE mails[c] = 0 \/ c \in unproved
      BY <1>3, <3>4
    <3> QED BY <3>1, <3>2, <3>3, <3>4
  <2> QED BY <2>6, <2>7, <2>8 DEF Line
<1> QED BY <1>10, <1>11, <1>12, <1>13, <1>14, <1>15, <1>16, <1>17, <1>18, <1>19 DEF IInv

(* The lock is lost: the job waits again or fails, the run dies or goes on. *)
LEMMA StallKeeps ==
  ASSUME IInv, NEW w \in Workers, NEW dies \in BOOLEAN, Stall(w, dies)
  PROVE  IInv'
<1>0. Alive(w) /\ run[w].row \in 1..used /\ run[w].row \in Rows
  BY Numbers DEF Stall, Alive, IInv, RunsFormed
<1>1. /\ UNCHANGED <<used, row, cold, gone, flag, flips, mails, doubled, shared, again, unsent>>
      /\ faults' \in Nat /\ stalled' = stalled \cup {run[w].row}
  BY Faults DEF Stall, envVars, overlapVars, IInv
<1>2. /\ run' \in [Workers -> RunRecord]
      /\ \A v \in Workers : run'[v] = run[v] \/ (v = w /\ dies /\ run'[v] = NoRun)
      /\ NoRun.at = "idle"
  <2>1. NoRun \in RunRecord
    BY BoundsAssumption DEF NoRun, RunRecord
  <2>2. CASE dies
    BY <2>1, <2>2, RunPut DEF Stall, NoRun, IInv
  <2>3. CASE ~dies
    BY <2>3 DEF Stall, NoRun, IInv, TypeOK
  <2> QED BY <2>2, <2>3
<1>3. /\ mailJobs' \in [Rows -> JobState] /\ owner' \in [Rows -> Workers \cup {Idle}]
      /\ \A n \in Rows : n # run[w].row => mailJobs'[n] = mailJobs[n]
  BY <1>0 DEF Stall, Move, JobState, IInv, TypeOK
<1>4. /\ unproved \subseteq unproved' /\ unproved' \subseteq Recipients
      /\ \A c \in Recipients : dies /\ InFlight(w, c) => c \in unproved'
  BY <1>0, Fields DEF Stall, InFlight, IInv, RunsFormed, TypeOK
<1>5. \A v \in Workers : \A c : InFlight(v, c)' => InFlight(v, c)
  BY <1>2 DEF InFlight
<1>7. \A v \in Workers : \A c \in Recipients : InFlight(v, c) => InFlight(v, c)' \/ c \in unproved'
  <2> SUFFICES ASSUME NEW v \in Workers, NEW c \in Recipients, InFlight(v, c), c \notin unproved'
               PROVE  InFlight(v, c)'
    OBVIOUS
  <2>1. run'[v] = run[v]
    BY <1>2, <1>4
  <2> QED BY <2>1 DEF InFlight
<1>6. \A v \in Workers : Alive(v)' => Alive(v) /\ run'[v] = run[v]
  BY <1>2 DEF Alive
<1>10. TypeOK'
  BY <1>0, <1>1, <1>2, <1>3, <1>4 DEF IInv, TypeOK
<1>11. RowsFormed'
  BY <1>0, <1>1, <1>2, <1>3, <1>4, <1>6, Numbers DEF IInv, RowsFormed, RunsFormed, Alive, Total
<1>12. RunsFormed'
  BY <1>1, <1>2, <1>6 DEF IInv, RunsFormed, Alive
<1>13. ListsCover'
  BY <1>0, <1>1, <1>2, <1>3, <1>4, <1>6, Numbers DEF IInv, RowsFormed, RunsFormed, Alive, ListsCover
<1>14. NobodyForgotten'
  BY <1>0, <1>1, <1>2, <1>3, <1>4, <1>6, Numbers DEF IInv, RowsFormed, RunsFormed, Alive, ListsCover, NobodyForgotten, Ended
<1>15. DeliveredWasSent'
  BY <1>1, <1>5 DEF IInv, DeliveredWasSent
<1>16. OneRun'
  BY <1>0, <1>1, <1>3, <1>6 DEF IInv, OneRun
<1>17. Exact'
  BY <1>1, <1>6 DEF IInv, Exact
<1>18. NobodyMailedTwice'
  BY <1>0, <1>1, <1>2, <1>3, <1>4, <1>6, Numbers DEF IInv, NobodyMailedTwice, Repeated, TypeOK
<1>19. Lines'
  <2>1. \A m \in Rows : StillMailing(m)' => StillMailing(m)
    BY <1>0, <1>1, <1>2, <1>3, Numbers DEF StillMailing, NoRun, IInv, RunsFormed, Alive
  <2>2. \A v \in Workers, c \in Recipients : InFlight(v, c) => InFlight(v, c)' \/ c \in unproved'
    BY <1>7 DEF IInv
  <2> QED BY <1>1, <1>4, <2>1, <2>2, LinesStay
<1> QED BY <1>10, <1>11, <1>12, <1>13, <1>14, <1>15, <1>16, <1>17, <1>18, <1>19 DEF IInv

(* The dispatch starts the line. *)
LEMMA DispatchKeeps ==
  ASSUME IInv, NEW ids \in SUBSET Recipients, DispatchBulkEmail(ids)
  PROVE  IInv'
<1>0. used = 0 /\ used' = 1 /\ 1 \in Rows /\ \A v \in Workers : ~Alive(v)
  BY BoundsAssumption DEF DispatchBulkEmail, IInv, RunsFormed, Rows
<1>1. /\ UNCHANGED <<mailJobs, stalled, owner, run, cold, gone, flag, flips, faults, mails, unproved, doubled, shared, again>>
      /\ unsent \subseteq unsent' /\ unsent' \subseteq unsent \cup {1}
  BY DEF DispatchBulkEmail, envVars, mailVars, overlapVars
<1>2. PICK x \in RowRecord :
        /\ row' = [row EXCEPT ![1] = x]
        /\ x.ids = ids /\ x.delivered = {} /\ x.failed = {} /\ x.count = 0 /\ x.parent = 0
        /\ x.status = IF ids = {} THEN "completed" ELSE "pending"
  <2> DEFINE q == [NoRow EXCEPT !.ids = ids, !.status = IF ids = {} THEN "completed" ELSE "pending"]
  <2>1. q \in RowRecord
    BY DEF RowRecord, RowStatus, NoRow
  <2>2. row' = [row EXCEPT ![1] = q]
    BY DEF DispatchBulkEmail
  <2>3. /\ q.ids = ids /\ q.delivered = {} /\ q.failed = {} /\ q.count = 0 /\ q.parent = 0
        /\ q.status = IF ids = {} THEN "completed" ELSE "pending"
    BY DEF NoRow
  <2> QED BY <2>1, <2>2, <2>3
<1>3. /\ row' \in [Rows -> RowRecord] /\ row'[1] = x
      /\ \A m \in Rows : m # 1 => row'[m] = row[m]
  BY <1>0, <1>2, RowPut DEF IInv
<1>4. \A m \in Rows : m > 0 /\ row[m] = NoRow /\ m \notin unsent /\ mailJobs[m] = "none"
  BY <1>0, Numbers DEF IInv, RowsFormed
<1>5. Cardinality({}) = 0 /\ NoRow.delivered = {} /\ NoRow.failed = {} /\ NoRow.count = 0
  BY FS_EmptySet DEF NoRow
<1>10. TypeOK'
  <2>1. used' \in 0..MaxRows /\ unsent' \subseteq Rows
    BY <1>0, <1>1, BoundsAssumption DEF IInv, TypeOK, Rows
  <2> QED BY <1>1, <1>3, <2>1 DEF IInv, TypeOK
<1>11. RowsFormed'
  <2> SUFFICES ASSUME NEW n \in Rows
               PROVE  /\ row'[n].delivered \subseteq row'[n].ids /\ row'[n].failed \subseteq row'[n].ids
                      /\ row'[n].status = "completed" => row'[n].count >= Cardinality(row'[n].ids)
                      /\ row'[n].parent < n
                      /\ n > 1 => row'[n] = NoRow /\ n \notin unsent' /\ mailJobs'[n] = "none"
    BY <1>0 DEF RowsFormed, Total
  <2>1. CASE n = 1
    BY <1>2, <1>3, <1>5, <2>1
  <2>2. CASE n # 1
    BY <1>1, <1>3, <1>4, <2>2 DEF IInv, RowsFormed, Total
  <2> QED BY <2>1, <2>2
<1>12. RunsFormed'
  BY <1>0, <1>1, <1>2, <1>3, <1>4 DEF IInv, RowsFormed, RunsFormed, Alive
<1>13. ListsCover'
  BY <1>0, <1>1, <1>2, <1>3, <1>4 DEF IInv, RowsFormed, RunsFormed, Alive, ListsCover
<1>14. NobodyForgotten'
  BY <1>0, <1>2, <1>3, Numbers DEF NobodyForgotten, Ended
<1>15. DeliveredWasSent'
  BY <1>0, <1>1, <1>2, <1>3, <1>4, <1>5 DEF IInv, DeliveredWasSent, InFlight
<1>16. OneRun'
  BY <1>0, <1>1, <1>4, Numbers DEF IInv, OneRun, Alive
<1>17. Exact'
  BY <1>0, <1>1, <1>2, <1>3, <1>4, <1>5 DEF IInv, DeliveredWasSent, Exact, Alive
<1>18. NobodyMailedTwice'
  BY <1>0, <1>1 DEF IInv, DeliveredWasSent, NobodyMailedTwice
<1>19. Lines'
  <2>1. \A n \in 1..used' : n = 1 /\ row'[n].ids = ids
    BY <1>0, <1>2, <1>3
  <2>2. \A c \in Recipients : mails'[c] = 0
    BY <1>0, <1>1 DEF IInv, DeliveredWasSent
  <2>3. ~WasResumed(1)'
    BY <1>0, <1>2, <1>3 DEF WasResumed
  <2> QED BY <1>0, <2>1, <2>2, <2>3 DEF Lines, Line
<1> QED BY <1>10, <1>11, <1>12, <1>13, <1>14, <1>15, <1>16, <1>17, <1>18, <1>19 DEF IInv

(* A child row takes over what its parent has not delivered. *)
LEMMA ResumeKeeps ==
  ASSUME IInv, NEW p \in Rows, ResumeBulkEmailJob(p)
  PROVE  IInv'
<1>0. /\ p \in 1..used /\ used' = used + 1 /\ used + 1 \in Rows /\ used \in Nat /\ used > 0
      /\ used + 1 # p /\ p \in Nat /\ used \in Rows
  BY BoundsAssumption DEF ResumeBulkEmailJob, IInv, TypeOK, Rows
<1>1. /\ UNCHANGED <<mailJobs, stalled, owner, run, cold, gone, flag, flips, faults, mails, unproved>>
      /\ unsent' = unsent \cup {used + 1} /\ doubled' = doubled
      /\ shared' = IF StillMailing(p) THEN shared \cup Remaining(p) ELSE shared
      /\ again' = IF WasResumed(p) THEN again \cup Remaining(p) ELSE again
  BY DEF ResumeBulkEmailJob, envVars, mailVars, overlapVars
<1>2. PICK x \in RowRecord :
        /\ row' = [row EXCEPT ![used + 1] = x]
        /\ x.ids = row[p].ids \ row[p].delivered /\ x.delivered = {} /\ x.failed = {}
        /\ x.count = 0 /\ x.status = "pending" /\ x.parent = p
  <2> DEFINE q == [NoRow EXCEPT !.status = "pending", !.ids = Remaining(p), !.parent = p]
  <2>1. Remaining(p) \in SUBSET Recipients
    BY Fields DEF Remaining, IInv
  <2>2. q \in RowRecord
    BY <1>0, <2>1 DEF RowRecord, RowStatus, NoRow
  <2>3. row' = [row EXCEPT ![used + 1] = q]
    BY DEF ResumeBulkEmailJob
  <2>4. /\ q.ids = row[p].ids \ row[p].delivered /\ q.delivered = {} /\ q.failed = {}
        /\ q.count = 0 /\ q.status = "pending" /\ q.parent = p
    BY DEF NoRow, Remaining
  <2> QED BY <2>2, <2>3, <2>4
<1>3. /\ row' \in [Rows -> RowRecord] /\ row'[used + 1] = x
      /\ \A m \in Rows : m # used + 1 => row'[m] = row[m]
  BY <1>0, <1>2, RowPut DEF IInv
<1>4. Cardinality({}) = 0
  BY FS_EmptySet
<1>5. \A v \in Workers : Alive(v) => run[v].row \in Rows /\ run[v].row \in 1..used /\ run[v].row # used + 1
  BY <1>0, Numbers DEF IInv, RunsFormed
<1>6. Remaining(p) \subseteq Recipients
  BY Fields DEF Remaining, IInv
<1>10. TypeOK'
  <2>1. used' \in 0..MaxRows /\ unsent' \subseteq Rows
    BY <1>0, <1>1, BoundsAssumption DEF IInv, TypeOK, Rows
  <2>2. shared' \subseteq Recipients /\ again' \subseteq Recipients
    BY <1>1, <1>6 DEF IInv, TypeOK
  <2> QED BY <1>1, <1>3, <2>1, <2>2 DEF IInv, TypeOK
<1>11. RowsFormed'
  BY <1>0, <1>1, <1>2, <1>3, <1>5, Numbers DEF IInv, RowsFormed, RunsFormed, Alive, Total
<1>12. RunsFormed'
  BY <1>0, <1>1, <1>2, <1>3, <1>5, Numbers DEF IInv, RowsFormed, RunsFormed, Alive
<1>13. ListsCover'
  BY <1>0, <1>1, <1>2, <1>3, <1>5, Numbers DEF IInv, RowsFormed, RunsFormed, Alive, ListsCover
<1>14. NobodyForgotten'
  BY <1>0, <1>1, <1>2, <1>3, <1>5, Numbers DEF IInv, RowsFormed, RunsFormed, Alive, ListsCover, NobodyForgotten, Ended
<1>15. DeliveredWasSent'
  BY <1>0, <1>1, <1>2, <1>3, <1>5, Numbers DEF IInv, RunsFormed, Alive, DeliveredWasSent, InFlight
<1>16. OneRun'
  BY <1>1 DEF IInv, OneRun, Alive
<1>17. Exact'
  <2>1. \A n \in Rows \ doubled' : row'[n].count = Cardinality(row'[n].delivered)
    BY <1>1, <1>2, <1>3, <1>4 DEF IInv, Exact
  <2> QED BY <1>1, <1>3, <1>5, <2>1 DEF IInv, Exact, Alive
<1>18. NobodyMailedTwice'
  <2>1. \A n \in Rows : row[n].ids \subseteq row'[n].ids
    BY <1>0, <1>3 DEF IInv, RowsFormed, NoRow
  <2>2. \A c \in Recipients : Repeated(c) => Repeated(c)'
    BY <1>1, <2>1 DEF Repeated, IInv, TypeOK
  <2> QED BY <1>1, <2>2 DEF IInv, NobodyMailedTwice
<1>19. Lines'
  <2> SUFFICES ASSUME NEW c \in Recipients, ~Repeated(c)' PROVE Line(c)'
    BY DEF Lines
  <2>1. \A n \in 1..used : n \in Rows /\ n # used + 1 /\ n > 0
    BY <1>0, Numbers DEF IInv
  <2>2. /\ ~Repeated(c) /\ Line(c)
        /\ c \in Remaining(p) => ~StillMailing(p) /\ ~WasResumed(p)
    <3>1. \A n \in Rows : row[n].ids \subseteq row'[n].ids
      BY <1>0, <1>3 DEF IInv, RowsFormed, NoRow
    <3>2. ~Repeated(c)
      BY <1>1, <3>1 DEF Repeated, IInv, TypeOK
    <3>3. Line(c)
      BY <3>2 DEF IInv, Lines
    <3>4. c \in Remaining(p) => ~StillMailing(p) /\ ~WasResumed(p)
      BY <1>1 DEF Repeated
    <3> QED BY <3>2, <3>3, <3>4
  <2>3. \A n \in 1..used : Remaining(n)' = Remaining(n) /\ row'[n] = row[n]
    BY <1>3, <2>1 DEF Remaining
  <2>4. \A n \in 1..used : WasResumed(n)' <=> (WasResumed(n) \/ n = p)
    BY <1>0, <1>2, <1>3, <2>1 DEF WasResumed
  <2> PICK k \in Rows : k = used + 1
    BY <1>0
  <2>5. ~WasResumed(k)' /\ Remaining(k)' = Remaining(p) /\ row'[k].ids = Remaining(p)
    <3>1. \A n \in 1..used : row'[n].parent # k
      <4> SUFFICES ASSUME NEW n \in 1..used PROVE row[n].parent # used + 1
        BY <2>3
      <4>1. row[n].parent < n /\ row[n].parent \in Nat /\ n <= used /\ n \in Nat
        BY <1>0, <2>1, Fields DEF IInv, RowsFormed
      <4> QED BY ONLY <1>0, <4>1
    <3>2. row'[k].parent # k
      BY <1>0, <1>2, <1>3
    <3>3. \A n \in 1..used' : n \in 1..used \/ n = k
      BY <1>0
    <3>4. ~WasResumed(k)'
      BY <3>1, <3>2, <3>3 DEF WasResumed
    <3>5. row'[k].ids = Remaining(p) /\ row'[k].delivered = {}
      BY <1>2, <1>3 DEF Remaining
    <3> QED BY <3>4, <3>5 DEF Remaining
  <2>6. \A n \in 1..used : StillMailing(n)' <=> StillMailing(n)
    BY <1>1, <2>1 DEF StillMailing
  <2>7. \A n \in 1..used' : n \in 1..used \/ n = k
    BY <1>0
  <2>8. ASSUME NEW n \in 1..used', NEW m \in 1..used', n < m, c \in row'[n].ids, c \in row'[m].ids
        PROVE  WasResumed(n)'
    <3>1. n \in 1..used
      BY <1>0, <2>8
    <3>2. CASE m \in 1..used
      BY <2>2, <2>3, <2>4, <2>8, <3>1, <3>2 DEF Line
    <3>3. CASE m = k
      <4>1. c \in Remaining(p) /\ c \in row[p].ids /\ c \in row[n].ids
        BY <2>3, <2>5, <2>8, <3>1, <3>3 DEF Remaining
      <4>2. n = p \/ n < p \/ p < n
        BY <1>0, <3>1
      <4>3. ~(p < n)
        BY <1>0, <2>2, <3>1, <4>1 DEF Line
      <4>4. n < p => WasResumed(n)
        BY <1>0, <2>2, <3>1, <4>1 DEF Line
      <4> QED BY <2>4, <3>1, <4>2, <4>3, <4>4
    <3> QED BY <2>7, <3>2, <3>3
  <2>9. ASSUME NEW n \in 1..used', WasResumed(n)', c \in Remaining(n)'
        PROVE  ~StillMailing(n)'
    <3>1. n \in 1..used /\ c \in Remaining(n) /\ (WasResumed(n) \/ n = p)
      BY <2>3, <2>4, <2>5, <2>7, <2>9
    <3>2. n = p => ~StillMailing(n)
      BY <2>2, <3>1
    <3>3. WasResumed(n) => ~StillMailing(n)
      BY <2>2, <3>1 DEF Line
    <3> QED BY <2>6, <3>1, <3>2, <3>3
  <2>10. ASSUME NEW n \in 1..used', c \in Remaining(n)', ~WasResumed(n)'
         PROVE  mails'[c] = 0 \/ c \in unproved' \/ \E v \in Workers : InFlight(v, c)'
    <3>1. \A v \in Workers : InFlight(v, c)' <=> InFlight(v, c)
      BY <1>1 DEF InFlight
    <3>2. CASE n \in 1..used
      <4>1. c \in Remaining(n) /\ ~WasResumed(n)
        BY <2>3, <2>4, <2>10, <3>2
      <4> QED BY <1>1, <2>2, <3>1, <3>2, <4>1 DEF Line
    <3>3. CASE n = k
      <4>1. c \in Remaining(p) /\ ~WasResumed(p)
        BY <2>2, <2>5, <2>10, <3>3
      <4> QED BY <1>0, <1>1, <2>2, <3>1, <4>1 DEF Line
    <3> QED BY <2>7, <3>2, <3>3
  <2> QED BY <2>8, <2>9, <2>10 DEF Line
<1> QED BY <1>10, <1>11, <1>12, <1>13, <1>14, <1>15, <1>16, <1>17, <1>18, <1>19 DEF IInv

(* An event becomes a job. *)
LEMMA RouteEventKeeps == ASSUME IInv, NEW n \in Rows, RouteEvent(n) PROVE IInv'
<1> USE DEF RouteEvent, Enqueue, queueVars, envVars, mailVars, overlapVars
<1>10. TypeOK'
  BY Numbers DEF IInv, TypeOK, Rows, JobState, RowRecord
<1>11. RowsFormed'
  BY Numbers DEF IInv, RowsFormed, RunsFormed, Alive, Total
<1>12. RunsFormed'
  BY Numbers DEF IInv, RowsFormed, RunsFormed, Alive
<1>13. ListsCover'
  BY Numbers DEF IInv, RowsFormed, RunsFormed, Alive, ListsCover
<1>14. NobodyForgotten'
  BY Numbers DEF IInv, RowsFormed, RunsFormed, Alive, ListsCover, NobodyForgotten, Ended
<1>15. DeliveredWasSent'
  BY Numbers DEF IInv, RunsFormed, Alive, DeliveredWasSent, InFlight
<1>16. OneRun'
  BY Numbers DEF IInv, RunsFormed, OneRun, Alive
<1>17. Exact'
  BY Numbers DEF IInv, RowsFormed, RunsFormed, OneRun, Exact, Alive, InFlight
<1>18. NobodyMailedTwice'
  BY Numbers DEF IInv, NobodyMailedTwice, Repeated, TypeOK
<1>19. Lines'
  <2>1. \A m \in Rows : StillMailing(m)' => StillMailing(m)
    BY DEF StillMailing
  <2>2. \A v \in Workers, c \in Recipients : InFlight(v, c)' <=> InFlight(v, c)
    BY DEF InFlight
  <2> QED BY <2>1, <2>2, LinesStay
<1> QED BY <1>10, <1>11, <1>12, <1>13, <1>14, <1>15, <1>16, <1>17, <1>18, <1>19 DEF IInv

(* Redis loses jobs and events. *)
LEMMA WipeRedisKeeps == ASSUME IInv, NEW lost \in SUBSET Rows, WipeRedis(lost) PROVE IInv'
<1> USE DEF WipeRedis, EmptyQueue, Fault, queueVars, envVars, mailVars, overlapVars
<1>10. TypeOK'
  BY Numbers DEF IInv, TypeOK, Rows, JobState, RowRecord
<1>11. RowsFormed'
  BY Numbers DEF IInv, RowsFormed, RunsFormed, Alive, Total
<1>12. RunsFormed'
  BY Numbers DEF IInv, RowsFormed, RunsFormed, Alive
<1>13. ListsCover'
  BY Numbers DEF IInv, RowsFormed, RunsFormed, Alive, ListsCover
<1>14. NobodyForgotten'
  BY Numbers DEF IInv, RowsFormed, RunsFormed, Alive, ListsCover, NobodyForgotten, Ended
<1>15. DeliveredWasSent'
  BY Numbers DEF IInv, RunsFormed, Alive, DeliveredWasSent, InFlight
<1>16. OneRun'
  BY Numbers DEF IInv, RunsFormed, OneRun, Alive
<1>17. Exact'
  BY Numbers DEF IInv, RowsFormed, RunsFormed, OneRun, Exact, Alive, InFlight
<1>18. NobodyMailedTwice'
  BY Numbers DEF IInv, NobodyMailedTwice, Repeated, TypeOK
<1>19. Lines'
  <2>1. \A m \in Rows : StillMailing(m)' => StillMailing(m)
    BY DEF StillMailing
  <2>2. \A v \in Workers, c \in Recipients : InFlight(v, c)' <=> InFlight(v, c)
    BY DEF InFlight
  <2> QED BY <2>1, <2>2, LinesStay
<1> QED BY <1>10, <1>11, <1>12, <1>13, <1>14, <1>15, <1>16, <1>17, <1>18, <1>19 DEF IInv

(* Ten minutes pass. *)
LEMMA GoesColdKeeps == ASSUME IInv, NEW n \in Rows, GoesCold(n) PROVE IInv'
<1> USE DEF GoesCold, Fault, queueVars, envVars, mailVars, overlapVars
<1>10. TypeOK'
  BY Numbers DEF IInv, TypeOK, Rows, JobState, RowRecord
<1>11. RowsFormed'
  BY Numbers DEF IInv, RowsFormed, RunsFormed, Alive, Total
<1>12. RunsFormed'
  BY Numbers DEF IInv, RowsFormed, RunsFormed, Alive
<1>13. ListsCover'
  BY Numbers DEF IInv, RowsFormed, RunsFormed, Alive, ListsCover
<1>14. NobodyForgotten'
  BY Numbers DEF IInv, RowsFormed, RunsFormed, Alive, ListsCover, NobodyForgotten, Ended
<1>15. DeliveredWasSent'
  BY Numbers DEF IInv, RunsFormed, Alive, DeliveredWasSent, InFlight
<1>16. OneRun'
  BY Numbers DEF IInv, RunsFormed, OneRun, Alive
<1>17. Exact'
  BY Numbers DEF IInv, RowsFormed, RunsFormed, OneRun, Exact, Alive, InFlight
<1>18. NobodyMailedTwice'
  BY Numbers DEF IInv, NobodyMailedTwice, Repeated, TypeOK
<1>19. Lines'
  <2>1. \A m \in Rows : StillMailing(m)' => StillMailing(m)
    BY DEF StillMailing
  <2>2. \A v \in Workers, c \in Recipients : InFlight(v, c)' <=> InFlight(v, c)
    BY DEF InFlight
  <2> QED BY <2>1, <2>2, LinesStay
<1> QED BY <1>10, <1>11, <1>12, <1>13, <1>14, <1>15, <1>16, <1>17, <1>18, <1>19 DEF IInv

(* A recipient is erased. *)
LEMMA EraseRecipientKeeps == ASSUME IInv, NEW c \in Recipients, EraseRecipient(c) PROVE IInv'
<1> USE DEF EraseRecipient, queueVars, envVars, mailVars, overlapVars
<1>10. TypeOK'
  BY Numbers DEF IInv, TypeOK, Rows, JobState, RowRecord
<1>11. RowsFormed'
  BY Numbers DEF IInv, RowsFormed, RunsFormed, Alive, Total
<1>12. RunsFormed'
  BY Numbers DEF IInv, RowsFormed, RunsFormed, Alive
<1>13. ListsCover'
  BY Numbers DEF IInv, RowsFormed, RunsFormed, Alive, ListsCover
<1>14. NobodyForgotten'
  BY Numbers DEF IInv, RowsFormed, RunsFormed, Alive, ListsCover, NobodyForgotten, Ended
<1>15. DeliveredWasSent'
  BY Numbers DEF IInv, RunsFormed, Alive, DeliveredWasSent, InFlight
<1>16. OneRun'
  BY Numbers DEF IInv, RunsFormed, OneRun, Alive
<1>17. Exact'
  BY Numbers DEF IInv, RowsFormed, RunsFormed, OneRun, Exact, Alive, InFlight
<1>18. NobodyMailedTwice'
  BY Numbers DEF IInv, NobodyMailedTwice, Repeated, TypeOK
<1>19. Lines'
  <2>1. \A m \in Rows : StillMailing(m)' => StillMailing(m)
    BY DEF StillMailing
  <2>2. \A v \in Workers, x \in Recipients : InFlight(v, x)' <=> InFlight(v, x)
    BY DEF InFlight
  <2> QED BY <2>1, <2>2, LinesStay
<1> QED BY <1>10, <1>11, <1>12, <1>13, <1>14, <1>15, <1>16, <1>17, <1>18, <1>19 DEF IInv

(* The flag changes. *)
LEMMA FlipFlagKeeps == ASSUME IInv, FlipFlag PROVE IInv'
<1> USE DEF FlipFlag, queueVars, envVars, mailVars, overlapVars
<1>10. TypeOK'
  BY Numbers DEF IInv, TypeOK, Rows, JobState, RowRecord
<1>11. RowsFormed'
  BY Numbers DEF IInv, RowsFormed, RunsFormed, Alive, Total
<1>12. RunsFormed'
  BY Numbers DEF IInv, RowsFormed, RunsFormed, Alive
<1>13. ListsCover'
  BY Numbers DEF IInv, RowsFormed, RunsFormed, Alive, ListsCover
<1>14. NobodyForgotten'
  BY Numbers DEF IInv, RowsFormed, RunsFormed, Alive, ListsCover, NobodyForgotten, Ended
<1>15. DeliveredWasSent'
  BY Numbers DEF IInv, RunsFormed, Alive, DeliveredWasSent, InFlight
<1>16. OneRun'
  BY Numbers DEF IInv, RunsFormed, OneRun, Alive
<1>17. Exact'
  BY Numbers DEF IInv, RowsFormed, RunsFormed, OneRun, Exact, Alive, InFlight
<1>18. NobodyMailedTwice'
  BY Numbers DEF IInv, NobodyMailedTwice, Repeated, TypeOK
<1>19. Lines'
  <2>1. \A m \in Rows : StillMailing(m)' => StillMailing(m)
    BY DEF StillMailing
  <2>2. \A v \in Workers, c \in Recipients : InFlight(v, c)' <=> InFlight(v, c)
    BY DEF InFlight
  <2> QED BY <2>1, <2>2, LinesStay
<1> QED BY <1>10, <1>11, <1>12, <1>13, <1>14, <1>15, <1>16, <1>17, <1>18, <1>19 DEF IInv

(* Every initial state satisfies the inductive invariant. *)
LEMMA InitIInv == Init => IInv
<1> SUFFICES ASSUME Init PROVE IInv
  OBVIOUS
<1>0. /\ NoRow \in RowRecord /\ NoRow.ids = {} /\ NoRow.delivered = {} /\ NoRow.failed = {}
      /\ NoRow.count = 0 /\ NoRow.status = "absent" /\ Cardinality({}) = 0
      /\ NoRow.parent = 0 /\ \A n \in Rows : n \in Nat /\ 0 < n
  BY BoundsAssumption, FS_EmptySet DEF NoRow, RowRecord, RowStatus, Rows
<1>1. TypeOK
  <2>1. /\ used \in 0..MaxRows /\ row \in [Rows -> RowRecord] /\ run \in [Workers -> RunRecord]
        /\ mailJobs \in [Rows -> JobState] /\ owner \in [Rows -> Workers \cup {Idle}]
    BY <1>0, NoRunType, BoundsAssumption DEF Init, EmptyQueue, JobState
  <2> QED BY <2>1 DEF Init, TypeOK
<1>2. RowsFormed /\ RunsFormed
  BY <1>0, NoRunType DEF Init, RowsFormed, RunsFormed, Alive, EmptyQueue
<1>3. ListsCover /\ NobodyForgotten /\ NobodyMailedTwice /\ Lines
  BY <1>0, NoRunType DEF Init, ListsCover, NobodyForgotten, NobodyMailedTwice, Lines, Line
<1>4. DeliveredWasSent
  BY <1>0, NoRunType DEF Init, DeliveredWasSent, InFlight
<1>5. OneRun /\ Exact
  <2>1. \A n \in Rows : row[n] = NoRow
    BY DEF Init
  <2>2. \A w \in Workers : run[w] = NoRun
    BY DEF Init
  <2> QED BY <1>0, <2>1, <2>2, NoRunType DEF OneRun, Exact, Alive
<1> QED BY <1>1, <1>2, <1>3, <1>4, <1>5 DEF IInv

(* Every step preserves it. *)
LEMMA NextIInv == IInv /\ [Next]_vars => IInv'
<1> SUFFICES ASSUME IInv, [Next]_vars PROVE IInv'
  OBVIOUS
<1>1. ASSUME NEW ids \in SUBSET Recipients, DispatchBulkEmail(ids) PROVE IInv'
  BY <1>1, DispatchKeeps
<1>2. ASSUME NEW n \in Rows, ResumeBulkEmailJob(n) \/ RouteEvent(n) \/ GoesCold(n) PROVE IInv'
  BY <1>2, ResumeKeeps, RouteEventKeeps, GoesColdKeeps
<1>3. ASSUME NEW lost \in SUBSET Rows, WipeRedis(lost) PROVE IInv'
  BY <1>3, WipeRedisKeeps
<1>4. ASSUME NEW w \in Workers, RunStep(w) PROVE IInv'
  BY <1>4, CheckFlagKeeps, LoadRowKeeps, FetchRecipientsKeeps, SendMailKeeps, MailRefusedKeeps,
     RecordOutcomeKeeps, FinaliseJobKeeps DEF RunStep
<1>5. ASSUME NEW w \in Workers, RunFails(w) PROVE IInv'
  BY <1>5, MailAmbiguousKeeps, RecordThrowsKeeps, ProcessorThrowsKeeps, StallKeeps DEF RunFails
<1>6. ASSUME NEW w \in Workers, NEW n \in Rows, TakeMailJob(w, n) PROVE IInv'
  BY <1>6, TakeMailJobKeeps
<1>7. ASSUME NEW c \in Recipients, EraseRecipient(c) PROVE IInv'
  BY <1>7, EraseRecipientKeeps
<1>8. CASE FlipFlag
  BY <1>8, FlipFlagKeeps
<1>9. CASE UNCHANGED vars
  <2> USE <1>9 DEF vars, queueVars, envVars, mailVars, overlapVars
  <2>1. TypeOK' /\ RowsFormed' /\ RunsFormed'
    BY DEF IInv, TypeOK, RowsFormed, RunsFormed, Alive, Total
  <2>2. ListsCover' /\ NobodyForgotten' /\ NobodyMailedTwice'
    BY DEF IInv, ListsCover, NobodyForgotten, NobodyMailedTwice, Repeated
  <2>3. DeliveredWasSent' /\ OneRun' /\ Exact'
    BY DEF IInv, DeliveredWasSent, OneRun, Exact, Alive, InFlight
  <2>4. Lines'
    BY LinesStay DEF IInv, StillMailing, InFlight
  <2> QED BY <2>1, <2>2, <2>3, <2>4 DEF IInv
<1> QED
  BY <1>1, <1>2, <1>3, <1>4, <1>5, <1>6, <1>7, <1>8, <1>9 DEF Next

(* The invariant holds in every reachable state. *)
LEMMA Inductive == Spec => []IInv
  BY InitIInv, NextIInv, PTL DEF Spec

(* Every reachable state of rows, queue and runs is well typed. *)
THEOREM TypeCorrect == Spec => []TypeOK
  BY Inductive, PTL DEF IInv

(* A row that has ended accounts for all of its recipients, whatever runs  *)
(* were cut short or overlapped (the work list of processSendBulkEmail).   *)
THEOREM EverybodyIsAccountedFor == Spec => []NobodyForgotten
  BY Inductive, PTL DEF IInv

(* Chains of resumes and re-runs do not mail twice (the difference         *)
(* resumeBulkEmailJob takes, the work list of processSendBulkEmail), but   *)
(* for the recipients that Repeated and unproved name.                     *)
THEOREM ResumesDoNotRepeat == Spec => []NobodyMailedTwice
  BY Inductive, PTL DEF IInv

(* Comparing the two counters in finaliseJob is enough for a row that no   *)
(* two runs worked on at once: completed, it has delivered to each of its  *)
(* recipients, whatever other rows, re-runs and resumes did meanwhile.     *)
THEOREM CompletionIsReal == Spec => []CompletedReachedAll
<1>1. IInv => CompletedReachedAll
  <2> SUFFICES ASSUME IInv, NEW n \in 1..used, row[n].status = "completed", n \notin doubled
               PROVE  \A c \in row[n].ids : c \in row[n].delivered /\ mails[c] > 0
    BY DEF CompletedReachedAll
  <2>1. /\ n \in Rows /\ row[n].ids \in SUBSET Recipients
        /\ row[n].delivered \in SUBSET row[n].ids
    BY Numbers, Fields DEF IInv, RowsFormed
  <2>2. row[n].count = Cardinality(row[n].delivered) /\ row[n].count >= Cardinality(row[n].ids)
    BY <2>1 DEF IInv, Exact, RowsFormed, Total
  <2>3. Cardinality(row[n].ids) \in Nat /\ Cardinality(row[n].delivered) <= Cardinality(row[n].ids)
    BY <2>1, SmallSets, FS_Subset
  <2>4. row[n].count \in Nat
    BY <2>1, Fields DEF IInv
  <2>5. Cardinality(row[n].ids) = Cardinality(row[n].delivered)
    BY <2>2, <2>3, <2>4
  <2>6. row[n].ids = row[n].delivered
    BY <2>1, <2>5, SmallSets, FS_Subset
  <2> QED BY <2>1, <2>6 DEF IInv, DeliveredWasSent
<1> QED BY <1>1, Inductive, PTL

=============================================================================
