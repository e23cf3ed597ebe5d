--------------------------- MODULE Approvals_proofs ---------------------------
(***************************************************************************)
(* Type correctness of the approvals, and their two safety properties, for *)
(* any number of requests, reviewers and faults: the log only grows at its *)
(* end, so that what a reader has seen stays where it was.                 *)
(***************************************************************************)
EXTENDS Approvals, TLAPS, SequenceTheorems

Resolved(i) == file[i] # Torn /\ file[i].kind = "resolved"

ReviewersStay ==
  \A v \in Reviewers :
    /\ pc[v] \in {"idle", "chosen", "found", "refused", "exit", "resolved"}
    /\ IF pc[v] = "idle" THEN listed[v] = 0 ELSE chosen[v] \in Tasks

\* Where the tail command stands.
Positions ==
  /\ last <= Len(file)
  /\ tail = "off" => start = 0 /\ last = 0
  /\ tail # "off" => start <= last
  /\ tail = "read" => last < current /\ current <= Len(file)

\* A reviewer past the search has a request in the log, and had not seen it resolved.
ReviewsAreFounded ==
  \A v \in Reviewers :
    /\ pc[v] \in {"found", "exit"} => chosen[v] \in Events("requested", 1)
    /\ pc[v] # "idle" =>
         /\ listed[v] <= Len(file)
         /\ \A i \in Visible(1) :
              i <= listed[v] => ~(file[i].kind = "resolved" /\ file[i].id = chosen[v])

\* The lines on their way, and those in the log, are of reviewers who have decided.
LinesAreOfReviewers ==
  /\ \A l \in writing : l.kind = "resolved" => pc[l.by] = "exit" /\ l.id = chosen[l.by]
  /\ \A j \in DOMAIN file : Resolved(j) => pc[file[j].by] \in {"exit", "resolved"}

Inv ==
  /\ TypeOK /\ ReviewersStay /\ Positions /\ TailMissesNothing
  /\ ReviewsAreFounded /\ LinesAreOfReviewers /\ ResolutionsAreFounded

-----------------------------------------------------------------------------
LEMMA LineTypes ==
  /\ Torn \notin Lines
  /\ \A l \in Lines : l # Torn /\ l.id \in Tasks
  /\ \A l \in Lines : l.kind = "resolved" => l.by \in Reviewers
  /\ \A l \in Lines : l.kind \in {"requested", "resolved"}
  /\ \A t \in Tasks : Line("requested", t, t) \in Lines
  /\ \A t \in Tasks : \A v \in Reviewers : Line("resolved", t, v) \in Lines
BY DEF Lines, Line, Torn

LEMMA Initially == Init => Inv
<1> SUFFICES ASSUME Init PROVE Inv
  OBVIOUS
<1>1. TypeOK
  BY ApprovalsAssumption DEF Init, TypeOK
<1>2. Visible(1) = {}
  BY DEF Init, Visible
<1> QED  BY <1>1, <1>2 DEF Init, Inv, ReviewersStay, Positions, TailMissesNothing,
       ReviewsAreFounded, LinesAreOfReviewers, ResolutionsAreFounded, Resolved

-----------------------------------------------------------------------------
\* Type correctness, action by action.
LEMMA TypeStep ==
  ASSUME TypeOK, ReviewersStay, [Next]_vars
  PROVE  TypeOK' /\ ReviewersStay'
<1> USE ApprovalsAssumption, LineTypes
<1>1. ASSUME NEW t \in Tasks, Execute(t) PROVE TypeOK' /\ ReviewersStay'
  BY <1>1 DEF Execute, TypeOK, ReviewersStay, sink, tails
<1>2. ASSUME NEW t \in Tasks, Lock(t) PROVE TypeOK' /\ ReviewersStay'
  BY <1>2 DEF Lock, TypeOK, ReviewersStay, tails
<1>3. ASSUME NEW t \in Tasks, Record(t) PROVE TypeOK' /\ ReviewersStay'
  BY <1>3 DEF Record, TypeOK, ReviewersStay, tails
<1>4. ASSUME NEW t \in Tasks, RecordFails(t) PROVE TypeOK' /\ ReviewersStay'
  BY <1>4 DEF RecordFails, TypeOK, ReviewersStay, tails
<1>5. ASSUME NEW l \in writing, Write(l) PROVE TypeOK' /\ ReviewersStay'
  <2>1. l \in Lines /\ Append(file, l) \in Seq(Lines \cup {Torn})
    BY <1>5, AppendProperties DEF TypeOK
  <2>2. Asked({l}) \subseteq Tasks
    BY <2>1 DEF Asked
  <2> QED  BY <1>5, <2>1, <2>2 DEF Write, TypeOK, ReviewersStay, tails
<1>6. ASSUME NEW l \in writing, WriteFails(l) PROVE TypeOK' /\ ReviewersStay'
  <2>1. l \in Lines /\ Append(file, Torn) \in Seq(Lines \cup {Torn})
    BY <1>6, AppendProperties DEF TypeOK
  <2>2. Asked({l}) \subseteq Tasks
    BY <2>1 DEF Asked
  <2>3. file' \in Seq(Lines \cup {Torn})
    BY <1>6, <2>1 DEF WriteFails, TypeOK
  <2>4. faults' \in 0..MaxFaults
    BY <1>6 DEF WriteFails, TypeOK
  <2> QED  BY <1>6, <2>1, <2>2, <2>3, <2>4 DEF WriteFails, TypeOK, ReviewersStay, tails
<1>7. ASSUME NEW v \in Reviewers, Choose(v) PROVE TypeOK' /\ ReviewersStay'
  <2>1. Len(file) \in Nat
    BY LenProperties DEF TypeOK
  <2>2. chosen' \in [Reviewers -> Tasks \cup {NoId}] /\ listed' \in [Reviewers -> Nat]
    BY <1>7, <2>1 DEF Choose, TypeOK
  <2> QED  BY <1>7, <2>2 DEF Choose, TypeOK, ReviewersStay, sink, tails
<1>8. ASSUME NEW v \in Reviewers, Find(v) PROVE TypeOK' /\ ReviewersStay'
  BY <1>8 DEF Find, TypeOK, ReviewersStay, sink, tails
<1>9. ASSUME NEW v \in Reviewers, Resolve(v) PROVE TypeOK' /\ ReviewersStay'
  BY <1>9 DEF Resolve, TypeOK, ReviewersStay, tails
<1>10. ASSUME NEW v \in Reviewers, Exit(v) PROVE TypeOK' /\ ReviewersStay'
  BY <1>10 DEF Exit, TypeOK, ReviewersStay, sink, tails
<1>11. CASE TailStart \/ TailStep
  <2>1. Len(file) \in Nat
    BY LenProperties DEF TypeOK
  <2>2. CASE TailStart
    BY <2>1, <2>2 DEF TailStart, TypeOK, ReviewersStay, sink
  <2>3. CASE TailStat
    BY <2>1, <2>3 DEF TailStat, TypeOK, ReviewersStay, sink
  <2>4. CASE TailRead
    <3>1. Events("requested", last + 1) \subseteq Tasks
      BY DEF Events, Visible, TypeOK
    <3> QED  BY <2>4, <3>1 DEF TailRead, TypeOK, ReviewersStay, sink
  <2>5. CASE TailReadFails
    BY <2>5 DEF TailReadFails, TypeOK, ReviewersStay, sink
  <2> QED  BY <1>11, <2>2, <2>3, <2>4, <2>5 DEF TailStep
<1>12. CASE Crash
  <2>1. lost' \subseteq Tasks /\ writing' \subseteq Lines
    BY <1>12 DEF Crash, TypeOK, Asked
  <2> QED  BY <1>12, <2>1 DEF Crash, TypeOK, ReviewersStay, tails
<1>13. CASE UNCHANGED vars
  BY <1>13 DEF vars, sink, tails, TypeOK, ReviewersStay
<1> QED  BY <1>1, <1>2, <1>3, <1>4, <1>5, <1>6, <1>7, <1>8, <1>9, <1>10, <1>11, <1>12, <1>13
       DEF Next, Task

-----------------------------------------------------------------------------
\* The log grows at its end: what could be read before is read after, and the rest
\* of the file is as it was.
LEMMA LogGrows ==
  ASSUME TypeOK
  PROVE  \A x \in Lines \cup {Torn} : file' = Append(file, x) =>
           /\ Len(file) \in Nat /\ Len(file') = Len(file) + 1 /\ file'[Len(file) + 1] = x
           /\ \A i \in 1..Len(file) : file'[i] = file[i]
           /\ \A i \in 1..Len(file) : i \in Visible(1)' <=> i \in Visible(1)
           /\ \A i \in Visible(1)' : i \in Visible(1) \/ i = Len(file) + 1
           /\ \A kind : Events(kind, 1) \subseteq Events(kind, 1)'
<1> SUFFICES ASSUME NEW x \in Lines \cup {Torn}, file' = Append(file, x)
             PROVE  /\ Len(file) \in Nat /\ Len(file') = Len(file) + 1
                    /\ file'[Len(file) + 1] = x
                    /\ \A i \in 1..Len(file) : file'[i] = file[i]
                    /\ \A i \in 1..Len(file) : i \in Visible(1)' <=> i \in Visible(1)
                    /\ \A i \in Visible(1)' : i \in Visible(1) \/ i = Len(file) + 1
                    /\ \A kind : Events(kind, 1) \subseteq Events(kind, 1)'
  OBVIOUS
<1>1. file \in Seq(Lines \cup {Torn}) /\ Len(file) \in Nat
  BY LenProperties DEF TypeOK
<1>2. /\ Len(file') = Len(file) + 1 /\ file'[Len(file) + 1] = x
      /\ \A i \in 1..Len(file) : file'[i] = file[i]
  BY <1>1, AppendProperties
<1>3. \A i \in 1..Len(file) : i \in Visible(1)' <=> i \in Visible(1)
  <2> SUFFICES ASSUME NEW i \in 1..Len(file)
               PROVE  i \in Visible(1)' <=> i \in Visible(1)
    OBVIOUS
  <2>1. CASE i = 1
    BY <1>1, <1>2, <2>1 DEF Visible
  <2>2. CASE i # 1
    <3>1. i - 1 \in 1..Len(file)
      BY <1>1, <2>2
    <3> QED  BY <1>1, <1>2, <3>1 DEF Visible
  <2> QED  BY <2>1, <2>2
<1>4. \A i \in Visible(1)' : i \in Visible(1) \/ i = Len(file) + 1
  BY <1>1, <1>2, <1>3 DEF Visible
<1>5. ASSUME NEW kind PROVE Events(kind, 1) \subseteq Events(kind, 1)'
  BY <1>1, <1>2, <1>3 DEF Events, Visible
<1> QED  BY <1>1, <1>2, <1>3, <1>4, <1>5

\* An action that writes to the log appends a line it was handed, or a torn one.
LEMMA Writers ==
  ASSUME TypeOK, [Next]_vars, file' # file
  PROVE  /\ \E x \in writing \cup {Torn} : file' = Append(file, x)
         /\ writing' \subseteq writing /\ UNCHANGED <<pc, chosen, listed, tails>>
<1> QED  BY DEF Next, Task, TailStep, Execute, Lock, Record, RecordFails, Write, WriteFails, Choose,
       Find, Resolve, Exit, TailStart, TailStat, TailRead, TailReadFails, Crash, vars, sink, tails

-----------------------------------------------------------------------------
\* The tail command.
LEMMA TailStepKeeps ==
  ASSUME TypeOK, Positions, TailMissesNothing, [Next]_vars
  PROVE  Positions' /\ TailMissesNothing'
<1>1. Len(file) \in Nat
  BY LenProperties DEF TypeOK
<1>2. CASE file' # file
  <2>1. PICK x \in Lines \cup {Torn} : file' = Append(file, x)
    BY <1>2, Writers DEF TypeOK
  <2>2. UNCHANGED <<tail, start, last, current, printed, skipped>>
    BY <1>2, Writers DEF tails
  <2>3. /\ Len(file') = Len(file) + 1
        /\ \A i \in 1..Len(file) : file'[i] = file[i]
        /\ \A i \in 1..Len(file) : i \in Visible(1)' <=> i \in Visible(1)
    BY <2>1, LogGrows
  <2>4. Positions'
    BY <1>1, <2>2, <2>3 DEF Positions, TypeOK
  <2>5. \A i \in Visible(1)' : i \in (start + 1)..last => i \in 1..Len(file)
    BY <1>1 DEF Positions, TypeOK
  <2> QED  BY <1>1, <2>2, <2>3, <2>4, <2>5 DEF TailMissesNothing, TypeOK
<1>3. CASE file' = file
  <2>1. Visible(1)' = Visible(1)
    BY <1>3 DEF Visible
  <2>2. CASE UNCHANGED tails
    BY <1>3, <2>1, <2>2 DEF tails, Positions, TailMissesNothing
  <2>3. CASE TailStart
    BY <1>1, <1>3, <2>1, <2>3 DEF TailStart, Positions, TailMissesNothing, TypeOK
  <2>4. CASE TailStat
    BY <1>1, <1>3, <2>1, <2>4 DEF TailStat, Positions, TailMissesNothing, TypeOK
  <2>5. CASE TailRead
    <3>1. /\ last' = current /\ tail' = "sleep" /\ start' = start /\ skipped' = skipped
          /\ printed' = printed \cup Events("requested", last + 1)
          /\ start <= last /\ last < current /\ current <= Len(file)
      BY <2>5 DEF TailRead, Positions
    <3>2. ASSUME NEW i \in Visible(1), i \in (start + 1)..current, i \notin skipped,
                 file[i].kind = "requested"
          PROVE  file[i].id \in printed'
      <4>1. CASE i <= last
        BY <3>1, <3>2, <4>1 DEF TailMissesNothing, TypeOK
      <4>2. CASE i > last
        <5>1. i \in Visible(last + 1)
          BY <1>1, <3>1, <3>2, <4>2 DEF Visible, TypeOK
        <5> QED  BY <3>1, <3>2, <5>1 DEF Events
      <4> QED  BY <3>2, <4>1, <4>2 DEF Visible, TypeOK
    <3> QED  BY <1>1, <1>3, <2>1, <3>1, <3>2 DEF Positions, TailMissesNothing, TypeOK
  <2>6. CASE TailReadFails
    <3>1. /\ last' = current /\ tail' = "sleep" /\ start' = start /\ printed' = printed
          /\ skipped' = skipped \cup (last + 1)..current
          /\ start <= last /\ last < current /\ current <= Len(file)
      BY <2>6 DEF TailReadFails, Positions
    <3>2. ASSUME NEW i \in Visible(1), i \in (start + 1)..current, i \notin skipped'
          PROVE  i \in (start + 1)..last /\ i \notin skipped
      BY <3>1, <3>2 DEF TypeOK
    <3> QED  BY <1>1, <1>3, <2>1, <3>1, <3>2 DEF Positions, TailMissesNothing, TypeOK
  <2> QED  BY <2>2, <2>3, <2>4, <2>5, <2>6 DEF Next, Task, TailStep, Execute, Lock, Record, RecordFails,
         Write, WriteFails, Choose, Find, Resolve, Exit, Crash, vars, sink, tails
<1> QED  BY <1>2, <1>3

-----------------------------------------------------------------------------
\* What the log holds is not disturbed by an action that leaves the log alone.
LEMMA LogStays ==
  ASSUME file' = file
  PROVE  /\ \A i : Resolved(i)' <=> Resolved(i)
         /\ Visible(1)' = Visible(1)
         /\ \A kind : Events(kind, 1)' = Events(kind, 1)
BY DEF Resolved, Visible, Events

\* Reviewers, when the log stays as it is.
LEMMA ReviewersKeep ==
  ASSUME Inv, [Next]_vars, file' = file
  PROVE  ReviewsAreFounded' /\ LinesAreOfReviewers' /\ ResolutionsAreFounded'
<1> USE LogStays, LineTypes, ApprovalsAssumption
<1>0. /\ Len(file) \in Nat /\ \A v \in Reviewers : v \notin Tasks
      /\ \A j \in DOMAIN file : Resolved(j) => file[j].by \in Reviewers
  BY LenProperties, ElementOfSeq DEF Inv, TypeOK, Resolved
<1>1. CASE \E v \in Reviewers : Choose(v)
  <2>1. PICK v \in Reviewers : Choose(v)
    BY <1>1
  <2>2. /\ pc[v] = "idle" /\ listed[v] = 0 /\ writing' = writing
        /\ pc' = [pc EXCEPT ![v] = "chosen"]
    BY <2>1 DEF Choose, Inv, ReviewersStay, sink
  <2>3. PICK t \in Tasks : /\ \/ t \in Pending /\ listed' = [listed EXCEPT ![v] = Len(file)]
                              \/ listed' = listed
                           /\ chosen' = [chosen EXCEPT ![v] = t]
    BY <2>1 DEF Choose
  <2>4. /\ \A w \in Reviewers : w # v => pc'[w] = pc[w] /\ listed'[w] = listed[w]
                                            /\ chosen'[w] = chosen[w]
        /\ chosen'[v] = t /\ pc'[v] = "chosen"
        /\ \/ t \in Pending /\ listed'[v] = Len(file)
           \/ listed'[v] = 0
    BY <2>2, <2>3 DEF Inv, TypeOK
  <2>5. \A i \in Visible(1) : i <= listed'[v] => ~(file[i].kind = "resolved" /\ file[i].id = t)
    BY <1>0, <2>4 DEF Pending, Events, Visible
  <2>6. ReviewsAreFounded'
    BY <1>0, <2>4, <2>5 DEF Inv, ReviewsAreFounded
  <2>7. LinesAreOfReviewers'
    BY <1>0, <2>2, <2>4 DEF Inv, LinesAreOfReviewers, TypeOK
  <2>8. ResolutionsAreFounded'
    BY <1>0, <2>2, <2>4 DEF Inv, LinesAreOfReviewers, ResolutionsAreFounded, Resolved
  <2> QED  BY <2>6, <2>7, <2>8
<1>2. CASE \E v \in Reviewers : Resolve(v)
  <2>1. PICK v \in Reviewers : Resolve(v)
    BY <1>2
  <2>2. /\ pc[v] = "found" /\ writing' = writing \cup {Line("resolved", chosen[v], v)}
        /\ UNCHANGED <<chosen, listed>> /\ pc'[v] = "exit"
        /\ \A w \in Reviewers : w # v => pc'[w] = pc[w]
    BY <2>1 DEF Resolve, Inv, TypeOK
  <2>3. ReviewsAreFounded'
    BY <2>2 DEF Inv, ReviewsAreFounded
  <2>4. LinesAreOfReviewers'
    BY <1>0, <2>2 DEF Inv, LinesAreOfReviewers, TypeOK, Line
  <2>5. ResolutionsAreFounded'
    BY <2>2 DEF Inv, ResolutionsAreFounded
  <2> QED  BY <2>3, <2>4, <2>5
<1>3. CASE \E v \in Reviewers : Find(v) \/ Exit(v)
  <2>1. PICK v \in Reviewers : Find(v) \/ Exit(v)
    BY <1>3
  <2>2. /\ UNCHANGED <<chosen, listed, writing>>
        /\ \A w \in Reviewers : w # v => pc'[w] = pc[w]
        /\ pc[v] \in {"chosen", "exit"}
        /\ pc'[v] = "exit" => FALSE
        /\ pc'[v] = "found" => chosen[v] \in Events("requested", 1)
        /\ pc'[v] # "idle"
        /\ pc[v] = "exit" => pc'[v] = "resolved" /\ \A l \in writing : l.by # v
    BY <2>1 DEF Find, Exit, sink, Inv, TypeOK
  <2>3. ReviewsAreFounded'
    BY <2>2 DEF Inv, ReviewsAreFounded
  <2>4. LinesAreOfReviewers'
    BY <1>0, <2>2 DEF Inv, LinesAreOfReviewers, TypeOK
  <2>5. ResolutionsAreFounded'
    BY <2>2 DEF Inv, ResolutionsAreFounded
  <2> QED  BY <2>3, <2>4, <2>5
<1>4. CASE ~\E v \in Reviewers : Choose(v) \/ Find(v) \/ Resolve(v) \/ Exit(v)
  <2>1. UNCHANGED <<chosen, listed>> /\ \A l \in writing' : l \in writing \/ l.kind = "requested"
    <3>1. ASSUME NEW t \in Tasks, Record(t)
          PROVE  UNCHANGED <<chosen, listed>> /\ \A l \in writing' : l \in writing \/ l.kind = "requested"
      BY <3>1 DEF Record, Line, tails
    <3>2. CASE ~\E t \in Tasks : Record(t)
      BY <1>4, <3>2 DEF Next, Task, TailStep, Execute, Lock, RecordFails, Write, WriteFails,
           TailStart, TailStat, TailRead, TailReadFails, Crash, vars, sink, tails
    <3> QED  BY <3>1, <3>2
  <2>2. ASSUME NEW v \in Reviewers PROVE pc'[v] = pc[v]
    <3>1. DOMAIN pc = Tasks \cup Reviewers /\ v \notin Tasks
      BY <1>0 DEF Inv, TypeOK
    <3>2. ASSUME NEW t \in Tasks, Execute(t) \/ Task(t) PROVE pc'[v] = pc[v]
      BY <3>1, <3>2 DEF Task, Execute, Lock, Record, RecordFails
    <3>3. CASE Crash
      BY <3>1, <3>3 DEF Crash, Inv, ReviewersStay
    <3>4. CASE ~Crash /\ ~\E t \in Tasks : Execute(t) \/ Task(t)
      BY <1>4, <3>4 DEF Next, TailStep, Write, WriteFails, TailStart, TailStat, TailRead,
           TailReadFails, vars
    <3> QED  BY <3>2, <3>3, <3>4
  <2>3. ReviewsAreFounded'
    BY <2>1, <2>2 DEF Inv, ReviewsAreFounded
  <2>4. LinesAreOfReviewers'
    BY <1>0, <2>1, <2>2 DEF Inv, LinesAreOfReviewers, TypeOK, Line
  <2>5. ResolutionsAreFounded'
    BY <2>1 DEF Inv, ResolutionsAreFounded
  <2> QED  BY <2>3, <2>4, <2>5
<1> QED  BY <1>1, <1>2, <1>3, <1>4

\* Reviewers, when a line comes in.  A resolution that arrives is of a reviewer that
\* found the request in the log, and saw no resolution up to where it had listed it.
LEMMA ArrivalsKeep ==
  ASSUME Inv, [Next]_vars, file' # file
  PROVE  ReviewsAreFounded' /\ LinesAreOfReviewers' /\ ResolutionsAreFounded'
<1> USE LineTypes
<1>1. /\ Len(file) \in Nat /\ DOMAIN file = 1..Len(file)
      /\ \A j \in DOMAIN file : Resolved(j) => file[j].by \in Reviewers
  BY LenProperties, ElementOfSeq DEF Inv, TypeOK, Resolved
<1>2. PICK x \in writing \cup {Torn} : file' = Append(file, x)
  BY Writers DEF Inv
<1>3. /\ x \in Lines \cup {Torn} /\ writing' \subseteq writing
      /\ UNCHANGED <<pc, chosen, listed>>
  BY <1>2, Writers DEF Inv, TypeOK
<1>4. /\ Len(file') = Len(file) + 1 /\ file'[Len(file) + 1] = x
      /\ \A i \in 1..Len(file) : file'[i] = file[i]
      /\ \A i \in 1..Len(file) : i \in Visible(1)' <=> i \in Visible(1)
      /\ \A i \in Visible(1)' : i \in Visible(1) \/ i = Len(file) + 1
      /\ \A kind : Events(kind, 1) \subseteq Events(kind, 1)'
  BY <1>2, <1>3, LogGrows DEF Inv
<1>5. /\ DOMAIN file' = 1..(Len(file) + 1)
      /\ \A i \in Visible(1) : i \in 1..Len(file) /\ i \in Visible(1)' /\ file'[i] = file[i]
      /\ \A i \in Visible(1)' : i \in 1..(Len(file) + 1)
  <2>1. file' \in Seq(Lines \cup {Torn})
    BY <1>2, <1>3, AppendProperties DEF Inv, TypeOK
  <2> QED  BY <1>1, <1>4, <2>1, LenProperties DEF Visible
<1>6. ReviewsAreFounded'
  <2> SUFFICES ASSUME NEW v \in Reviewers
               PROVE  /\ pc[v] \in {"found", "exit"} => chosen[v] \in Events("requested", 1)'
                      /\ pc[v] # "idle" =>
                           /\ listed[v] <= Len(file')
                           /\ \A i \in Visible(1)' :
                                i <= listed[v] => ~(file'[i].kind = "resolved"
                                                      /\ file'[i].id = chosen[v])
    BY <1>3 DEF ReviewsAreFounded
  <2>1. listed[v] \in Nat
    BY DEF Inv, TypeOK
  <2> QED  BY <1>1, <1>4, <1>5, <2>1 DEF Inv, ReviewsAreFounded
<1>7. x \in writing /\ x.kind = "resolved" =>
        /\ x.by \in Reviewers /\ pc[x.by] = "exit" /\ x.id = chosen[x.by]
  BY DEF Inv, TypeOK, LinesAreOfReviewers
<1>8. LinesAreOfReviewers'
  <2>1. ASSUME NEW j \in DOMAIN file', Resolved(j)'
        PROVE  pc[file'[j].by] \in {"exit", "resolved"}
    <3>1. CASE j \in 1..Len(file)
      BY <1>1, <1>4, <2>1, <3>1 DEF Resolved, Inv, LinesAreOfReviewers
    <3>2. CASE j = Len(file) + 1
      BY <1>2, <1>4, <1>7, <2>1, <3>2 DEF Resolved
    <3> QED  BY <1>1, <1>5, <3>1, <3>2
  <2> QED  BY <1>3, <2>1 DEF Inv, LinesAreOfReviewers
<1>9. ASSUME NEW j \in DOMAIN file', file'[j] # Torn, file'[j].kind = "resolved"
      PROVE  /\ \E i \in Visible(1)' : /\ i < j /\ file'[i].kind = "requested"
                                       /\ file'[i].id = file'[j].id
             /\ \A i \in Visible(1)' :
                  i < j /\ file'[i].kind = "resolved" /\ file'[i].id = file'[j].id
                    => listed[file'[j].by] < i
  <2>1. CASE j \in 1..Len(file)
    <3>1. /\ file'[j] = file[j]
          /\ \A i \in Visible(1)' : i < j => i \in Visible(1) /\ file'[i] = file[i]
      BY <1>1, <1>4, <1>5, <2>1
    <3>2. /\ \E i \in Visible(1) : /\ i < j /\ file[i].kind = "requested"
                                   /\ file[i].id = file[j].id
          /\ \A i \in Visible(1) :
               i < j /\ file[i].kind = "resolved" /\ file[i].id = file[j].id
                 => listed[file[j].by] < i
      BY <1>1, <1>9, <2>1, <3>1 DEF Inv, ResolutionsAreFounded
    <3> QED  BY <1>5, <3>1, <3>2
  <2>2. CASE j = Len(file) + 1
    <3>1. /\ x = file'[j] /\ x \in writing /\ x.by \in Reviewers
          /\ pc[x.by] = "exit" /\ x.id = chosen[x.by] /\ listed[x.by] \in Nat
      BY <1>2, <1>4, <1>7, <1>9, <2>2 DEF Inv, TypeOK
    <3>2. /\ x.id \in Events("requested", 1)
          /\ \A i \in Visible(1) :
               i <= listed[x.by] => ~(file[i].kind = "resolved" /\ file[i].id = x.id)
      BY <3>1 DEF Inv, ReviewsAreFounded
    <3>3. PICK i \in Visible(1) : file[i].kind = "requested" /\ file[i].id = x.id
      BY <3>2 DEF Events
    <3>4. \A k \in Visible(1)' : k < j => k \in Visible(1) /\ k \in Nat /\ file'[k] = file[k]
      BY <1>1, <1>4, <1>5, <2>2
    <3>5. i < j /\ i \in Visible(1)' /\ file'[i] = file[i]
      BY <1>1, <1>5, <2>2
    <3> QED  BY <3>1, <3>2, <3>3, <3>4, <3>5
  <2> QED  BY <1>1, <1>5, <2>1, <2>2
<1>10. ResolutionsAreFounded'
  BY <1>3, <1>9 DEF ResolutionsAreFounded
<1> QED  BY <1>6, <1>8, <1>10

LEMMA InvStep == Inv /\ [Next]_vars => Inv'
BY TypeStep, TailStepKeeps, ReviewersKeep, ArrivalsKeep DEF Inv

-----------------------------------------------------------------------------
LEMMA Inductive == Spec => []Inv
BY Initially, InvStep, PTL DEF Spec

\* Types are kept, and the sink's lock is held by the one task that is about to write.
THEOREM ApprovalsTyped == Spec => []TypeOK
<1>1. Inv => TypeOK
  BY DEF Inv
<1> QED  BY <1>1, Inductive, PTL

\* approvals_tail leaves out no request it could read, however the log grows
\* between the stat and the read.
THEOREM TailShowsAll == Spec => []TailMissesNothing
<1>1. Inv => TailMissesNothing
  BY DEF Inv
<1> QED  BY <1>1, Inductive, PTL

\* approvals_resolve never resolves what was not asked, and resolves twice only what
\* its reviewer could not know to be resolved.
THEOREM ResolutionsStayFounded == Spec => []ResolutionsAreFounded
<1>1. Inv => ResolutionsAreFounded
  BY DEF Inv
<1> QED  BY <1>1, Inductive, PTL
=============================================================================
