--------------------------- MODULE PhoneApp_proofs ---------------------------
(***************************************************************************)
(* The Android app, for every set of networks and number of ViewModels:    *)
(* both its safety properties.  First what is left of a thread's list of   *)
(* steps, so that every place a thread can be at has a name; then the      *)
(* invariant over those places, and one lemma per action.                  *)
(***************************************************************************)
EXTENDS PhoneApp, SequenceTheorems, TLAPS

\* Every list of steps a handler begins, and what is left of it on the way.
Start5 == <<"bind", "decide", "pin", "notify", "boot">>
Start4 == <<"decide", "pin", "notify", "boot">>
Start3 == <<"pin", "notify", "boot">>
Start2 == <<"notify", "boot">>
Start1 == <<"boot">>
Recreate3 == <<"halt", "unbind", "unpin">>
Recreate2 == <<"unbind", "unpin">>
Destroy5 == <<"deafen", "unbind", "unpin", "halt", "unpin">>
Destroy4 == <<"unbind", "unpin", "halt", "unpin">>
Destroy3 == <<"unpin", "halt", "unpin">>
Destroy2 == <<"halt", "unpin">>
Last1 == <<"unpin">>
Reconcile2 == <<"pin", "notify">>
Reconcile1 == <<"notify">>

Starting == {Start5, Start4, Start3, Start2, Start1}
Destroying == {Destroy5, Destroy4, Destroy3, Destroy2}
MainLists == {<< >>, Recreate3, Recreate2, Last1} \cup Starting \cup Destroying
WorkerLists == {<< >>, Reconcile, Reconcile2, Reconcile1}

\* What is left of a list after its first step, or after three.
LEMMA RestIs ==
  ASSUME NEW S, NEW s \in Seq(S), NEW r \in Seq(S), NEW n \in Nat,
         Len(s) = Len(r) + n, \A i \in 1 .. Len(r) : r[i] = s[n + i]
  PROVE  SubSeq(s, n + 1, Len(s)) = r
<1>1. /\ SubSeq(s, n + 1, Len(s)) \in Seq(S)
      /\ Len(SubSeq(s, n + 1, Len(s))) = Len(r)
      /\ \A i \in 1 .. Len(r) : SubSeq(s, n + 1, Len(s))[i] = s[n + i]
  BY SubSeqProperties
<1> QED BY <1>1, SeqEqual

\* The tail of a list, by its length.
LEMMA Rest5 ==
  \A a, b, c, d, e : SubSeq(<<a, b, c, d, e>>, 1 + 1, Len(<<a, b, c, d, e>>)) = <<b, c, d, e>>
<1>1. SUFFICES ASSUME NEW a, NEW b, NEW c, NEW d, NEW e
               PROVE  SubSeq(<<a, b, c, d, e>>, 1 + 1, Len(<<a, b, c, d, e>>)) = <<b, c, d, e>>
  OBVIOUS
<1> DEFINE s == <<a, b, c, d, e>>
           r == <<b, c, d, e>>
           S == {a, b, c, d, e}
<1>2. s \in Seq(S) /\ r \in Seq(S)
  OBVIOUS
<1>3. Len(s) = 5 /\ Len(r) = 4
  OBVIOUS
<1>4. r[1] = s[1 + 1] /\ r[2] = s[1 + 2] /\ r[3] = s[1 + 3] /\ r[4] = s[1 + 4]
  OBVIOUS
<1>5. \A i \in 1 .. 4 : i = 1 \/ i = 2 \/ i = 3 \/ i = 4
  OBVIOUS
<1>6. \A i \in 1 .. Len(r) : r[i] = s[1 + i]
  BY <1>3, <1>4, <1>5
<1>7. Len(s) = Len(r) + 1
  BY <1>3
<1> HIDE DEF s, r, S
<1>8. SubSeq(s, 1 + 1, Len(s)) = r
  BY <1>2, <1>6, <1>7, RestIs
<1> QED BY <1>8 DEF s, r

LEMMA Rest4 ==
  \A a, b, c, d : SubSeq(<<a, b, c, d>>, 1 + 1, Len(<<a, b, c, d>>)) = <<b, c, d>>
<1>1. SUFFICES ASSUME NEW a, NEW b, NEW c, NEW d
               PROVE  SubSeq(<<a, b, c, d>>, 1 + 1, Len(<<a, b, c, d>>)) = <<b, c, d>>
  OBVIOUS
<1> DEFINE s == <<a, b, c, d>>
           r == <<b, c, d>>
           S == {a, b, c, d}
<1>2. s \in Seq(S) /\ r \in Seq(S)
  OBVIOUS
<1>3. Len(s) = 4 /\ Len(r) = 3
  OBVIOUS
<1>4. r[1] = s[1 + 1] /\ r[2] = s[1 + 2] /\ r[3] = s[1 + 3]
  OBVIOUS
<1>5. \A i \in 1 .. 3 : i = 1 \/ i = 2 \/ i = 3
  OBVIOUS
<1>6. \A i \in 1 .. Len(r) : r[i] = s[1 + i]
  BY <1>3, <1>4, <1>5
<1>7. Len(s) = Len(r) + 1
  BY <1>3
<1> HIDE DEF s, r, S
<1>8. SubSeq(s, 1 + 1, Len(s)) = r
  BY <1>2, <1>6, <1>7, RestIs
<1> QED BY <1>8 DEF s, r

LEMMA Rest3 ==
  \A a, b, c : SubSeq(<<a, b, c>>, 1 + 1, Len(<<a, b, c>>)) = <<b, c>>
<1>1. SUFFICES ASSUME NEW a, NEW b, NEW c
               PROVE  SubSeq(<<a, b, c>>, 1 + 1, Len(<<a, b, c>>)) = <<b, c>>
  OBVIOUS
<1> DEFINE s == <<a, b, c>>
           r == <<b, c>>
           S == {a, b, c}
<1>2. s \in Seq(S) /\ r \in Seq(S)
  OBVIOUS
<1>3. Len(s) = 3 /\ Len(r) = 2
  OBVIOUS
<1>4. r[1] = s[1 + 1] /\ r[2] = s[1 + 2]
  OBVIOUS
<1>5. \A i \in 1 .. 2 : i = 1 \/ i = 2
  OBVIOUS
<1>6. \A i \in 1 .. Len(r) : r[i] = s[1 + i]
  BY <1>3, <1>4, <1>5
<1>7. Len(s) = Len(r) + 1
  BY <1>3
<1> HIDE DEF s, r, S
<1>8. SubSeq(s, 1 + 1, Len(s)) = r
  BY <1>2, <1>6, <1>7, RestIs
<1> QED BY <1>8 DEF s, r

LEMMA Rest2 ==
  \A a, b : SubSeq(<<a, b>>, 1 + 1, Len(<<a, b>>)) = <<b>>
<1>1. SUFFICES ASSUME NEW a, NEW b
               PROVE  SubSeq(<<a, b>>, 1 + 1, Len(<<a, b>>)) = <<b>>
  OBVIOUS
<1> DEFINE s == <<a, b>>
           r == <<b>>
           S == {a, b}
<1>2. s \in Seq(S) /\ r \in Seq(S)
  OBVIOUS
<1>3. Len(s) = 2 /\ Len(r) = 1
  OBVIOUS
<1>4. r[1] = s[1 + 1]
  OBVIOUS
<1>5. \A i \in 1 .. 1 : i = 1
  OBVIOUS
<1>6. \A i \in 1 .. Len(r) : r[i] = s[1 + i]
  BY <1>3, <1>4, <1>5
<1>7. Len(s) = Len(r) + 1
  BY <1>3
<1> HIDE DEF s, r, S
<1>8. SubSeq(s, 1 + 1, Len(s)) = r
  BY <1>2, <1>6, <1>7, RestIs
<1> QED BY <1>8 DEF s, r

\* A decision that changes nothing skips the two steps after it.
LEMMA Rest4By3 ==
  \A a, b, c, d : SubSeq(<<a, b, c, d>>, 3 + 1, Len(<<a, b, c, d>>)) = <<d>>
<1>1. SUFFICES ASSUME NEW a, NEW b, NEW c, NEW d
               PROVE  SubSeq(<<a, b, c, d>>, 3 + 1, Len(<<a, b, c, d>>)) = <<d>>
  OBVIOUS
<1> DEFINE s == <<a, b, c, d>>
           r == <<d>>
           S == {a, b, c, d}
<1>2. s \in Seq(S) /\ r \in Seq(S)
  OBVIOUS
<1>3. Len(s) = 4 /\ Len(r) = 1
  OBVIOUS
<1>4. r[1] = s[3 + 1]
  OBVIOUS
<1>5. \A i \in 1 .. 1 : i = 1
  OBVIOUS
<1>6. \A i \in 1 .. Len(r) : r[i] = s[3 + i]
  BY <1>3, <1>4, <1>5
<1>7. Len(s) = Len(r) + 3
  BY <1>3
<1> HIDE DEF s, r, S
<1>8. SubSeq(s, 3 + 1, Len(s)) = r
  BY <1>2, <1>6, <1>7, RestIs
<1> QED BY <1>8 DEF s, r

\* Each list leads to the next.
LEMMA Rests ==
  /\ SubSeq(Start5, 1 + 1, Len(Start5)) = Start4
  /\ SubSeq(Start4, 1 + 1, Len(Start4)) = Start3
  /\ SubSeq(Start4, 3 + 1, Len(Start4)) = Start1
  /\ SubSeq(Start3, 1 + 1, Len(Start3)) = Start2
  /\ SubSeq(Start2, 1 + 1, Len(Start2)) = Start1
  /\ SubSeq(Start1, 1 + 1, Len(Start1)) = << >>
  /\ SubSeq(Recreate3, 1 + 1, Len(Recreate3)) = Recreate2
  /\ SubSeq(Recreate2, 1 + 1, Len(Recreate2)) = Last1
  /\ SubSeq(Destroy5, 1 + 1, Len(Destroy5)) = Destroy4
  /\ SubSeq(Destroy4, 1 + 1, Len(Destroy4)) = Destroy3
  /\ SubSeq(Destroy3, 1 + 1, Len(Destroy3)) = Destroy2
  /\ SubSeq(Destroy2, 1 + 1, Len(Destroy2)) = Last1
  /\ SubSeq(Last1, 1 + 1, Len(Last1)) = << >>
  /\ SubSeq(Reconcile, 1 + 1, Len(Reconcile)) = Reconcile2
  /\ SubSeq(Reconcile, 3 + 1, Len(Reconcile)) = << >>
  /\ SubSeq(Reconcile2, 1 + 1, Len(Reconcile2)) = Reconcile1
  /\ SubSeq(Reconcile1, 1 + 1, Len(Reconcile1)) = << >>
<1>1. SubSeq(Start5, 1 + 1, Len(Start5)) = Start4
  <2>1. \A d, e : SubSeq(<<"bind", "decide", "pin", d, e>>, 1 + 1, Len(<<"bind", "decide", "pin", d, e>>)) =
                     <<"decide", "pin", d, e>>
    BY Rest5, Zenon
  <2> QED BY <2>1, Zenon DEF Start5, Start4
<1>2. SubSeq(Start4, 1 + 1, Len(Start4)) = Start3
  BY Rest4, ZenonT(30) DEF Start4, Start3
<1>3. SubSeq(Start4, 3 + 1, Len(Start4)) = Start1
  BY Rest4By3, Zenon DEF Start4, Start1
<1>4. SubSeq(Start3, 1 + 1, Len(Start3)) = Start2
  BY Rest3, Zenon DEF Start3, Start2
<1>5. SubSeq(Start2, 1 + 1, Len(Start2)) = Start1
  BY Rest2, Zenon DEF Start2, Start1
<1>6. SubSeq(Start1, 1 + 1, Len(Start1)) = << >>
  BY DEF Start1
<1>7. SubSeq(Recreate3, 1 + 1, Len(Recreate3)) = Recreate2
  BY Rest3, Zenon DEF Recreate3, Recreate2
<1>8. SubSeq(Recreate2, 1 + 1, Len(Recreate2)) = Last1
  BY Rest2, Zenon DEF Recreate2, Last1
<1>9. SubSeq(Destroy5, 1 + 1, Len(Destroy5)) = Destroy4
  <2>1. \A d, e : SubSeq(<<"deafen", "unbind", "unpin", d, e>>, 1 + 1, Len(<<"deafen", "unbind", "unpin", d, e>>)) =
                     <<"unbind", "unpin", d, e>>
    BY Rest5, Zenon
  <2> QED BY <2>1, Zenon DEF Destroy5, Destroy4
<1>10. SubSeq(Destroy4, 1 + 1, Len(Destroy4)) = Destroy3
  BY Rest4, ZenonT(30) DEF Destroy4, Destroy3
<1>11. SubSeq(Destroy3, 1 + 1, Len(Destroy3)) = Destroy2
  BY Rest3, Zenon DEF Destroy3, Destroy2
<1>12. SubSeq(Destroy2, 1 + 1, Len(Destroy2)) = Last1
  BY Rest2, Zenon DEF Destroy2, Last1
<1>13. SubSeq(Last1, 1 + 1, Len(Last1)) = << >>
  BY DEF Last1
<1>14. SubSeq(Reconcile, 1 + 1, Len(Reconcile)) = Reconcile2
  BY Rest3, Zenon DEF Reconcile, Reconcile2
<1>15. SubSeq(Reconcile, 3 + 1, Len(Reconcile)) = << >>
  BY DEF Reconcile
<1>16. SubSeq(Reconcile2, 1 + 1, Len(Reconcile2)) = Reconcile1
  BY Rest2, Zenon DEF Reconcile2, Reconcile1
<1>17. SubSeq(Reconcile1, 1 + 1, Len(Reconcile1)) = << >>
  BY DEF Reconcile1
<1> QED BY <1>1, <1>2, <1>3, <1>4, <1>5, <1>6, <1>7, <1>8, <1>9, <1>10, <1>11,
           <1>12, <1>13, <1>14, <1>15, <1>16, <1>17

-----------------------------------------------------------------------------
(* Where the two threads are *)

mainTodo == steps["main"]
workTodo == steps["worker"]
mainFor  == who["main"]
workFor  == who["worker"]

\* Each thread has the rest of one of its lists to do, and is for a ViewModel
\* exactly while it has.
Places ==
  /\ mainTodo \in MainLists /\ workTodo \in WorkerLists
  /\ steps \in [Threads -> MainLists \cup WorkerLists]
  /\ who \in [Threads -> {0} \cup Models]
  /\ mainFor = 0 <=> mainTodo = << >>
  /\ workFor = 0 <=> workTodo = << >>

\* Head and length tell the lists apart.
LEMMA Shapes ==
  /\ Head(Start5) = "bind" /\ Head(Start4) = "decide" /\ Head(Start3) = "pin"
  /\ Head(Start2) = "notify" /\ Head(Start1) = "boot"
  /\ Head(Recreate3) = "halt" /\ Head(Recreate2) = "unbind" /\ Head(Last1) = "unpin"
  /\ Head(Destroy5) = "deafen" /\ Head(Destroy4) = "unbind" /\ Head(Destroy3) = "unpin"
  /\ Head(Destroy2) = "halt"
  /\ Head(Reconcile) = "decide" /\ Head(Reconcile2) = "pin" /\ Head(Reconcile1) = "notify"
  /\ Len(Start5) = 5 /\ Len(Start4) = 4 /\ Len(Start3) = 3 /\ Len(Start2) = 2
  /\ Len(Start1) = 1 /\ Len(Recreate3) = 3 /\ Len(Recreate2) = 2 /\ Len(Last1) = 1
  /\ Len(Destroy5) = 5 /\ Len(Destroy4) = 4 /\ Len(Destroy3) = 3 /\ Len(Destroy2) = 2
  /\ Len(Reconcile) = 3 /\ Len(Reconcile2) = 2 /\ Len(Reconcile1) = 1
  /\ Len(<< >>) = 0
BY DEF Start5, Start4, Start3, Start2, Start1, Recreate3, Recreate2, Last1, Destroy5,
       Destroy4, Destroy3, Destroy2, Reconcile, Reconcile2, Reconcile1

\* Every list is a sequence of tasks.
LEMMA ListsAreSequences == MainLists \cup WorkerLists \subseteq Seq(Tasks)
<1>1. \A a, b, c, d, e \in Tasks : <<a, b, c, d, e>> \in Seq(Tasks)
  OBVIOUS
<1>2. \A a, b, c, d \in Tasks : <<a, b, c, d>> \in Seq(Tasks)
  OBVIOUS
<1>3. \A a, b, c \in Tasks : <<a, b, c>> \in Seq(Tasks)
  OBVIOUS
<1>4. \A a, b \in Tasks : <<a, b>> \in Seq(Tasks)
  OBVIOUS
<1>5. \A a \in Tasks : <<a>> \in Seq(Tasks)
  OBVIOUS
<1>6. << >> \in Seq(Tasks)
  OBVIOUS
<1>7. /\ "bind" \in Tasks /\ "decide" \in Tasks /\ "pin" \in Tasks /\ "notify" \in Tasks
      /\ "boot" \in Tasks /\ "halt" \in Tasks /\ "unbind" \in Tasks /\ "unpin" \in Tasks
      /\ "deafen" \in Tasks
  BY DEF Tasks
<1>8. /\ Start5 \in Seq(Tasks) /\ Start4 \in Seq(Tasks) /\ Start3 \in Seq(Tasks)
      /\ Start2 \in Seq(Tasks) /\ Start1 \in Seq(Tasks)
  BY <1>1, <1>2, <1>3, <1>4, <1>5, <1>7, Zenon DEF Start5, Start4, Start3, Start2, Start1
<1>9. /\ Recreate3 \in Seq(Tasks) /\ Recreate2 \in Seq(Tasks) /\ Last1 \in Seq(Tasks)
      /\ Reconcile \in Seq(Tasks) /\ Reconcile2 \in Seq(Tasks) /\ Reconcile1 \in Seq(Tasks)
  BY <1>3, <1>4, <1>5, <1>7, Zenon
     DEF Recreate3, Recreate2, Last1, Reconcile, Reconcile2, Reconcile1
<1>10. /\ Destroy5 \in Seq(Tasks) /\ Destroy4 \in Seq(Tasks) /\ Destroy3 \in Seq(Tasks)
       /\ Destroy2 \in Seq(Tasks)
  BY <1>1, <1>2, <1>3, <1>4, <1>7, Zenon DEF Destroy5, Destroy4, Destroy3, Destroy2
<1>11. QED
  BY <1>6, <1>8, <1>9, <1>10 DEF MainLists, WorkerLists, Starting, Destroying

\* What a thread does next says which list it is at, up to a choice.
LEMMA MainPlace ==
  ASSUME Places
  PROVE  /\ At("main", "bind")   <=> mainTodo = Start5
         /\ At("main", "decide") <=> mainTodo = Start4
         /\ At("main", "pin")    <=> mainTodo = Start3
         /\ At("main", "notify") <=> mainTodo = Start2
         /\ At("main", "boot")   <=> mainTodo = Start1
         /\ At("main", "halt")   <=> mainTodo \in {Recreate3, Destroy2}
         /\ At("main", "unbind") <=> mainTodo \in {Recreate2, Destroy4}
         /\ At("main", "unpin")  <=> mainTodo \in {Last1, Destroy3}
         /\ At("main", "deafen") <=> mainTodo = Destroy5
         /\ Idle("main") <=> mainTodo = << >>
BY Shapes DEF Places, At, Idle, mainTodo, MainLists, Starting, Destroying

LEMMA WorkerPlace ==
  ASSUME Places
  PROVE  /\ At("worker", "decide") <=> workTodo = Reconcile
         /\ At("worker", "pin")    <=> workTodo = Reconcile2
         /\ At("worker", "notify") <=> workTodo = Reconcile1
         /\ Idle("worker") <=> workTodo = << >>
BY Shapes DEF Places, At, Idle, workTodo, WorkerLists

\* Where a step leads the main thread.
LEMMA MainMoves ==
  ASSUME Places, mainTodo # << >>, Step("main")
  PROVE  /\ Places'
         /\ workTodo' = workTodo /\ workFor' = workFor
         /\ mainFor' = IF mainTodo' = << >> THEN 0 ELSE mainFor
         /\ mainTodo = Start5 => mainTodo' = Start4
         /\ mainTodo = Start4 => mainTodo' = Start3
         /\ mainTodo = Start3 => mainTodo' = Start2
         /\ mainTodo = Start2 => mainTodo' = Start1
         /\ mainTodo = Start1 => mainTodo' = << >>
         /\ mainTodo = Recreate3 => mainTodo' = Recreate2
         /\ mainTodo = Recreate2 => mainTodo' = Last1
         /\ mainTodo = Destroy5 => mainTodo' = Destroy4
         /\ mainTodo = Destroy4 => mainTodo' = Destroy3
         /\ mainTodo = Destroy3 => mainTodo' = Destroy2
         /\ mainTodo = Destroy2 => mainTodo' = Last1
         /\ mainTodo = Last1 => mainTodo' = << >>
<1>1. "main" \in Threads /\ "worker" \in Threads
  BY DEF Threads
<1>2. /\ mainTodo' = SubSeq(mainTodo, 1 + 1, Len(mainTodo))
      /\ workTodo' = workTodo /\ workFor' = workFor
      /\ mainFor' = IF Len(mainTodo) = 1 THEN 0 ELSE mainFor
  BY <1>1 DEF Places, Step, Skip, mainTodo, workTodo, mainFor, workFor
<1>3. mainTodo \in MainLists /\ mainFor \in Models
  BY <1>1 DEF Places, mainFor
<1>4. /\ mainTodo = Start5 => mainTodo' = Start4
      /\ mainTodo = Start4 => mainTodo' = Start3
      /\ mainTodo = Start3 => mainTodo' = Start2
      /\ mainTodo = Start2 => mainTodo' = Start1
      /\ mainTodo = Start1 => mainTodo' = << >>
      /\ mainTodo = Recreate3 => mainTodo' = Recreate2
      /\ mainTodo = Recreate2 => mainTodo' = Last1
      /\ mainTodo = Destroy5 => mainTodo' = Destroy4
      /\ mainTodo = Destroy4 => mainTodo' = Destroy3
      /\ mainTodo = Destroy3 => mainTodo' = Destroy2
      /\ mainTodo = Destroy2 => mainTodo' = Last1
      /\ mainTodo = Last1 => mainTodo' = << >>
  BY <1>2, Rests, Zenon
<1>5. /\ mainTodo' \in MainLists
      /\ mainTodo' = << >> <=> Len(mainTodo) = 1
  <2>1. CASE mainTodo \in Starting
    <3>1. mainTodo' \in MainLists
      BY <1>4, <2>1 DEF MainLists, Starting
    <3>2. mainTodo' = << >> => Len(mainTodo) = 1
      <4>1. /\ mainTodo = Start5 => mainTodo' = Start4
            /\ mainTodo = Start4 => mainTodo' = Start3
            /\ mainTodo = Start3 => mainTodo' = Start2
            /\ mainTodo = Start2 => mainTodo' = Start1
        BY <1>4
      <4>2. QED
        BY <2>1, <4>1, Shapes DEF Starting
    <3>3. Len(mainTodo) = 1 => mainTodo' = << >>
      <4>1. mainTodo # Start1 => Len(mainTodo) # 1
        BY <2>1, Shapes DEF Starting
      <4>2. QED
        BY <1>4, <4>1
    <3>4. QED
      BY <3>1, <3>2, <3>3
  <2>2. CASE mainTodo \in Destroying
    BY SMTT(20), <1>4, <2>2, Shapes DEF MainLists, Destroying
  <2>3. CASE mainTodo \in {Recreate3, Recreate2, Last1}
    <3>1. mainTodo' \in MainLists
      BY <1>4, <2>3 DEF MainLists
    <3>2. mainTodo' = << >> <=> Len(mainTodo) = 1
      BY <1>4, <2>3, Shapes
    <3>3. QED
      BY <3>1, <3>2
  <2>4. mainTodo # << >>
    OBVIOUS
  <2>5. QED
    BY <1>3, <2>1, <2>2, <2>3, <2>4 DEF MainLists
<1>6. mainFor' = IF mainTodo' = << >> THEN 0 ELSE mainFor
  BY <1>2, <1>5
<1>7. Places'
  <2>1. steps' = [steps EXCEPT !["main"] = mainTodo'] /\ who' = [who EXCEPT !["main"] = mainFor']
    BY <1>1 DEF Places, Step, Skip, mainTodo, mainFor
  <2>2. steps' \in [Threads -> MainLists \cup WorkerLists] /\ who' \in [Threads -> {0} \cup Models]
    BY <1>1, <1>3, <1>5, <1>6, <2>1 DEF Places
  <2>3. 0 \notin Models
    BY DEF Models
  <2>4. QED
    BY <1>2, <1>3, <1>5, <1>6, <2>2, <2>3 DEF Places
<1>8. QED
  BY <1>2, <1>4, <1>6, <1>7

\* A decision that changes nothing ends the reconcile.
LEMMA MainJumps ==
  ASSUME Places, mainTodo = Start4, Skip("main", 3)
  PROVE  /\ Places'
         /\ workTodo' = workTodo /\ workFor' = workFor
         /\ mainFor' = mainFor /\ mainTodo' = Start1
<1>1. "main" \in Threads /\ "worker" \in Threads
  BY DEF Threads
<1>2. /\ mainTodo' = SubSeq(mainTodo, 3 + 1, Len(mainTodo))
      /\ workTodo' = workTodo /\ workFor' = workFor
      /\ mainFor' = IF Len(mainTodo) = 3 THEN 0 ELSE mainFor
  BY <1>1 DEF Places, Skip, mainTodo, workTodo, mainFor, workFor
<1>3. mainTodo' = Start1 /\ mainFor' = mainFor
  <2>1. mainTodo' = SubSeq(Start4, 3 + 1, Len(Start4))
    BY <1>2, Zenon
  <2>2. mainTodo' = Start1
    BY <2>1, Rests, Zenon
  <2>3. QED
    BY <1>2, <2>2, Shapes
<1>4. Places'
  <2>1. steps' = [steps EXCEPT !["main"] = mainTodo'] /\ who' = [who EXCEPT !["main"] = mainFor']
    BY <1>1 DEF Places, Skip, mainTodo, mainFor
  <2>2. mainTodo' \in MainLists /\ mainFor' \in Models /\ Start1 # << >> /\ Start4 # << >>
    BY <1>1, <1>3, Shapes DEF Places, mainFor, MainLists, Starting
  <2>3. steps' \in [Threads -> MainLists \cup WorkerLists] /\ who' \in [Threads -> {0} \cup Models]
    BY <1>1, <2>1, <2>2 DEF Places
  <2>4. QED
    BY <1>2, <1>3, <2>2, <2>3 DEF Places
<1>5. QED
  BY <1>2, <1>3, <1>4

\* Where a step leads the worker.
LEMMA WorkerMoves ==
  ASSUME Places, workTodo # << >>, Step("worker")
  PROVE  /\ Places'
         /\ mainTodo' = mainTodo /\ mainFor' = mainFor
         /\ workFor' = IF workTodo' = << >> THEN 0 ELSE workFor
         /\ workTodo = Reconcile => workTodo' = Reconcile2
         /\ workTodo = Reconcile2 => workTodo' = Reconcile1
         /\ workTodo = Reconcile1 => workTodo' = << >>
<1>1. "main" \in Threads /\ "worker" \in Threads
  BY DEF Threads
<1>2. /\ workTodo' = SubSeq(workTodo, 1 + 1, Len(workTodo))
      /\ mainTodo' = mainTodo /\ mainFor' = mainFor
      /\ workFor' = IF Len(workTodo) = 1 THEN 0 ELSE workFor
  BY <1>1 DEF Places, Step, Skip, mainTodo, workTodo, mainFor, workFor
<1>3. workTodo \in WorkerLists /\ workFor \in Models
  BY <1>1 DEF Places, workFor
<1>4. /\ workTodo = Reconcile => workTodo' = Reconcile2
      /\ workTodo = Reconcile2 => workTodo' = Reconcile1
      /\ workTodo = Reconcile1 => workTodo' = << >>
  BY <1>2, Rests, Zenon
<1>5. /\ workTodo' \in WorkerLists
      /\ workTodo' = << >> <=> Len(workTodo) = 1
  BY <1>3, <1>4, Shapes DEF WorkerLists
<1>6. workFor' = IF workTodo' = << >> THEN 0 ELSE workFor
  BY <1>2, <1>5
<1>7. Places'
  <2>1. /\ steps' = [steps EXCEPT !["worker"] = workTodo']
        /\ who' = [who EXCEPT !["worker"] = workFor']
    BY <1>1 DEF Places, Step, Skip, workTodo, workFor
  <2>2. steps' \in [Threads -> MainLists \cup WorkerLists] /\ who' \in [Threads -> {0} \cup Models]
    BY <1>1, <1>3, <1>5, <1>6, <2>1 DEF Places
  <2>3. 0 \notin Models
    BY DEF Models
  <2>4. QED
    BY <1>2, <1>3, <1>5, <1>6, <2>2, <2>3 DEF Places
<1>8. QED
  BY <1>2, <1>4, <1>6, <1>7

LEMMA WorkerJumps ==
  ASSUME Places, workTodo = Reconcile, Skip("worker", 3)
  PROVE  /\ Places'
         /\ mainTodo' = mainTodo /\ mainFor' = mainFor
         /\ workFor' = 0 /\ workTodo' = << >>
<1>1. "main" \in Threads /\ "worker" \in Threads
  BY DEF Threads
<1>2. /\ workTodo' = SubSeq(workTodo, 3 + 1, Len(workTodo))
      /\ mainTodo' = mainTodo /\ mainFor' = mainFor
      /\ workFor' = IF Len(workTodo) = 3 THEN 0 ELSE workFor
  BY <1>1 DEF Places, Skip, mainTodo, workTodo, mainFor, workFor
<1>3. workTodo' = << >> /\ workFor' = 0
  <2>1. workTodo' = SubSeq(Reconcile, 3 + 1, Len(Reconcile))
    BY <1>2, Zenon
  <2>2. workTodo' = << >>
    BY <2>1, Rests, Zenon
  <2>3. QED
    BY <1>2, <2>2, Shapes
<1>4. Places'
  <2>1. /\ steps' = [steps EXCEPT !["worker"] = workTodo']
        /\ who' = [who EXCEPT !["worker"] = workFor']
    BY <1>1 DEF Places, Skip, workTodo, workFor
  <2>2. workTodo' \in WorkerLists
    BY <1>3 DEF WorkerLists
  <2>3. steps' \in [Threads -> MainLists \cup WorkerLists] /\ who' \in [Threads -> {0} \cup Models]
    BY <1>1, <1>3, <2>1, <2>2 DEF Places
  <2>4. QED
    BY <1>2, <1>3, <2>2, <2>3 DEF Places
<1>5. QED
  BY <1>2, <1>3, <1>4

\* A handler of the main thread begins, or a callback.
LEMMA MainBegins ==
  ASSUME Places, NEW m \in Models, NEW todo \in MainLists \ {<< >>}, Begin("main", m, todo)
  PROVE  /\ Places'
         /\ workTodo' = workTodo /\ workFor' = workFor
         /\ mainFor' = m /\ mainTodo' = todo
<1>1. "main" \in Threads /\ "worker" \in Threads /\ 0 \notin Models
  BY DEF Threads, Models
<1>2. /\ workTodo' = workTodo /\ workFor' = workFor /\ mainFor' = m /\ mainTodo' = todo
  BY <1>1 DEF Places, Begin, mainTodo, workTodo, mainFor, workFor
<1>3. steps' \in [Threads -> MainLists \cup WorkerLists] /\ who' \in [Threads -> {0} \cup Models]
  BY <1>1 DEF Places, Begin
<1>4. QED
  BY <1>1, <1>2, <1>3 DEF Places

LEMMA WorkerBegins ==
  ASSUME Places, NEW m \in Models, Begin("worker", m, Reconcile)
  PROVE  /\ Places'
         /\ mainTodo' = mainTodo /\ mainFor' = mainFor
         /\ workFor' = m /\ workTodo' = Reconcile
<1>1. "main" \in Threads /\ "worker" \in Threads /\ 0 \notin Models
  BY DEF Threads, Models
<1>2. /\ mainTodo' = mainTodo /\ mainFor' = mainFor /\ workFor' = m /\ workTodo' = Reconcile
  BY <1>1 DEF Places, Begin, mainTodo, workTodo, mainFor, workFor
<1>3. Reconcile \in WorkerLists /\ Reconcile # << >>
  BY Shapes DEF WorkerLists
<1>4. steps' \in [Threads -> MainLists \cup WorkerLists] /\ who' \in [Threads -> {0} \cup Models]
  BY <1>1, <1>3 DEF Places, Begin
<1>5. QED
  BY <1>1, <1>2, <1>3, <1>4 DEF Places

LEMMA ThreadsKept ==
  ASSUME Places, UNCHANGED threadVars
  PROVE  Places' /\ UNCHANGED <<mainTodo, workTodo, mainFor, workFor>>
BY DEF Places, threadVars, mainTodo, workTodo, mainFor, workFor

-----------------------------------------------------------------------------
(* The inductive invariant *)

\* Discovery's socket is where new sockets would be, unless the change is yet
\* to be announced or an activity is on its way out, with the native side.
Sockets ==
  /\ mainTodo \in {Recreate2, Last1} => ~manager
  /\ manager /\ sock \notin {"none", "closed"} /\ ~rebind /\ ~untold =>
       \/ sock = pin \/ mainTodo = Start2 \/ workTodo = Reconcile1
       \/ mainTodo \in Destroying

\* A screen that asked for a notification gets it, and no screen that is gone
\* has asked.
Shown ==
  /\ \A m \in Models \ live : served[m] = "none"
  /\ \A m \in Models :
       Top(m) /\ link = "new" /\ served[m] = "set" /\ mainTodo \notin Destroying =>
         command = "start" \/ (service /\ command = "none")

\* A binder's variables agree, and it is registered only while its ViewModel is
\* started: a start never finds the callbacks of an earlier one.
Binder(m) ==
  /\ ~registered[m] => told[m] = {} /\ bound[m] = Default
  /\ vpns[m] = IF Vpn \in told[m] THEN 1 ELSE 0
  /\ lan[m] # Default => lan[m] \in told[m]
  /\ bound[m] # Default =>
       \/ bound[m] \in told[m] /\ Vpn \in told[m]
       \/ workFor = m /\ workTodo = Reconcile
  /\ Vpn \in told[m] /\ ~shared[m] =>
       \/ bound[m] = lan[m]
       \/ workFor = m /\ workTodo = Reconcile
  /\ registered[m] => started[m] \/ (mainFor = m /\ mainTodo = Recreate2)
  /\ mainFor = m /\ mainTodo \in {Start5, Destroy3, Destroy2} => ~registered[m]
  /\ mainFor = m /\ mainTodo = Start5 => started[m]
  /\ mainFor = m /\ mainTodo \in {Start4, Start3} => registered[m]

Binders == \A m \in Models : Binder(m)

\* The pin is what a registered binder decided.
Backed == \E m \in Models : registered[m] /\ bound[m] = pin

\* When it has to be: a pin is there, a start is under way, or the native side
\* runs and no activity is going.
MustBeBacked ==
  \/ pin # Default /\ mainTodo \notin {Last1, Destroy3}
  \/ mainTodo \in {Start4, Start3, Start2, Start1}
  \/ manager /\ mainTodo \in {<< >>, Start5, Recreate3, Destroy5, Destroy4}

\* While no two threads owe the pin of one binder: each makes the one that binder
\* decided last, and the pin is backed or about to be.
Pins == ~crossed =>
  /\ workTodo = Reconcile2 => registered[workFor] /\ want["worker"] = bound[workFor]
  /\ mainTodo = Start3 => want["main"] = bound[mainFor]
  /\ mainTodo = Start3 /\ workTodo = Reconcile2 => mainFor # workFor
  /\ MustBeBacked => Backed \/ workTodo = Reconcile2 \/ mainTodo = Start3

IInv == TypeOK /\ Places /\ Sockets /\ Shown /\ Binders /\ Pins

\* Who owes a pin, by the lists.
LEMMA OwesIs ==
  ASSUME Places, NEW m \in Models
  PROVE  /\ Owes("main", m) <=> mainFor = m /\ mainTodo = Start3
         /\ Owes("worker", m) <=> workFor = m /\ workTodo = Reconcile2
BY MainPlace, WorkerPlace DEF Owes, mainFor, workFor

\* The lists are one another's in no case.
LEMMA Apart ==
  /\ << >> \notin Starting \cup Destroying \cup {Recreate3, Recreate2, Last1}
  /\ Recreate3 \notin Starting \cup Destroying \cup {Recreate2, Last1}
  /\ Recreate2 \notin Starting \cup Destroying \cup {Last1}
  /\ Last1 \notin Starting \cup Destroying
  /\ Starting \cap Destroying = {}
  /\ Start5 \notin {Start4, Start3, Start2, Start1}
  /\ Start4 \notin {Start3, Start2, Start1} /\ Start3 \notin {Start2, Start1}
  /\ Start2 # Start1
  /\ Destroy5 \notin {Destroy4, Destroy3, Destroy2} /\ Destroy4 \notin {Destroy3, Destroy2}
  /\ Destroy3 # Destroy2
  /\ << >> \notin {Reconcile, Reconcile2, Reconcile1}
  /\ Reconcile \notin {Reconcile2, Reconcile1} /\ Reconcile2 # Reconcile1
<1>1. << >> \notin Starting \cup Destroying \cup {Recreate3, Recreate2, Last1}
  BY Shapes DEF Starting, Destroying
<1>2. Recreate3 \notin Starting \cup Destroying \cup {Recreate2, Last1}
  BY Shapes DEF Starting, Destroying
<1>3. Recreate2 \notin Starting \cup Destroying \cup {Last1}
  BY Shapes DEF Starting, Destroying
<1>4. Last1 \notin Starting \cup Destroying
  BY Shapes DEF Starting, Destroying
<1>5. Starting \cap Destroying = {}
  <2>1. \A s \in Starting : Head(s) \in {"bind", "decide", "pin", "notify", "boot"}
    BY Shapes DEF Starting
  <2>2. \A s \in Destroying : Head(s) \in {"deafen", "unbind", "unpin", "halt"}
    BY Shapes DEF Destroying
  <2>3. QED
    BY <2>1, <2>2
<1>6. /\ Start5 \notin {Start4, Start3, Start2, Start1}
      /\ Start4 \notin {Start3, Start2, Start1} /\ Start3 \notin {Start2, Start1}
      /\ Start2 # Start1
  BY Shapes
<1>7. /\ Destroy5 \notin {Destroy4, Destroy3, Destroy2}
      /\ Destroy4 \notin {Destroy3, Destroy2} /\ Destroy3 # Destroy2
  BY Shapes
<1>8. /\ << >> \notin {Reconcile, Reconcile2, Reconcile1}
      /\ Reconcile \notin {Reconcile2, Reconcile1} /\ Reconcile2 # Reconcile1
  BY Shapes
<1>9. QED
  BY <1>1, <1>2, <1>3, <1>4, <1>5, <1>6, <1>7, <1>8

LEMMA Starts == Init => IInv
<1> SUFFICES ASSUME Init PROVE IInv
  OBVIOUS
<1>1. steps["main"] = << >> /\ steps["worker"] = << >> /\ who["main"] = 0 /\ who["worker"] = 0
  BY DEF Init, Threads
<1>2. Places
  BY <1>1 DEF Init, Places, mainTodo, workTodo, mainFor, workFor, MainLists, WorkerLists
<1>3. mainTodo = << >> /\ workTodo = << >> /\ mainFor = 0
  BY <1>1 DEF mainTodo, workTodo, mainFor
<1>4. TypeOK
  <2>1. steps \in [Threads -> Seq(Tasks)]
    BY DEF Init
  <2>2. QED
    BY <2>1 DEF Init, TypeOK
<1>5. Sockets /\ Shown /\ Pins
  BY <1>3, Apart DEF Init, Sockets, Shown, Pins, MustBeBacked, Starting, Destroying
<1>6. Binders
  BY <1>3, Apart, AppAssumption DEF Init, Binders, Binder, Starting, Destroying
<1>7. QED
  BY <1>2, <1>4, <1>5, <1>6 DEF IInv

-----------------------------------------------------------------------------
(* The native side and the service: no step of a binder *)

\* What TypeOK says of the threads.
LEMMA ThreadTypes ==
  ASSUME Places'
  PROVE  steps' \in [Threads -> Seq(Tasks)] /\ who' \in [Threads -> {0} \cup Models]
BY ListsAreSequences DEF Places

\* A thread with something to do is for a ViewModel.
LEMMA ForWhom ==
  ASSUME Places
  PROVE  /\ mainTodo # << >> => mainFor \in Models
         /\ workTodo # << >> => workFor \in Models
BY DEF Places, Threads, mainFor, workFor

\* What no binder, no pin and no thread takes part in keeps the binders' parts.
LEMMA BinderUntouched ==
  ASSUME IInv,
         UNCHANGED <<threadVars, binderVars, started, pin, want, manager, shared, crossed>>
  PROVE  /\ Places' /\ Binders' /\ Pins'
         /\ UNCHANGED <<mainTodo, workTodo, mainFor, workFor>>
<1>1. Places' /\ UNCHANGED <<mainTodo, workTodo, mainFor, workFor>>
  BY ThreadsKept DEF IInv
<1>2. Binders'
  BY <1>1 DEF IInv, Binders, Binder, binderVars
<1>3. Pins'
  BY <1>1 DEF IInv, Pins, Backed, MustBeBacked, binderVars
<1>4. QED
  BY <1>1, <1>2, <1>3

LEMMA ReopenStep == ASSUME IInv, Reopen PROVE IInv'
<1>1. Places' /\ Binders' /\ Pins' /\ UNCHANGED <<mainTodo, workTodo, mainFor, workFor>>
  BY BinderUntouched DEF Reopen, lifeVars
<1>2. TypeOK'
  BY DEF Reopen, IInv, TypeOK, lifeVars, binderVars, threadVars, callVars, serviceVars
<1>3. Sockets'
  BY <1>1 DEF Reopen, IInv, Sockets
<1>4. Shown'
  BY <1>1 DEF Reopen, IInv, Shown, Top, lifeVars, callVars, serviceVars
<1>5. QED
  BY <1>1, <1>2, <1>3, <1>4 DEF IInv

LEMMA RefreshDevicesStep == ASSUME IInv, RefreshDevices PROVE IInv'
<1>1. Places' /\ Binders' /\ Pins' /\ UNCHANGED <<mainTodo, workTodo, mainFor, workFor>>
  BY BinderUntouched DEF RefreshDevices, lifeVars, historyVars
<1>2. TypeOK'
  BY DEF RefreshDevices, IInv, TypeOK, lifeVars, binderVars, threadVars, callVars,
         serviceVars, historyVars
<1>3. Sockets'
  BY <1>1 DEF RefreshDevices, IInv, Sockets
<1>4. Shown'
  BY <1>1 DEF RefreshDevices, IInv, Shown, Top, lifeVars, callVars, serviceVars
<1>5. QED
  BY <1>1, <1>2, <1>3, <1>4 DEF IInv

\* A step that touches no socket keeps the sockets.
LEMMA SocketsUntouched ==
  ASSUME IInv, UNCHANGED <<mainTodo, workTodo, manager, sock, rebind, untold, pin>>
  PROVE  Sockets'
BY DEF IInv, Sockets

LEMMA CallStep ==
  ASSUME IInv, Established \/ Ended \/ ConnectFails \/ Disconnect
  PROVE  IInv'
<1>1. /\ UNCHANGED <<threadVars, binderVars, started, pin, want, manager, shared, crossed>>
      /\ UNCHANGED <<live, sock, rebind, listener, served, service, command, untold>>
  BY DEF Established, Ended, ConnectFails, Disconnect, lifeVars, nativeVars, serviceVars,
         historyVars
<1>2. Places' /\ Binders' /\ Pins' /\ UNCHANGED <<mainTodo, workTodo, mainFor, workFor>>
  BY <1>1, BinderUntouched
<1>3. Sockets'
  BY <1>1, <1>2, SocketsUntouched
<1>4. device' \in [Models -> BOOLEAN] /\ link' \in {"none", "new", "again"}
  BY DEF Established, Ended, ConnectFails, Disconnect, Heard, IInv, TypeOK
<1>5. TypeOK'
  BY <1>1, <1>4 DEF IInv, TypeOK, threadVars, binderVars
<1>6. Shown'
  <2>1. link' = "new" => link = "new" \/ \A m \in live : served[m] # "set"
    BY DEF Established, Ended, ConnectFails, Disconnect, Unforgotten
  <2>2. QED
    BY <1>1, <1>2, <2>1 DEF IInv, Shown, Top
<1>7. QED
  BY <1>2, <1>3, <1>5, <1>6 DEF IInv

LEMMA ServiceStep ==
  ASSUME IInv, ShowNotification \/ EndItself \/ StopService
  PROVE  IInv'
<1>1. /\ UNCHANGED <<threadVars, binderVars, started, pin, want, manager, shared, crossed>>
      /\ UNCHANGED <<live, sock, rebind, listener, device, served, untold>>
  BY DEF ShowNotification, EndItself, StopService, lifeVars, nativeVars, callVars,
         historyVars
<1>2. Places' /\ Binders' /\ Pins' /\ UNCHANGED <<mainTodo, workTodo, mainFor, workFor>>
  BY <1>1, BinderUntouched
<1>3. Sockets'
  BY <1>1, <1>2, SocketsUntouched
<1>4. /\ link' \in {"none", "new", "again"} /\ service' \in BOOLEAN
      /\ command' \in {"none", "start", "stop"}
  BY DEF ShowNotification, EndItself, StopService, Unlinked, callVars, IInv, TypeOK
<1>5. TypeOK'
  BY <1>1, <1>4 DEF IInv, TypeOK, threadVars, binderVars
<1>6. Shown'
  <2>1. CASE ShowNotification
    BY <1>1, <1>2, <2>1 DEF ShowNotification, callVars, IInv, Shown, Top
  <2>2. CASE EndItself
    BY <1>1, <1>2, <2>2 DEF EndItself, Unlinked, IInv, Shown, Top
  <2>3. CASE StopService
    BY <1>1, <1>2, <2>3 DEF StopService, callVars, IInv, Shown, Top
  <2>4. QED
    BY <2>1, <2>2, <2>3
<1>7. QED
  BY <1>2, <1>3, <1>5, <1>6 DEF IInv

LEMMA EffectStep == ASSUME IInv, NEW m \in Models, Effect(m) PROVE IInv'
<1>1. /\ UNCHANGED <<threadVars, binderVars, started, pin, want, manager, shared, crossed>>
      /\ UNCHANGED <<live, sock, rebind, listener, link, device, service, untold>>
  BY DEF Effect, lifeVars, nativeVars, historyVars
<1>2. Places' /\ Binders' /\ Pins' /\ UNCHANGED <<mainTodo, workTodo, mainFor, workFor>>
  BY <1>1, BinderUntouched
<1>3. Sockets'
  BY <1>1, <1>2, SocketsUntouched
<1>4. /\ served' \in [Models -> {"none", "null", "set"}]
      /\ command' \in {"none", "start", "stop"}
  BY DEF Effect, Now, IInv, TypeOK
<1>5. TypeOK'
  BY <1>1, <1>4 DEF IInv, TypeOK, threadVars, binderVars
<1>6. Shown'
  <2>1. \A o \in Models : Top(o) => o = m
    BY DEF Effect, Top, Models
  <2>2. served' = [served EXCEPT ![m] = Now(m)] /\ served \in [Models -> {"none", "null", "set"}]
    BY DEF Effect, IInv, TypeOK
  <2>3. m \in live /\ (command' = "start" \/ served'[m] = "null")
    BY <2>2 DEF Effect, Top, Now
  <2>4. QED
    BY <1>1, <1>2, <2>1, <2>2, <2>3 DEF IInv, Shown, Top
<1>7. QED
  BY <1>2, <1>3, <1>5, <1>6 DEF IInv

LEMMA CreateStep == ASSUME IInv, Create PROVE IInv'
<1>1. /\ UNCHANGED <<threadVars, binderVars, started, pin, want, manager, shared, crossed>>
      /\ UNCHANGED <<sock, rebind, listener, link, device, served, service, command, untold>>
  BY DEF Create, nativeVars, callVars, serviceVars, historyVars
<1>2. Places' /\ Binders' /\ Pins' /\ UNCHANGED <<mainTodo, workTodo, mainFor, workFor>>
  BY <1>1, BinderUntouched
<1>3. Sockets'
  BY <1>1, <1>2, SocketsUntouched
<1>4. PICK m \in Models : (\A o \in live : o < m) /\ live' = live \cup {m}
  BY DEF Create
<1>5. TypeOK'
  BY <1>1, <1>4 DEF IInv, TypeOK, threadVars, binderVars
<1>6. Shown'
  <2>1. live \subseteq Models /\ m \notin live
    BY <1>4 DEF IInv, TypeOK, Models
  <2>2. \A o \in Models : Top(o)' => o = m
    BY <1>4, <2>1 DEF Top, Models
  <2>3. served[m] = "none"
    BY <2>1 DEF IInv, Shown
  <2>4. QED
    BY <1>1, <1>4, <2>2, <2>3 DEF IInv, Shown
<1>7. QED
  BY <1>2, <1>3, <1>5, <1>6 DEF IInv

-----------------------------------------------------------------------------
(* The life cycle: a handler begins *)

\* The first lists, as a handler of the main thread finds them.
LEMMA FirstLists ==
  /\ <<"bind">> \o Reconcile \o <<"boot">> = Start5
  /\ Ending = Recreate3
  /\ <<"deafen", "unbind", "unpin", "halt", "unpin">> = Destroy5
  /\ {Start5, Recreate3, Destroy5} \subseteq MainLists \ {<< >>}
<1>1. <<"bind">> \o Reconcile \o <<"boot">> = Start5
  <2> DEFINE S == {"bind", "decide", "pin", "notify", "boot"}
             a == <<"bind">>
             b == <<"decide", "pin", "notify">>
             c == <<"boot">>
             d == <<"bind", "decide", "pin", "notify", "boot">>
  <2>1. /\ a \in Seq(S) /\ b \in Seq(S) /\ c \in Seq(S) /\ d \in Seq(S)
        /\ Len(a) = 1 /\ Len(b) = 3 /\ Len(c) = 1 /\ Len(d) = 5
        /\ d[1] = a[1] /\ d[2] = b[1] /\ d[3] = b[2] /\ d[4] = b[3] /\ d[5] = c[1]
    OBVIOUS
  <2> HIDE DEF S, a, b, c, d
  <2>2. /\ a \o b \in Seq(S) /\ Len(a \o b) = 4
        /\ \A i \in 1 .. 4 : (a \o b)[i] = IF i <= 1 THEN a[i] ELSE b[i - 1]
    <3>1. /\ a \o b \in Seq(S) /\ Len(a \o b) = Len(a) + Len(b)
          /\ \A i \in 1 .. Len(a) + Len(b) :
               (a \o b)[i] = IF i <= Len(a) THEN a[i] ELSE b[i - Len(a)]
      BY <2>1, ConcatProperties
    <3>2. QED
      BY <2>1, <3>1
  <2>3. /\ a \o b \o c \in Seq(S) /\ Len(a \o b \o c) = 5
        /\ \A i \in 1 .. 5 : (a \o b \o c)[i] = IF i <= 4 THEN (a \o b)[i] ELSE c[i - 4]
    BY <2>1, <2>2, ConcatProperties
  <2>4. \A i \in 1 .. 5 : (a \o b \o c)[i] = d[i]
    BY <2>1, <2>2, <2>3
  <2>5. a \o b \o c = d
    BY <2>1, <2>3, <2>4, SeqEqual
  <2>6. QED
    BY <2>5 DEF Reconcile, Start5, a, b, c, d
<1>2. {Start5, Recreate3, Destroy5} \subseteq MainLists \ {<< >>}
  BY Apart DEF MainLists, Starting, Destroying
<1>3. QED
  BY <1>1, <1>2 DEF Ending, Recreate3, Destroy5

\* While a handler begins, the pin is as much backed as before.
LEMMA HandlerPins ==
  ASSUME IInv, mainTodo = << >>, mainTodo' \in {Start5, Recreate3, Destroy5},
         UNCHANGED <<binderVars, pin, want, manager, crossed, workTodo, workFor>>
  PROVE  Pins'
<1>1. mainTodo' \notin {Start4, Start3, Start2, Start1, Last1, Destroy3}
  BY Apart DEF Starting, Destroying
<1>2. mainTodo \notin {Start3, Last1, Destroy3}
  BY Apart DEF Starting, Destroying
<1>3. MustBeBacked' => MustBeBacked
  BY <1>1, <1>2 DEF MustBeBacked
<1>4. Backed' <=> Backed
  BY DEF Backed, binderVars
<1>5. QED
  BY <1>1, <1>2, <1>3, <1>4 DEF IInv, Pins, binderVars

LEMMA StartStep == ASSUME IInv, NEW m \in Models, Start(m) PROVE IInv'
<1>1. mainTodo = << >> /\ Begin("main", m, Start5) /\ Start5 \in MainLists \ {<< >>}
  BY MainPlace, FirstLists DEF Start, IInv
<1>2. /\ Places' /\ mainFor' = m /\ mainTodo' = Start5
      /\ workTodo' = workTodo /\ workFor' = workFor
  BY <1>1, MainBegins DEF IInv
<1>3. /\ UNCHANGED <<binderVars, pin, want, manager, shared, crossed, live>>
      /\ UNCHANGED <<sock, rebind, listener, link, device, served, service, command, untold>>
      /\ started' = [started EXCEPT ![m] = TRUE] /\ ~started[m]
  BY DEF Start, nativeVars, callVars, serviceVars, historyVars
<1>4. TypeOK'
  BY <1>2, <1>3, ThreadTypes DEF IInv, TypeOK, Places, binderVars
<1>5. Sockets'
  BY <1>1, <1>2, <1>3, Apart DEF IInv, Sockets, Starting, Destroying
<1>6. Shown'
  BY <1>1, <1>2, <1>3, Apart DEF IInv, Shown, Top, Starting, Destroying
<1>7. Binders'
  <2>1. started \in [Models -> BOOLEAN]
    BY DEF IInv, TypeOK
  <2>2. ~registered[m]
    BY <1>1, <1>3, Apart DEF IInv, Binders, Binder
  <2>3. ASSUME NEW o \in Models PROVE Binder(o)'
    <3>1. Binder(o)
      BY DEF IInv, Binders
    <3>2. CASE o = m
      BY <1>1, <1>2, <1>3, <2>1, <2>2, <3>1, <3>2, Apart DEF Binder, binderVars
    <3>3. CASE o # m
      BY <1>1, <1>2, <1>3, <2>1, <3>1, <3>3, Apart DEF Binder, binderVars
    <3>4. QED
      BY <3>2, <3>3
  <2>4. QED
    BY <2>3 DEF Binders
<1>8. Pins'
  BY <1>1, <1>2, <1>3, HandlerPins
<1>9. QED
  BY <1>2, <1>4, <1>5, <1>6, <1>7, <1>8 DEF IInv

\* The end of an activity begins: the screen forgets what it asked for.
LEMMA EndStep ==
  ASSUME IInv, NEW m \in Models, Recreate(m) \/ Destroy(m)
  PROVE  IInv'
<1>1. mainTodo = << >>
  BY MainPlace DEF Recreate, Destroy, IInv
<1>2. PICK todo \in {Recreate3, Destroy5} :
        /\ Begin("main", m, todo)
        /\ todo = Destroy5 => live' = live \ {m}
        /\ todo = Recreate3 => live' = live /\ Top(m)
  <2>1. CASE Recreate(m)
    BY <2>1, FirstLists, Apart DEF Recreate, lifeVars, Destroying
  <2>2. CASE Destroy(m)
    BY <2>2, FirstLists, Apart DEF Destroy, Destroying
  <2>3. QED
    BY <2>1, <2>2
<1>3. /\ Places' /\ mainFor' = m /\ mainTodo' = todo
      /\ workTodo' = workTodo /\ workFor' = workFor
  BY <1>2, FirstLists, MainBegins DEF IInv
<1>4. /\ UNCHANGED <<binderVars, pin, want, manager, shared, crossed, started>>
      /\ UNCHANGED <<sock, rebind, listener, link, device, service, command, untold>>
      /\ served' = [served EXCEPT ![m] = "none"]
  BY DEF Recreate, Destroy, lifeVars, nativeVars, serviceVars, historyVars
<1>5. served \in [Models -> {"none", "null", "set"}] /\ live \subseteq Models
  BY DEF IInv, TypeOK
<1>6. TypeOK'
  BY <1>2, <1>3, <1>4, <1>5, ThreadTypes DEF IInv, TypeOK, Places, binderVars
<1>7. Sockets'
  BY <1>1, <1>3, <1>4, Apart DEF IInv, Sockets, Starting, Destroying
<1>8. Shown'
  <2>1. CASE todo = Destroy5
    BY <1>2, <1>3, <1>4, <1>5, <2>1 DEF IInv, Shown, Top, Destroying
  <2>2. CASE todo = Recreate3
    <3>1. \A o \in Models : Top(o) => o = m
      BY <1>2, <2>2 DEF Top, Models
    <3>2. QED
      BY <1>2, <1>4, <1>5, <2>2, <3>1 DEF IInv, Shown, Top
  <2>3. QED
    BY <2>1, <2>2
<1>9. Binders'
  <2>1. mainTodo' \notin {Start5, Start4, Start3, Destroy3, Destroy2, Recreate2}
    BY <1>3, Apart DEF Starting, Destroying
  <2>2. QED
    BY <1>1, <1>3, <1>4, <2>1, Apart DEF IInv, Binders, Binder, binderVars
<1>10. Pins'
  BY <1>1, <1>3, <1>4, HandlerPins
<1>11. QED
  BY <1>3, <1>6, <1>7, <1>8, <1>9, <1>10 DEF IInv

-----------------------------------------------------------------------------
(* A callback, and the three steps of a reconcile *)

\* A thread's step on a binder touches no socket that would have to follow, no
\* screen and no session.
LEMMA ShownUntouched ==
  ASSUME IInv, UNCHANGED <<live, link, served, command, service>>,
         mainTodo' \in Destroying <=> mainTodo \in Destroying
  PROVE  Shown'
BY DEF IInv, Shown, Top

\* Told, whatever the binder notes of the network.
LEMMA ToldStep ==
  ASSUME IInv, NEW m \in Models, NEW n \in Nets, Told(m, n),
         lan' \in [Models -> Lans \cup {Default}], vpns' \in [Models -> {0, 1}],
         \A o \in Models \ {m} : lan'[o] = lan[o] /\ vpns'[o] = vpns[o],
         vpns'[m] = IF Vpn \in told'[m] THEN 1 ELSE 0,
         lan'[m] # Default => lan'[m] \in told'[m]
  PROVE  IInv'
<1>1. workTodo = << >> /\ registered[m] /\ Begin("worker", m, Reconcile)
  BY WorkerPlace DEF Told, IInv
<1>2. /\ Places' /\ mainTodo' = mainTodo /\ mainFor' = mainFor
      /\ workFor' = m /\ workTodo' = Reconcile
  BY <1>1, WorkerBegins DEF IInv
<1>3. /\ UNCHANGED <<live, started, registered, bound, pin, want, manager, sock, rebind>>
      /\ UNCHANGED <<listener, link, device, served, service, command, untold>>
      /\ told' = [told EXCEPT ![m] = IF n \in @ THEN @ \ {n} ELSE @ \cup {n}]
      /\ shared' = [shared EXCEPT ![m] = FALSE] /\ crossed' = crossed
  BY DEF Told, lifeVars, nativeVars, callVars, serviceVars
<1>4. /\ told \in [Models -> SUBSET Nets] /\ registered \in [Models -> BOOLEAN]
      /\ shared \in [Models -> BOOLEAN]
  BY DEF IInv, TypeOK
<1>5. TypeOK'
  <2>1. told' \in [Models -> SUBSET Nets]
    BY <1>3, <1>4
  <2>2. shared' \in [Models -> BOOLEAN]
    BY <1>3, <1>4
  <2>3. QED
    BY <1>2, <1>3, <2>1, <2>2, ThreadTypes DEF IInv, TypeOK, Places
<1>6. Sockets'
  BY <1>1, <1>2, <1>3, Apart DEF IInv, Sockets
<1>7. Shown'
  BY <1>2, <1>3, ShownUntouched
<1>8. Binders'
  <2>1. ASSUME NEW o \in Models PROVE Binder(o)'
    <3>1. Binder(o)
      BY DEF IInv, Binders
    <3>2. CASE o = m
      BY <1>1, <1>2, <1>3, <1>4, <3>1, <3>2, Apart DEF Binder
    <3>3. CASE o # m
      BY <1>1, <1>2, <1>3, <1>4, <3>1, <3>3, Apart DEF Binder
    <3>4. QED
      BY <3>2, <3>3
  <2>2. QED
    BY <2>1 DEF Binders
<1>9. Pins'
  <2>1. (MustBeBacked' <=> MustBeBacked) /\ (Backed' <=> Backed)
    BY <1>2, <1>3 DEF MustBeBacked, Backed
  <2>2. workTodo # Reconcile2 /\ workTodo' # Reconcile2
    BY <1>1, <1>2, Apart
  <2>3. QED
    BY <1>2, <1>3, <2>1, <2>2 DEF IInv, Pins
<1>10. QED
  BY <1>2, <1>5, <1>6, <1>7, <1>8, <1>9 DEF IInv

LEMMA LanCallbackStep ==
  ASSUME IInv, NEW m \in Models, NEW n \in Lans, LanCallback(m, n)
  PROVE  IInv'
<1>1. /\ Told(m, n) /\ n \in Nets /\ n # Vpn /\ n # Default /\ vpns' = vpns
      /\ lan' = [lan EXCEPT ![m] = IF n \in told[m] THEN WithoutLan(m, n) ELSE n]
  BY AppAssumption DEF LanCallback, Nets
<1>2. /\ told \in [Models -> SUBSET Nets] /\ vpns \in [Models -> {0, 1}]
      /\ lan \in [Models -> Lans \cup {Default}]
      /\ vpns[m] = IF Vpn \in told[m] THEN 1 ELSE 0
      /\ lan[m] # Default => lan[m] \in told[m]
  BY DEF IInv, TypeOK, Binders, Binder
<1>3. told'[m] = IF n \in told[m] THEN told[m] \ {n} ELSE told[m] \cup {n}
  BY <1>1, <1>2 DEF Told
<1>4. lan'[m] = IF n \in told[m] THEN (IF lan[m] = n THEN Default ELSE lan[m]) ELSE n
  BY <1>1, <1>2 DEF WithoutLan
<1>5. lan'[m] # Default => lan'[m] \in told'[m]
  BY <1>2, <1>3, <1>4
<1>6. vpns'[m] = IF Vpn \in told'[m] THEN 1 ELSE 0
  BY <1>1, <1>2, <1>3
<1>7. /\ lan' \in [Models -> Lans \cup {Default}]
      /\ \A o \in Models \ {m} : lan'[o] = lan[o] /\ vpns'[o] = vpns[o]
  BY <1>1, <1>2, <1>4
<1>8. QED
  BY <1>1, <1>2, <1>5, <1>6, <1>7, ToldStep

LEMMA VpnCallbackStep ==
  ASSUME IInv, NEW m \in Models, VpnCallback(m)
  PROVE  IInv'
<1>1. /\ Told(m, Vpn) /\ Vpn \in Nets /\ Vpn \notin Lans /\ lan' = lan
      /\ vpns' = [vpns EXCEPT ![m] = IF Vpn \notin told[m] THEN @ + 1
                                     ELSE IF @ > 0 THEN @ - 1 ELSE @]
  BY AppAssumption DEF VpnCallback, Nets
<1>2. /\ told \in [Models -> SUBSET Nets] /\ vpns \in [Models -> {0, 1}]
      /\ lan \in [Models -> Lans \cup {Default}]
      /\ vpns[m] = IF Vpn \in told[m] THEN 1 ELSE 0
      /\ lan[m] # Default => lan[m] \in told[m]
  BY DEF IInv, TypeOK, Binders, Binder
<1>3. told'[m] = IF Vpn \in told[m] THEN told[m] \ {Vpn} ELSE told[m] \cup {Vpn}
  BY <1>1, <1>2 DEF Told
<1>4. vpns'[m] = IF Vpn \in told'[m] THEN 1 ELSE 0
  BY <1>1, <1>2, <1>3
<1>5. lan'[m] # Default => lan'[m] \in told'[m]
  BY <1>1, <1>2, <1>3
<1>6. /\ vpns' \in [Models -> {0, 1}]
      /\ \A o \in Models \ {m} : lan'[o] = lan[o] /\ vpns'[o] = vpns[o]
  BY <1>1, <1>2, <1>4
<1>7. QED
  BY <1>1, <1>2, <1>4, <1>5, <1>6, ToldStep

\* A binder decides for nothing it does not know to be up, beside a VPN.
LEMMA WantedIs ==
  ASSUME IInv, NEW m \in Models, NEW sharing \in BOOLEAN
  PROVE  /\ Wanted(m, sharing) \in Lans \cup {Default}
         /\ Wanted(m, sharing) # Default =>
              Wanted(m, sharing) \in told[m] /\ Vpn \in told[m]
         /\ Vpn \in told[m] /\ ~(sharing /\ vpns[m] > 0 /\ lan[m] # Default) =>
              Wanted(m, sharing) = lan[m]
<1>1. lan[m] \in Lans \cup {Default} /\ vpns[m] \in {0, 1}
  BY DEF IInv, TypeOK
<1>2. /\ vpns[m] = IF Vpn \in told[m] THEN 1 ELSE 0
      /\ lan[m] # Default => lan[m] \in told[m]
  BY DEF IInv, Binders, Binder
<1>3. QED
  BY <1>1, <1>2 DEF Wanted

\* What Decide does to one binder, whichever thread decides.
LEMMA Decides ==
  ASSUME IInv, NEW t \in Threads, Decide(t), who[t] \in Models
  PROVE  /\ UNCHANGED <<live, started, told, registered, lan, vpns, pin, manager, sock,
                        rebind, listener, link, device, served, service, command,
                        untold>>
         /\ bound' \in [Models -> Lans \cup {Default}]
         /\ want' \in [Threads -> Lans \cup {Default}]
         /\ shared' \in [Models -> BOOLEAN] /\ crossed' \in BOOLEAN
         /\ \A o \in Models \ {who[t]} : bound'[o] = bound[o] /\ shared'[o] = shared[o]
         /\ \A u \in Threads \ {t} : want'[u] = want[u]
         /\ bound'[who[t]] # Default =>
              bound'[who[t]] \in told[who[t]] /\ Vpn \in told[who[t]]
         /\ Vpn \in told[who[t]] /\ ~shared'[who[t]] => bound'[who[t]] = lan[who[t]]
         /\ \/ Skip(t, 3) /\ UNCHANGED <<bound, want, crossed>>
            \/ /\ Step(t) /\ registered[who[t]]
               /\ want'[t] = bound'[who[t]]
               /\ ~crossed' => ~crossed /\ \A u \in Threads \ {t} : ~Owes(u, who[t])
<1> DEFINE m == who[t]
<1>1. UNCHANGED <<live, started, told, registered, lan, vpns, pin, manager, sock, rebind,
                  listener, link, device, served, service, command, untold>>
  BY DEF Decide, lifeVars, nativeVars, callVars, serviceVars
<1>2. PICK sharing \in BOOLEAN :
        /\ shared' = [shared EXCEPT ![m] = sharing /\ vpns[m] > 0 /\ lan[m] # Default]
        /\ IF Wanted(m, sharing) = bound[m]
           THEN Skip(t, 3) /\ UNCHANGED <<bound, want, crossed>>
           ELSE /\ bound' = [bound EXCEPT ![m] = Wanted(m, sharing)]
                /\ want' = [want EXCEPT ![t] = Wanted(m, sharing)]
                /\ crossed' = (crossed \/ \E u \in Threads \ {t} : Owes(u, m))
                /\ Skip(t, 1)
  BY DEF Decide
<1>3. /\ bound \in [Models -> Lans \cup {Default}] /\ m \in Models
      /\ want \in [Threads -> Lans \cup {Default}]
      /\ shared \in [Models -> BOOLEAN] /\ crossed \in BOOLEAN
  BY DEF IInv, TypeOK
<1> DEFINE desired == Wanted(m, sharing)
           kept == sharing /\ vpns[m] > 0 /\ lan[m] # Default
<1>4. /\ desired \in Lans \cup {Default} /\ kept \in BOOLEAN
      /\ desired # Default => desired \in told[m] /\ Vpn \in told[m]
      /\ Vpn \in told[m] /\ ~kept => desired = lan[m]
  BY <1>3, WantedIs
<1>5. ~registered[m] => told[m] = {} /\ bound[m] = Default
  BY <1>3 DEF IInv, Binders, Binder
<1>6. /\ shared' = [shared EXCEPT ![m] = kept]
      /\ desired = bound[m] => Skip(t, 3) /\ UNCHANGED <<bound, want, crossed>>
      /\ desired # bound[m] =>
           /\ bound' = [bound EXCEPT ![m] = desired] /\ want' = [want EXCEPT ![t] = desired]
           /\ crossed' = (crossed \/ \E u \in Threads \ {t} : Owes(u, m))
           /\ Step(t)
  BY <1>2 DEF Step
<1> HIDE DEF desired, kept, m
<1>7. /\ shared' \in [Models -> BOOLEAN] /\ shared'[m] = kept
      /\ \A o \in Models \ {m} : shared'[o] = shared[o]
  BY <1>3, <1>4, <1>6
<1>8. CASE desired = bound[m]
  BY <1>1, <1>3, <1>4, <1>6, <1>7, <1>8 DEF m
<1>9. CASE desired # bound[m]
  <2>1. /\ bound' \in [Models -> Lans \cup {Default}] /\ bound'[m] = desired
        /\ want' \in [Threads -> Lans \cup {Default}] /\ want'[t] = desired
        /\ \A o \in Models \ {m} : bound'[o] = bound[o]
        /\ \A u \in Threads \ {t} : want'[u] = want[u]
    BY <1>3, <1>4, <1>6, <1>9
  <2>2. /\ crossed' \in BOOLEAN
        /\ ~crossed' => ~crossed /\ \A u \in Threads \ {t} : ~Owes(u, m)
    BY <1>3, <1>6, <1>9, Zenon
  <2>3. registered[m]
    BY <1>4, <1>5, <1>9
  <2>4. QED
    BY <1>1, <1>4, <1>6, <1>7, <1>9, <2>1, <2>2, <2>3 DEF m
<1>10. QED
  BY <1>8, <1>9

LEMMA MainDecides == ASSUME IInv, Decide("main") PROVE IInv'
<1>1. mainTodo = Start4 /\ "main" \in Threads /\ "worker" \in Threads
  BY MainPlace DEF Decide, IInv, Threads
<1>2. mainFor \in Models /\ mainFor = who["main"] /\ mainTodo # << >>
  BY <1>1, Apart, ForWhom DEF IInv, Starting, mainFor
<1>3. /\ UNCHANGED <<live, started, told, registered, lan, vpns, pin, manager, sock,
                     rebind, listener, link, device, served, service, command,
                     untold>>
      /\ bound' \in [Models -> Lans \cup {Default}]
      /\ want' \in [Threads -> Lans \cup {Default}]
      /\ shared' \in [Models -> BOOLEAN] /\ crossed' \in BOOLEAN
      /\ \A o \in Models \ {mainFor} : bound'[o] = bound[o] /\ shared'[o] = shared[o]
      /\ want'["worker"] = want["worker"]
      /\ bound'[mainFor] # Default => bound'[mainFor] \in told[mainFor] /\ Vpn \in told[mainFor]
      /\ Vpn \in told[mainFor] /\ ~shared'[mainFor] => bound'[mainFor] = lan[mainFor]
  BY <1>1, <1>2, Decides
<1> DEFINE Owed == /\ want'["main"] = bound'[mainFor] /\ registered[mainFor]
                   /\ ~crossed' => ~crossed /\ ~Owes("worker", mainFor)
<1>4. \/ Skip("main", 3) /\ UNCHANGED <<bound, crossed>>
      \/ Step("main") /\ Owed
  BY <1>1, <1>2, Decides
<1>5. /\ Places' /\ workTodo' = workTodo /\ workFor' = workFor /\ mainFor' = mainFor
      /\ \/ mainTodo' = Start1 /\ UNCHANGED <<bound, crossed>>
         \/ mainTodo' = Start3 /\ Owed
  <2>1. Start3 # << >>
    BY Apart DEF Starting
  <2>2. CASE Skip("main", 3) /\ UNCHANGED <<bound, crossed>>
    BY <1>1, <2>2, MainJumps DEF IInv
  <2>3. CASE Step("main") /\ Owed
    BY <1>1, <1>2, <2>1, <2>3, MainMoves DEF IInv
  <2>4. QED
    BY <1>4, <2>2, <2>3
<1>6. TypeOK'
  BY <1>3, <1>5, ThreadTypes DEF IInv, TypeOK
<1>7. mainTodo \notin Destroying /\ mainTodo' \notin Destroying
  BY <1>1, <1>5, Apart DEF Starting, Destroying
<1>8. mainTodo' \notin {Recreate2, Last1, Start5, Destroy3, Destroy2, Start4, << >>,
                        Recreate3, Destroy5, Destroy4}
  BY <1>5, <1>7, Apart DEF Starting, Destroying
<1>9. mainTodo \notin {Recreate2, Last1, Start5, Destroy3, Destroy2, Start2}
  BY <1>1, <1>7, Apart DEF Starting, Destroying
<1>10. Sockets'
  BY <1>3, <1>5, <1>7, <1>8, <1>9 DEF IInv, Sockets
<1>11. Shown'
  BY <1>3, <1>7, ShownUntouched
<1>12. Binders'
  <2>1. ASSUME NEW o \in Models PROVE Binder(o)'
    <3>1. Binder(o)
      BY DEF IInv, Binders
    <3>2. CASE o = mainFor
      BY <1>1, <1>3, <1>5, <1>8, <1>9, <3>1, <3>2 DEF Binder
    <3>3. CASE o # mainFor
      BY <1>3, <1>5, <1>8, <1>9, <3>1, <3>3 DEF Binder
    <3>4. QED
      BY <3>2, <3>3
  <2>2. QED
    BY <2>1 DEF Binders
<1>13. Pins'
  <2>1. SUFFICES ASSUME ~crossed' PROVE Pins'
    BY DEF Pins
  <2>2. ~crossed /\ MustBeBacked
    BY <1>1, <1>5, <2>1 DEF MustBeBacked
  <2>3. workTodo = Reconcile2 =>
          registered'[workFor] /\ want'["worker"] = want["worker"] /\ want["worker"] = bound[workFor]
    BY <1>3, <2>2 DEF IInv, Pins
  <2>4. CASE mainTodo' = Start1 /\ UNCHANGED <<bound, crossed>>
    <3>1. Backed' <=> Backed
      BY <1>3, <2>4 DEF Backed
    <3>2. mainTodo' # Start3 /\ mainTodo # Start3
      BY <1>1, <2>4, Apart
    <3>3. QED
      BY <1>5, <2>2, <2>3, <2>4, <3>1, <3>2 DEF IInv, Pins
  <2>5. CASE mainTodo' = Start3 /\ Owed
    <3>1. workTodo = Reconcile2 => workFor \in Models \ {mainFor}
      BY <1>2, <2>1, <2>5, OwesIs, ForWhom, Apart DEF IInv
    <3>2. workTodo = Reconcile2 => bound'[workFor] = bound[workFor]
      BY <1>3, <3>1
    <3>3. QED
      BY <1>5, <2>3, <2>5, <3>1, <3>2 DEF Pins
  <2>6. QED
    BY <1>5, <2>4, <2>5
<1>14. QED
  BY <1>5, <1>6, <1>10, <1>11, <1>12, <1>13 DEF IInv

LEMMA WorkerDecides == ASSUME IInv, Decide("worker") PROVE IInv'
<1>1. workTodo = Reconcile /\ "main" \in Threads /\ "worker" \in Threads
  BY WorkerPlace DEF Decide, IInv, Threads
<1>2. workFor \in Models /\ workFor = who["worker"] /\ workTodo # << >>
  BY <1>1, Apart, ForWhom DEF IInv, workFor
<1>3. /\ UNCHANGED <<live, started, told, registered, lan, vpns, pin, manager, sock,
                     rebind, listener, link, device, served, service, command,
                     untold>>
      /\ bound' \in [Models -> Lans \cup {Default}]
      /\ want' \in [Threads -> Lans \cup {Default}] /\ want'["main"] = want["main"]
      /\ shared' \in [Models -> BOOLEAN] /\ crossed' \in BOOLEAN
      /\ \A o \in Models \ {workFor} : bound'[o] = bound[o] /\ shared'[o] = shared[o]
      /\ bound'[workFor] # Default => bound'[workFor] \in told[workFor] /\ Vpn \in told[workFor]
      /\ Vpn \in told[workFor] /\ ~shared'[workFor] => bound'[workFor] = lan[workFor]
  BY <1>1, <1>2, Decides
<1> DEFINE Owed == /\ want'["worker"] = bound'[workFor] /\ registered[workFor]
                   /\ ~crossed' => ~crossed /\ ~Owes("main", workFor)
<1>4. \/ Skip("worker", 3) /\ UNCHANGED <<bound, crossed>>
      \/ Step("worker") /\ Owed
  BY <1>1, <1>2, Decides
<1>5. /\ Places' /\ mainTodo' = mainTodo /\ mainFor' = mainFor
      /\ \/ workTodo' = << >> /\ UNCHANGED <<bound, crossed>>
         \/ workTodo' = Reconcile2 /\ workFor' = workFor /\ Owed
  <2>1. Reconcile2 # << >>
    BY Apart
  <2>2. CASE Skip("worker", 3) /\ UNCHANGED <<bound, crossed>>
    BY <1>1, <2>2, WorkerJumps DEF IInv
  <2>3. CASE Step("worker") /\ Owed
    BY <1>1, <1>2, <2>1, <2>3, WorkerMoves DEF IInv
  <2>4. QED
    BY <1>4, <2>2, <2>3
<1>6. TypeOK'
  BY <1>3, <1>5, ThreadTypes DEF IInv, TypeOK
<1>7. Sockets'
  BY <1>1, <1>3, <1>5, Apart DEF IInv, Sockets
<1>8. Shown'
  BY <1>3, <1>5, ShownUntouched
<1>9. Binders'
  <2>1. ASSUME NEW o \in Models PROVE Binder(o)'
    <3>1. Binder(o)
      BY DEF IInv, Binders
    <3>2. CASE o = workFor
      BY <1>3, <1>5, <3>1, <3>2 DEF Binder
    <3>3. CASE o # workFor
      BY <1>3, <1>5, <3>1, <3>3 DEF Binder
    <3>4. QED
      BY <3>2, <3>3
  <2>2. QED
    BY <2>1 DEF Binders
<1>10. Pins'
  <2>1. SUFFICES ASSUME ~crossed' PROVE Pins'
    BY DEF Pins
  <2>2. ~crossed /\ workTodo # Reconcile2 /\ << >> # Reconcile2
    BY <1>1, <1>5, <2>1, Apart
  <2>3. MustBeBacked' <=> MustBeBacked
    BY <1>3, <1>5 DEF MustBeBacked
  <2>4. CASE workTodo' = << >> /\ UNCHANGED <<bound, crossed>>
    <3>1. Backed' <=> Backed
      BY <1>3, <2>4 DEF Backed
    <3>2. QED
      BY <1>3, <1>5, <2>2, <2>3, <2>4, <3>1 DEF IInv, Pins
  <2>5. CASE workTodo' = Reconcile2 /\ workFor' = workFor /\ Owed
    <3>1. mainTodo = Start3 => mainFor \in Models \ {workFor}
      BY <1>2, <2>1, <2>5, OwesIs, ForWhom, Apart DEF IInv, Starting
    <3>2. mainTodo = Start3 => bound'[mainFor] = bound[mainFor]
      BY <1>3, <3>1
    <3>3. QED
      BY <1>3, <1>5, <2>2, <2>5, <3>1, <3>2 DEF IInv, Pins
  <2>6. QED
    BY <1>5, <2>4, <2>5
<1>11. QED
  BY <1>5, <1>6, <1>7, <1>8, <1>9, <1>10 DEF IInv

LEMMA MainBinds == ASSUME IInv, BindProcess("main") PROVE IInv'
<1>1. mainTodo = Start3 /\ Step("main") /\ mainTodo # << >> /\ Start2 # << >>
  BY MainPlace, Apart DEF BindProcess, IInv, Starting
<1>2. /\ Places' /\ workTodo' = workTodo /\ workFor' = workFor /\ mainFor' = mainFor
      /\ mainTodo' = Start2
  BY <1>1, MainMoves DEF IInv
<1>3. /\ UNCHANGED <<live, started, binderVars, manager, sock, rebind, listener, link,
                     device, served, service, command, untold, shared>>
      /\ want' = [want EXCEPT !["main"] = Default] /\ pin' = want["main"]
      /\ crossed' \in BOOLEAN
      /\ ~crossed' => ~crossed \/ InOrder("main")
  BY DEF BindProcess, lifeVars, nativeVars, callVars, serviceVars, IInv, TypeOK
<1>4. want' \in [Threads -> Lans \cup {Default}] /\ pin' \in Lans \cup {Default}
  BY <1>3 DEF IInv, TypeOK, Threads
<1>5. TypeOK'
  BY <1>2, <1>3, <1>4, ThreadTypes DEF IInv, TypeOK, binderVars
<1>6. Sockets'
  BY <1>2, Apart DEF Sockets, Starting
<1>7. Shown'
  BY <1>1, <1>2, <1>3, Apart, ShownUntouched DEF Starting
<1>8. Binders'
  <2>1. mainTodo \notin {Recreate2} /\ mainTodo' \notin {Start5, Start4, Start3, Destroy3, Destroy2}
    BY <1>1, <1>2, Apart DEF Starting, Destroying
  <2>2. QED
    BY <1>2, <1>3, <2>1 DEF IInv, Binders, Binder, binderVars
<1>9. Pins'
  <2>1. SUFFICES ASSUME ~crossed' PROVE Pins'
    BY DEF Pins
  <2>2. mainFor \in Models /\ registered[mainFor]
    BY <1>1, ForWhom DEF IInv, Binders, Binder
  <2>3. /\ want["main"] = bound[mainFor]
        /\ workTodo = Reconcile2 => registered[workFor] /\ want["worker"] = bound[workFor]
    <3>1. CASE ~crossed
      BY <1>1, <3>1 DEF IInv, Pins
    <3>2. CASE InOrder("main")
      BY <3>2, WorkerPlace DEF InOrder, IInv, mainFor, Threads
    <3>3. QED
      BY <1>3, <2>1, <3>1, <3>2
  <2>4. Backed'
    BY <1>3, <2>2, <2>3 DEF Backed, binderVars
  <2>5. want'["worker"] = want["worker"] /\ Start2 # Start3
    BY <1>3, Apart DEF IInv, TypeOK, Threads
  <2>6. QED
    BY <1>2, <1>3, <2>3, <2>4, <2>5 DEF Pins, binderVars
<1>10. QED
  BY <1>2, <1>5, <1>6, <1>7, <1>8, <1>9 DEF IInv

LEMMA WorkerBinds == ASSUME IInv, BindProcess("worker") PROVE IInv'
<1>1. /\ workTodo = Reconcile2 /\ Step("worker") /\ workTodo # << >> /\ Reconcile1 # << >>
      /\ "worker" \in Threads
  BY WorkerPlace, Apart DEF BindProcess, IInv, Threads
<1>2. /\ Places' /\ mainTodo' = mainTodo /\ mainFor' = mainFor /\ workFor' = workFor
      /\ workTodo' = Reconcile1
  BY <1>1, WorkerMoves DEF IInv
<1>3. /\ UNCHANGED <<live, started, binderVars, manager, sock, rebind, listener, link,
                     device, served, service, command, untold, shared>>
      /\ want' = [want EXCEPT !["worker"] = Default] /\ pin' = want["worker"]
      /\ crossed' \in BOOLEAN
      /\ ~crossed' => ~crossed \/ InOrder("worker")
  BY DEF BindProcess, lifeVars, nativeVars, callVars, serviceVars, IInv, TypeOK
<1>4. want' \in [Threads -> Lans \cup {Default}] /\ pin' \in Lans \cup {Default}
  BY <1>1, <1>3 DEF IInv, TypeOK
<1>5. TypeOK'
  BY <1>2, <1>3, <1>4, ThreadTypes DEF IInv, TypeOK, binderVars
<1>6. Sockets'
  BY <1>2, <1>3 DEF IInv, Sockets
<1>7. Shown'
  BY <1>2, <1>3, ShownUntouched
<1>8. Binders'
  BY <1>1, <1>2, <1>3, Apart DEF IInv, Binders, Binder, binderVars
<1>9. Pins'
  <2>1. SUFFICES ASSUME ~crossed' PROVE Pins'
    BY DEF Pins
  <2>2. /\ registered[workFor] /\ want["worker"] = bound[workFor]
        /\ mainTodo = Start3 => want["main"] = bound[mainFor]
    <3>1. CASE ~crossed
      BY <1>1, <3>1 DEF IInv, Pins
    <3>2. CASE InOrder("worker")
      BY <3>2, MainPlace DEF InOrder, IInv, workFor, Threads
    <3>3. QED
      BY <1>3, <2>1, <3>1, <3>2
  <2>3. workFor \in Models
    BY <1>1, ForWhom DEF IInv
  <2>4. Backed'
    BY <1>3, <2>2, <2>3 DEF Backed, binderVars
  <2>5. want'["main"] = want["main"] /\ Reconcile1 # Reconcile2
    BY <1>3, Apart DEF IInv, TypeOK, Threads
  <2>6. QED
    BY <1>2, <1>3, <2>2, <2>4, <2>5 DEF Pins, binderVars
<1>10. QED
  BY <1>2, <1>5, <1>6, <1>7, <1>8, <1>9 DEF IInv

\* Telling the app leaves a request for a socket, or nobody to ask.
LEMMA Tells ==
  ASSUME IInv, NEW t \in Threads, Notify(t), who[t] \in Models
  PROVE  /\ UNCHANGED <<live, started, binderVars, pin, want, manager, sock, listener,
                        link, device, served, service, command, shared, crossed>>
         /\ rebind' \in BOOLEAN /\ untold' \in BOOLEAN
         /\ manager => rebind' \/ untold'
BY DEF Notify, AskForSocket, lifeVars, callVars, serviceVars, IInv, TypeOK

LEMMA MainNotifies == ASSUME IInv, Notify("main") PROVE IInv'
<1>1. /\ mainTodo = Start2 /\ Step("main") /\ mainTodo # << >> /\ Start1 # << >>
      /\ "main" \in Threads
  BY MainPlace, Apart DEF Notify, IInv, Starting, Threads
<1>2. /\ Places' /\ workTodo' = workTodo /\ workFor' = workFor /\ mainFor' = mainFor
      /\ mainTodo' = Start1
  BY <1>1, MainMoves DEF IInv
<1>3. who["main"] \in Models
  BY <1>1, ForWhom DEF IInv, mainFor
<1>4. TypeOK'
  BY <1>1, <1>2, <1>3, Tells, ThreadTypes DEF IInv, TypeOK, binderVars
<1>5. Sockets'
  BY <1>1, <1>2, <1>3, Tells, Apart DEF IInv, Sockets, Starting
<1>6. Shown'
  BY <1>1, <1>2, <1>3, Tells, Apart, ShownUntouched DEF Starting
<1>7. Binders'
  <2>1. mainTodo \notin {Recreate2} /\ mainTodo' \notin {Start5, Start4, Start3, Destroy3, Destroy2}
    BY <1>1, <1>2, Apart DEF Starting, Destroying
  <2>2. QED
    BY <1>1, <1>2, <1>3, <2>1, Tells DEF IInv, Binders, Binder, binderVars
<1>8. Pins'
  <2>1. MustBeBacked /\ (Backed' <=> Backed)
    BY <1>1, <1>3, Tells DEF MustBeBacked, Backed, binderVars
  <2>2. mainTodo # Start3 /\ mainTodo' # Start3
    BY <1>1, <1>2, Apart
  <2>3. QED
    BY <1>1, <1>2, <1>3, <2>1, <2>2, Tells DEF IInv, Pins, binderVars
<1>9. QED
  BY <1>2, <1>4, <1>5, <1>6, <1>7, <1>8 DEF IInv

LEMMA WorkerNotifies == ASSUME IInv, Notify("worker") PROVE IInv'
<1>1. /\ workTodo = Reconcile1 /\ Step("worker") /\ workTodo # << >> /\ "worker" \in Threads
  BY WorkerPlace, Apart DEF Notify, IInv, Threads
<1>2. /\ Places' /\ mainTodo' = mainTodo /\ mainFor' = mainFor /\ workTodo' = << >>
  BY <1>1, WorkerMoves DEF IInv
<1>3. who["worker"] \in Models
  BY <1>1, ForWhom DEF IInv, workFor
<1>4. /\ UNCHANGED <<live, started, binderVars, pin, want, manager, sock, listener,
                     link, device, served, service, command, shared, crossed>>
      /\ rebind' \in BOOLEAN /\ untold' \in BOOLEAN
      /\ manager => rebind' \/ untold'
  BY <1>1, <1>3, Tells
<1>5. TypeOK'
  BY <1>2, <1>4, ThreadTypes DEF IInv, TypeOK, binderVars
<1>6. Sockets'
  BY <1>2, <1>4 DEF IInv, Sockets
<1>7. Shown'
  BY <1>2, <1>4, ShownUntouched
<1>8. Binders'
  BY <1>1, <1>2, <1>4, Apart DEF IInv, Binders, Binder, binderVars
<1>9. Pins'
  <2>1. (MustBeBacked' <=> MustBeBacked) /\ (Backed' <=> Backed)
    BY <1>2, <1>4 DEF MustBeBacked, Backed, binderVars
  <2>2. QED
    BY <1>1, <1>2, <1>4, <2>1, Apart DEF IInv, Pins, binderVars
<1>10. QED
  BY <1>2, <1>5, <1>6, <1>7, <1>8, <1>9 DEF IInv

-----------------------------------------------------------------------------
(* bind, unbind, nativeStart and nativeStop *)

LEMMA RegisterStep == ASSUME IInv, Register PROVE IInv'
<1>1. mainTodo = Start5 /\ Step("main") /\ mainTodo # << >> /\ Start4 # << >>
  BY MainPlace, Apart DEF Register, IInv, Starting
<1>2. /\ Places' /\ workTodo' = workTodo /\ workFor' = workFor /\ mainFor' = mainFor
      /\ mainTodo' = Start4
  BY <1>1, MainMoves DEF IInv
<1>3. /\ UNCHANGED <<live, started, told, lan, vpns, bound, pin, want, manager, sock,
                     rebind, listener, link, device, served, service, command, untold,
                     shared, crossed>>
      /\ registered' = [registered EXCEPT ![mainFor] = TRUE]
  BY DEF Register, mainFor, lifeVars, nativeVars, callVars, serviceVars, historyVars
<1>4. mainFor \in Models /\ registered \in [Models -> BOOLEAN]
  BY <1>1, ForWhom DEF IInv, TypeOK
<1>5. registered' \in [Models -> BOOLEAN]
  BY <1>3, <1>4
<1>6. TypeOK'
  BY <1>2, <1>3, <1>5, ThreadTypes DEF IInv, TypeOK
<1>7. /\ mainTodo \notin Destroying \cup {Start2, Start4, Start3, Start1, Recreate2}
      /\ mainTodo' \notin Destroying \cup {Recreate2, Last1, Start5, Start3, Start2}
  BY <1>1, <1>2, Apart DEF Starting, Destroying
<1>8. Sockets'
  BY <1>2, <1>3, <1>7 DEF IInv, Sockets
<1>9. Shown'
  BY <1>3, <1>7, ShownUntouched
<1>10. ~registered[mainFor] /\ started[mainFor]
  BY <1>1, <1>4 DEF IInv, Binders, Binder
<1>11. Binders'
  <2>1. ASSUME NEW o \in Models PROVE Binder(o)'
    <3>1. Binder(o)
      BY DEF IInv, Binders
    <3>2. CASE o = mainFor
      BY <1>2, <1>3, <1>4, <1>7, <1>10, <3>1, <3>2 DEF Binder, Destroying
    <3>3. CASE o # mainFor
      BY <1>2, <1>3, <1>4, <1>7, <3>1, <3>3 DEF Binder, Destroying
    <3>4. QED
      BY <3>2, <3>3
  <2>2. QED
    BY <2>1 DEF Binders
<1>12. Pins'
  <2>1. SUFFICES ASSUME ~crossed PROVE Pins'
    BY <1>3 DEF Pins
  <2>2. registered'[mainFor] /\ bound[mainFor] = Default
    BY <1>3, <1>4, <1>10 DEF IInv, Binders, Binder
  <2>3. workTodo = Reconcile2 => registered'[workFor] /\ want["worker"] = bound[workFor]
    BY <1>3, <1>4, <2>1, Apart, ForWhom DEF IInv, Pins
  <2>4. Backed' \/ workTodo = Reconcile2
    <3>1. CASE pin = Default
      BY <1>3, <1>4, <2>2, <3>1 DEF Backed
    <3>2. CASE pin # Default
      <4>1. MustBeBacked
        BY <1>1, <3>2, Apart DEF MustBeBacked, Starting, Destroying
      <4>2. Backed => Backed'
        BY <1>3, <1>4 DEF Backed
      <4>3. QED
        BY <1>7, <2>1, <4>1, <4>2 DEF IInv, Pins
    <3>3. QED
      BY <3>1, <3>2
  <2>5. QED
    BY <1>2, <1>3, <1>7, <2>3, <2>4 DEF Pins
<1>13. QED
  BY <1>2, <1>6, <1>8, <1>9, <1>11, <1>12 DEF IInv

LEMMA UnregisterStep == ASSUME IInv, Unregister PROVE IInv'
<1>1. /\ mainTodo \in {Recreate2, Destroy4} /\ Step("main") /\ mainTodo # << >>
      /\ {Last1, Destroy3} \subseteq MainLists \ {<< >>}
  BY MainPlace, Apart DEF Unregister, IInv, Destroying, MainLists
<1>2. /\ Places' /\ workTodo' = workTodo /\ workFor' = workFor /\ mainFor' = mainFor
      /\ mainTodo = Recreate2 => mainTodo' = Last1
      /\ mainTodo = Destroy4 => mainTodo' = Destroy3
  BY <1>1, MainMoves DEF IInv
<1>3. /\ UNCHANGED <<live, started, pin, want, manager, sock, rebind, listener, link,
                     device, served, service, command, untold>>
      /\ registered' = [registered EXCEPT ![mainFor] = FALSE]
      /\ told' = [told EXCEPT ![mainFor] = {}]
      /\ lan' = [lan EXCEPT ![mainFor] = Default] /\ vpns' = [vpns EXCEPT ![mainFor] = 0]
      /\ bound' = [bound EXCEPT ![mainFor] = Default]
      /\ shared' = [shared EXCEPT ![mainFor] = FALSE]
      /\ crossed' = (crossed \/ Owes("worker", mainFor))
  BY DEF Unregister, mainFor, lifeVars, nativeVars, callVars, serviceVars
<1>4. /\ mainFor \in Models /\ registered \in [Models -> BOOLEAN] /\ crossed \in BOOLEAN
      /\ shared \in [Models -> BOOLEAN]
      /\ told \in [Models -> SUBSET Nets] /\ vpns \in [Models -> {0, 1}]
      /\ lan \in [Models -> Lans \cup {Default}] /\ bound \in [Models -> Lans \cup {Default}]
  BY <1>1, ForWhom DEF IInv, TypeOK
<1>5. /\ registered' \in [Models -> BOOLEAN] /\ shared' \in [Models -> BOOLEAN]
      /\ told' \in [Models -> SUBSET Nets] /\ vpns' \in [Models -> {0, 1}]
      /\ lan' \in [Models -> Lans \cup {Default}]
      /\ bound' \in [Models -> Lans \cup {Default}]
  BY <1>3, <1>4
<1>6. TypeOK'
  <2>1. crossed' \in BOOLEAN
    BY <1>3, <1>4 DEF Owes, At
  <2>2. QED
    BY <2>1, <1>2, <1>3, <1>5, ThreadTypes DEF IInv, TypeOK
<1>7. /\ mainTodo' \in {Last1, Destroy3}
      /\ mainTodo' \notin {Start5, Start4, Start3, Start2, Start1, Destroy2, Recreate2,
                           << >>, Recreate3, Destroy5, Destroy4}
      /\ mainTodo \notin {Start5, Start2, Destroy2, Destroy3}
  BY <1>1, <1>2, Apart DEF Starting, Destroying
<1>8. mainTodo = Recreate2 => mainTodo' = Last1 /\ ~manager
  BY <1>2 DEF IInv, Sockets
<1>9. mainTodo' \in Destroying <=> mainTodo \in Destroying
  BY <1>1, <1>2, Apart DEF Destroying
<1>10. Sockets'
  <2>1. mainTodo' = Last1 => mainTodo = Recreate2
    BY <1>1, <1>2, Apart DEF Destroying
  <2>2. QED
    BY <1>2, <1>3, <1>7, <1>8, <1>9, <2>1 DEF IInv, Sockets
<1>11. Shown'
  BY <1>3, <1>9, ShownUntouched
<1>12. Binders'
  <2>1. ASSUME NEW o \in Models PROVE Binder(o)'
    <3>1. Binder(o)
      BY DEF IInv, Binders
    <3>2. CASE o = mainFor
      <4>1. /\ ~registered'[o] /\ told'[o] = {} /\ lan'[o] = Default /\ vpns'[o] = 0
            /\ bound'[o] = Default
        BY <1>3, <1>4, <3>2
      <4>2. QED
        BY <1>7, <4>1 DEF Binder
    <3>3. CASE o # mainFor
      BY <1>2, <1>3, <1>4, <1>7, <3>1, <3>3 DEF Binder
    <3>4. QED
      BY <3>2, <3>3
  <2>2. QED
    BY <2>1 DEF Binders
<1>13. Pins'
  <2>1. SUFFICES ASSUME ~crossed' PROVE Pins'
    BY DEF Pins
  <2>2. ~crossed /\ (workTodo = Reconcile2 => workFor \in Models \ {mainFor})
    BY <1>3, <1>4, <2>1, OwesIs, ForWhom, Apart DEF IInv
  <2>3. workTodo = Reconcile2 => registered'[workFor] /\ want'["worker"] = bound'[workFor]
    BY <1>3, <1>4, <2>2 DEF IInv, Pins
  <2>4. ~MustBeBacked'
    BY <1>3, <1>7 DEF MustBeBacked
  <2>5. QED
    BY <1>2, <1>7, <2>3, <2>4 DEF Pins
<1>14. QED
  BY <1>2, <1>6, <1>10, <1>11, <1>12, <1>13 DEF IInv

LEMMA UnpinStep == ASSUME IInv, Unpin PROVE IInv'
<1>1. /\ mainTodo \in {Last1, Destroy3} /\ Step("main") /\ mainTodo # << >>
      /\ Destroy2 # << >>
  BY MainPlace, Apart DEF Unpin, IInv, Destroying
<1>2. /\ Places' /\ workTodo' = workTodo /\ workFor' = workFor
      /\ mainTodo = Last1 => mainTodo' = << >> /\ mainFor' = 0
      /\ mainTodo = Destroy3 => mainTodo' = Destroy2 /\ mainFor' = mainFor
  BY <1>1, MainMoves DEF IInv
<1>3. /\ UNCHANGED <<live, started, binderVars, want, manager, sock, rebind, listener,
                     link, device, served, service, command, untold, shared>>
      /\ pin' = Default /\ crossed' = (crossed /\ At("worker", "pin"))
  BY DEF Unpin, lifeVars, nativeVars, callVars, serviceVars
<1>4. TypeOK'
  BY <1>2, <1>3, ThreadTypes DEF IInv, TypeOK, binderVars
<1>5. /\ mainTodo' \in {<< >>, Destroy2}
      /\ mainTodo' \notin {Recreate2, Last1, Start5, Destroy3, Start4, Start3, Start2, Start1,
                           Recreate3, Destroy5, Destroy4}
      /\ mainTodo \notin {Recreate2, Start2}
  BY <1>1, <1>2, Apart DEF Starting, Destroying
<1>6. mainTodo' = << >> => ~manager
  <2>1. mainTodo' = << >> => mainTodo = Last1
    BY <1>1, <1>2
  <2>2. QED
    BY <2>1 DEF IInv, Sockets
<1>7. mainTodo' \in Destroying <=> mainTodo \in Destroying
  BY <1>1, <1>2, Apart DEF Destroying
<1>8. Sockets'
  BY <1>3, <1>5, <1>6 DEF Sockets, Destroying
<1>9. Shown'
  BY <1>3, <1>7, ShownUntouched
<1>10. Binders'
  <2>1. 0 \notin Models
    BY DEF Models
  <2>2. ASSUME NEW o \in Models, mainFor' = o, mainTodo' = Destroy2
        PROVE  ~registered[o]
    <3>1. mainTodo = Destroy3 /\ mainFor = o
      BY <1>1, <1>2, <2>1, <2>2
    <3>2. QED
      BY <3>1 DEF IInv, Binders, Binder
  <2>3. ASSUME NEW o \in Models PROVE Binder(o)'
    <3>1. Binder(o)
      BY DEF IInv, Binders
    <3>2. QED
      BY <1>2, <1>3, <1>5, <2>2, <3>1 DEF Binder, binderVars
  <2>4. QED
    BY <2>3 DEF Binders
<1>11. Pins'
  <2>1. SUFFICES ASSUME ~crossed' PROVE Pins'
    BY DEF Pins
  <2>2. ~crossed \/ workTodo # Reconcile2
    BY <1>3, <2>1, WorkerPlace DEF IInv
  <2>3. ~MustBeBacked'
    BY <1>3, <1>5, <1>6, Apart DEF MustBeBacked, Destroying
  <2>4. QED
    BY <1>2, <1>3, <1>5, <2>2, <2>3 DEF IInv, Pins, binderVars
<1>12. QED
  BY <1>2, <1>4, <1>8, <1>9, <1>10, <1>11 DEF IInv

LEMMA BootStep == ASSUME IInv, Boot PROVE IInv'
<1>1. mainTodo = Start1 /\ Step("main") /\ mainTodo # << >>
  BY MainPlace, Apart DEF Boot, IInv, Starting
<1>2. /\ Places' /\ workTodo' = workTodo /\ workFor' = workFor
      /\ mainTodo' = << >> /\ mainFor' = 0
  BY <1>1, MainMoves DEF IInv
<1>3. /\ UNCHANGED <<live, started, binderVars, pin, want, device, served, service,
                     command, shared, crossed>>
      /\ manager' = TRUE /\ rebind' = FALSE /\ untold' = FALSE /\ link' = "none"
      /\ sock' \in {pin, "none"} /\ listener' = mainFor
  BY DEF Boot, mainFor, lifeVars, serviceVars
<1>4. mainFor \in Models
  BY <1>1, ForWhom DEF IInv
<1>5. TypeOK'
  BY <1>2, <1>3, <1>4, ThreadTypes DEF IInv, TypeOK, binderVars
<1>6. mainTodo' \notin {Recreate2, Last1, Start5, Destroy3, Destroy2, Start4, Start3, Start2}
  BY <1>2, Apart DEF Starting, Destroying
<1>7. Sockets'
  BY <1>3, <1>6 DEF Sockets
<1>8. Shown'
  BY <1>3 DEF IInv, Shown
<1>9. Binders'
  <2>1. mainTodo \notin {Recreate2}
    BY <1>1, Apart DEF Starting
  <2>2. QED
    BY <1>2, <1>3, <1>6, <2>1 DEF IInv, Binders, Binder, binderVars
<1>10. Pins'
  <2>1. MustBeBacked /\ (Backed' <=> Backed)
    BY <1>1, <1>3 DEF MustBeBacked, Backed, binderVars
  <2>2. mainTodo # Start3
    BY <1>1, Apart
  <2>3. QED
    BY <1>2, <1>3, <1>6, <2>1, <2>2 DEF IInv, Pins, binderVars
<1>11. QED
  BY <1>2, <1>5, <1>7, <1>8, <1>9, <1>10 DEF IInv

LEMMA HaltStep == ASSUME IInv, Halt PROVE IInv'
<1>1. /\ mainTodo \in {Recreate3, Destroy2} /\ Step("main") /\ mainTodo # << >>
      /\ Recreate2 # << >> /\ Last1 # << >>
  BY MainPlace, Apart DEF Halt, IInv, Destroying
<1>2. /\ Places' /\ workTodo' = workTodo /\ workFor' = workFor /\ mainFor' = mainFor
      /\ mainTodo = Recreate3 => mainTodo' = Recreate2
      /\ mainTodo = Destroy2 => mainTodo' = Last1
  BY <1>1, MainMoves DEF IInv
<1>3. /\ UNCHANGED <<live, binderVars, pin, want, listener, device, served, service,
                     command, shared, crossed>>
      /\ started' = [started EXCEPT ![mainFor] = FALSE]
      /\ manager' = FALSE /\ sock' = "none" /\ rebind' = FALSE /\ link' = "none"
      /\ untold' = FALSE
  BY DEF Halt, mainFor, serviceVars
<1>4. mainFor \in Models /\ started \in [Models -> BOOLEAN]
  BY <1>1, ForWhom DEF IInv, TypeOK
<1>5. started' \in [Models -> BOOLEAN]
  BY <1>3, <1>4
<1>6. TypeOK'
  BY <1>2, <1>3, <1>5, ThreadTypes DEF IInv, TypeOK, binderVars
<1>7. /\ mainTodo' \in {Recreate2, Last1}
      /\ mainTodo' \notin {Start5, Destroy3, Destroy2, Start4, Start3, Start2, Start1}
      /\ mainTodo \notin {Recreate2, Last1, Destroy3}
  BY <1>1, <1>2, Apart DEF Starting, Destroying
<1>8. Sockets' /\ Shown'
  BY <1>3 DEF IInv, Sockets, Shown
<1>9. ~registered[mainFor] \/ mainTodo' = Recreate2
  BY <1>1, <1>2, <1>4 DEF IInv, Binders, Binder
<1>10. Binders'
  <2>1. ASSUME NEW o \in Models PROVE Binder(o)'
    <3>1. Binder(o)
      BY DEF IInv, Binders
    <3>2. CASE o = mainFor
      BY <1>2, <1>3, <1>4, <1>7, <1>9, <3>1, <3>2 DEF Binder, binderVars
    <3>3. CASE o # mainFor
      BY <1>2, <1>3, <1>4, <1>7, <3>1, <3>3 DEF Binder, binderVars
    <3>4. QED
      BY <3>2, <3>3
  <2>2. QED
    BY <2>1 DEF Binders
<1>11. Pins'
  <2>1. SUFFICES ASSUME ~crossed PROVE Pins'
    BY <1>3 DEF Pins
  <2>2. MustBeBacked' => MustBeBacked
    BY <1>1, <1>2, <1>3, <1>7, Apart DEF MustBeBacked, Destroying
  <2>3. Backed' <=> Backed
    BY <1>3 DEF Backed, binderVars
  <2>4. mainTodo # Start3
    BY <1>1, Apart DEF Starting, Destroying
  <2>5. QED
    BY <1>2, <1>3, <1>7, <2>1, <2>2, <2>3, <2>4 DEF IInv, Pins, binderVars
<1>12. QED
  BY <1>2, <1>6, <1>8, <1>10, <1>11 DEF IInv

LEMMA DeafenStep == ASSUME IInv, Deafen PROVE IInv'
<1>1. mainTodo = Destroy5 /\ Step("main") /\ mainTodo # << >> /\ Destroy4 # << >>
  BY MainPlace, Apart DEF Deafen, IInv, Destroying
<1>2. /\ Places' /\ workTodo' = workTodo /\ workFor' = workFor /\ mainFor' = mainFor
      /\ mainTodo' = Destroy4
  BY <1>1, MainMoves DEF IInv
<1>3. /\ UNCHANGED <<live, started, binderVars, pin, want, manager, sock, rebind, link,
                     served, service, command, untold, shared,
                     crossed>>
      /\ listener' = 0 /\ device' \in [Models -> BOOLEAN]
  BY DEF Deafen, lifeVars, nativeVars, serviceVars, historyVars, IInv, TypeOK
<1>4. TypeOK'
  BY <1>2, <1>3, ThreadTypes DEF IInv, TypeOK, binderVars
<1>5. /\ mainTodo' \notin {Recreate2, Last1, Start5, Destroy3, Destroy2, Start4, Start3,
                           Start2, Start1}
      /\ mainTodo \notin {Recreate2, Last1, Destroy3, Start3}
  BY <1>1, <1>2, Apart DEF Starting, Destroying
<1>6. mainTodo' \in Destroying /\ mainTodo \in Destroying
  BY <1>1, <1>2 DEF Destroying
<1>7. Sockets' /\ Shown'
  BY <1>3, <1>5, <1>6, ShownUntouched DEF Sockets
<1>8. Binders'
  BY <1>2, <1>3, <1>5 DEF IInv, Binders, Binder, binderVars
<1>9. Pins'
  <2>1. (MustBeBacked' => MustBeBacked) /\ (Backed' <=> Backed)
    BY <1>1, <1>2, <1>3, <1>5 DEF MustBeBacked, Backed, binderVars
  <2>2. QED
    BY <1>2, <1>3, <1>5, <2>1 DEF IInv, Pins, binderVars
<1>10. QED
  BY <1>2, <1>4, <1>7, <1>8, <1>9 DEF IInv

-----------------------------------------------------------------------------
(* Theorems *)

LEMMA Stutter == ASSUME IInv, UNCHANGED vars PROVE IInv'
<1>1. Places' /\ Binders' /\ Pins' /\ UNCHANGED <<mainTodo, workTodo, mainFor, workFor>>
  BY BinderUntouched DEF vars, lifeVars, nativeVars, historyVars
<1>2. TypeOK'
  BY DEF vars, IInv, TypeOK, lifeVars, binderVars, threadVars, nativeVars, callVars,
         serviceVars, historyVars
<1>3. Sockets' /\ Shown'
  BY <1>1, SocketsUntouched, ShownUntouched
     DEF vars, lifeVars, nativeVars, callVars, serviceVars, historyVars
<1>4. QED
  BY <1>1, <1>2, <1>3 DEF IInv

\* The inductive invariant: which list each thread is at, what a binder knows of
\* itself, and who owes whom a pin, a rebind or a notification meanwhile.
THEOREM AppInvariant == Spec => []IInv
<1>1. ASSUME IInv, [Next]_vars
      PROVE  IInv'
  <2>1. CASE \E m \in Models : \/ \E n \in Lans : LanCallback(m, n)
                               \/ VpnCallback(m)
    BY <1>1, <2>1, LanCallbackStep, VpnCallbackStep
  <2>2. CASE \E m \in Models : Start(m) \/ Recreate(m) \/ Destroy(m) \/ Effect(m)
    BY <1>1, <2>2, StartStep, EndStep, EffectStep
  <2>3. CASE \E t \in Threads : Reconciling(t)
    BY <1>1, <2>3, MainDecides, WorkerDecides, MainBinds, WorkerBinds, MainNotifies,
       WorkerNotifies DEF Reconciling, Threads
  <2>4. CASE MainStep \/ Create
    BY <1>1, <2>4, RegisterStep, UnregisterStep, UnpinStep, BootStep, HaltStep,
       DeafenStep, CreateStep DEF MainStep
  <2>5. CASE \/ Reopen \/ RefreshDevices \/ Established \/ Ended \/ ConnectFails
             \/ Disconnect \/ ShowNotification \/ EndItself \/ StopService
    BY <1>1, <2>5, ReopenStep, RefreshDevicesStep, CallStep, ServiceStep
  <2>6. CASE UNCHANGED vars
    BY <1>1, <2>6, Stutter
  <2>7. QED
    BY <1>1, <2>1, <2>2, <2>3, <2>4, <2>5, <2>6 DEF Next
<1>2. QED
  BY <1>1, Starts, PTL DEF Spec

\* Every variable keeps its type; the threads have only known tasks to do, so
\* every list of steps is one of those the handlers begin.
THEOREM AppTypes == Spec => []TypeOK
BY AppInvariant, PTL DEF IInv

\* However many networks and ViewModels there are: whenever both threads are
\* idle, discovery's socket is where new sockets would be, or is about to be
\* reopened, or a late callback of a stopped ViewModel moved the pin.
THEOREM SocketAlwaysFollows == Spec => []SocketFollows
<1>1. IInv => SocketFollows
  <2>1. SUFFICES ASSUME IInv, Quiet, manager, sock \notin {"none", "closed"}, ~rebind
                 PROVE  sock = pin \/ untold
    BY DEF SocketFollows
  <2>2. mainTodo = << >> /\ workTodo = << >>
    BY <2>1, MainPlace, WorkerPlace DEF IInv, Quiet, Threads
  <2>3. QED
    BY <2>1, <2>2, Apart DEF IInv, Sockets, Starting
<1>2. QED
  BY <1>1, AppInvariant, PTL

\* For every set of networks: whenever both threads are idle and the native side
\* runs, every registered binder has decided what the rule asks of what it knows,
\* and the process is bound to what one of them decided, unless two threads pinned
\* for one out of order and none has pinned in order since.
THEOREM PinAlwaysFollowsRule == Spec => []PinFollowsRule
<1>1. IInv => PinFollowsRule
  <2>1. SUFFICES ASSUME IInv, Quiet, manager
                 PROVE  /\ \A m \in Models : registered[m] => FollowsRule(m)
                        /\ crossed \/ \E m \in Models : registered[m] /\ pin = bound[m]
    BY DEF PinFollowsRule
  <2>2. mainTodo = << >> /\ workTodo = << >>
    BY <2>1, MainPlace, WorkerPlace DEF IInv, Quiet, Threads
  <2>3. \A m \in Models : registered[m] => FollowsRule(m)
    BY <2>1, <2>2, Apart DEF IInv, Binders, Binder, FollowsRule
  <2>4. crossed \/ \E m \in Models : registered[m] /\ pin = bound[m]
    BY <2>1, <2>2, Apart DEF IInv, Pins, MustBeBacked, Backed, Starting
  <2>5. QED
    BY <2>3, <2>4
<1>2. QED
  BY <1>1, AppInvariant, PTL

\* Both: discovery is on the pinned network, and the pin is what the rule asks for,
\* whenever the two threads are idle, with the exceptions untold and crossed.
THEOREM AlwaysOnTheRightNetwork == Spec => []OnTheRightNetwork
BY SocketAlwaysFollows, PinAlwaysFollowsRule, PTL DEF OnTheRightNetwork

\* A session that began on a screen that showed none, and that the activity on top
\* shows, does not run without its notification once the main thread has caught
\* up.  One that began while a screen still showed an earlier session (link is
\* "again") may, and sessions that no screen shows are not spoken of.
THEOREM NeverInSecret == Spec => []NotInSecret
<1>1. IInv => NotInSecret
  BY MainPlace, Apart DEF IInv, NotInSecret, Shown, Destroying
<1>2. QED
  BY <1>1, AppInvariant, PTL
=============================================================================
