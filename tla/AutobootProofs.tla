--------------------------- MODULE AutobootProofs ---------------------------
(***************************************************************************)
(* Proofs about autoboot.py for scripts of any length, with any statuses   *)
(* and any number of kernel messages: what the script takes for a command  *)
(* is that command's, steps keep their order, success is real, and an      *)
(* answer that has come is seen.                                           *)
(***************************************************************************)
EXTENDS Autoboot, SequenceTheorems, WellFoundedInduction, TLAPS

------------------------------------------------------------------------------
(* The invariants.                                                         *)

\* What the guest has written and the script has not taken.
Stream == buf \o out \o writing

Own(n) == {Line(n), Text(n), Like(n), Echo(n)}

Pieces == {Message, Ask}
          \cup {Line(n) : n \in DOMAIN steps} \cup {Text(n) : n \in DOMAIN steps}
          \cup {Like(n) : n \in DOMAIN steps} \cup {Echo(n) : n \in DOMAIN steps}
          \cup {Half(m, h, s) : m \in {"login", "prompt", "done"}, h \in {1, 2},
                                s \in Statuses}

TypedLines == {<<"root", 0>>, <<"push", 0>>, <<"echo", 0>>}
              \cup {<<"step", n>> : n \in 1..(next - 1)}

Types == /\ TypeOK
         /\ steps \in Seq(Kinds) /\ push \in BOOLEAN
         /\ buf \in Seq(Pieces) /\ out \in Seq(Pieces) /\ writing \in Seq(Pieces)
         /\ typed \in Seq(TypedLines)
         /\ shell \in {"boot", "getty", "shell"}
         /\ status \in Statuses
         /\ exits \in [DOMAIN steps -> Statuses \cup {None}]
         /\ log \in Seq(DOMAIN steps)
         /\ at = "wait" => next >= 2

\* The text that waits to be read holds the mark, in one piece.
HasMark(s, mark) == \E n \in 2..Len(s) : /\ s[n-1].what = mark /\ s[n-1].half = 1
                                         /\ s[n].what = mark /\ s[n].half = 2

NoneReads == \A n \in DOMAIN log : steps[log[n]] # "reads"

\* What expect waits for is written, or will be.
AnswerInv ==
    ~split =>
    /\ at = "boot" /\ shell # "boot" => HasMark(Stream, "login")
    /\ at = "login" => (shell = "getty" /\ typed # <<>>) \/ HasMark(Stream, "prompt")
    /\ at \in {"push", "wait"} /\ NoneReads =>
           \/ \E n \in DOMAIN typed : typed[n] = <<"echo", 0>>
           \/ HasMark(Stream, "done")

\* Nothing of a command but what is in V, and no sentinel, is in s.
OutputOf(p, V) == p.what \in Shown => p \in V
Silent(s, V) == \A k \in DOMAIN s : s[k].what # "done" /\ OutputOf(s[k], V)

Prints(s, n) == n > 0 /\ steps[n] = "cmd" => \E k \in DOMAIN s : s[k] = Line(n)

\* The sentinel of command n is in s, all its output before it, and no other.
Answered(s, V, n, val) ==
    \E i, j \in DOMAIN s :
        /\ i < j
        /\ s[i] = Half("done", 1, val) /\ s[j] = Half("done", 2, val)
        /\ \A k \in DOMAIN s : s[k].what = "done" => k \in {i, j}
        /\ \A k \in 1..(i - 1) : OutputOf(s[k], V \cup Own(n))
        /\ \A k \in DOMAIN s : k > i => OutputOf(s[k], V)
        /\ n > 0 /\ steps[n] = "cmd" => \E k \in 1..(i - 1) : s[k] = Line(n)

\* The background commands so far, and what they may print.
Background == {n \in 1..(next - 1) : steps[n] = "bg"}
Behind == {Line(n) : n \in Background}

Ran(n) == log = [i \in 1..n |-> i]

\* A mark is not there before it is written.
Lacks(s, mark) == \A k \in DOMAIN s : s[k].what # mark
Unwritten == /\ shell = "boot" => Lacks(Stream, "login")
             /\ shell # "shell" => Lacks(Stream, "prompt")

Booting == /\ shell \in {"boot", "getty"} /\ typed = <<>>
           /\ Silent(Stream, Behind)

LoggingIn == /\ \/ shell = "getty" /\ typed = <<<<"root", 0>>>>
                \/ shell = "shell" /\ typed = <<>>
             /\ Silent(Stream, Behind)

AtRest == /\ shell = "shell" /\ typed = <<>>
          /\ Silent(Stream, Behind)
          /\ Ran(next - 1)

\* A command (number n, 0 for a push) and the line that asks for its status:
\* both to be read, the second only, none.
Asked(n) == /\ typed = <<IF n = 0 THEN <<"push", 0>> ELSE <<"step", n>>,
                         <<"echo", 0>>>>
            /\ Silent(Stream, Behind)
            /\ Ran(n - 1)

Running(n) == /\ typed = <<<<"echo", 0>>>>
              /\ Silent(Stream, Behind \cup Own(n)) /\ Prints(Stream, n)
              /\ Ran(n) /\ (n > 0 => status = exits[n])

Done(n) == /\ typed = <<>>
           /\ \E s \in Statuses : /\ Answered(Stream, Behind, n, s)
                                  /\ n > 0 => s = exits[n]
           /\ Ran(n)

\* A command took the line that asks for its status: nothing comes.
Robbed(n) == typed = <<>> /\ Silent(Stream, Behind \cup Own(n)) /\ Ran(n)

Waiting(n) == shell = "shell" /\ (Asked(n) \/ Running(n) \/ Done(n) \/ Robbed(n))

\* What the properties say of step n, once its status is taken.
Settled(n) == got[n] # None =>
    /\ got[n] = exits[n]
    /\ steps[n] = "cmd" => Line(n) \in reported[n]
    /\ \A p \in reported[n] :
          p.val = n \/ (p = Line(p.val) /\ p.val < n /\ steps[p.val] = "bg")

\* Steps before n have been taken, and none from n on.
TakenUpTo(n) == /\ \A m \in DOMAIN steps : m >= n => got[m] = None
                /\ rc = 0 => /\ ~refused
                             /\ \A m \in DOMAIN steps :
                                    m < n => steps[m] = "key" \/ exits[m] = 0

\* Script and guest are at the same step.
Phase == /\ Unwritten
         /\ at = "boot" => Booting
         /\ at = "login" => LoggingIn
         /\ at = "ready" => AtRest
         /\ at \in {"push", "wait"} => Waiting(next - 1)

Books == /\ late \subseteq Background
         /\ \A n \in DOMAIN steps : Settled(n)
         /\ push \/ at \in {"boot", "login", "push"} => next = 1
         /\ at \in {"boot", "login"} => Ran(0)
         /\ at \in {"boot", "login", "push", "ready"} => TakenUpTo(next)
         /\ at = "wait" => TakenUpTo(next - 1)
         /\ at = "ended" /\ rc = 0 => /\ next = Len(steps) + 1 /\ TakenUpTo(next)
                                      /\ Ran(Len(steps))
         /\ \A n \in DOMAIN log : log[n] = n

InStep == Phase /\ Books

\* A command p has printed what looks like a sentinel: the steps before it are
\* settled, and those to come are after it.
OutOfStep(p) == /\ steps[p] = "prints" /\ next > p
                /\ p <= Len(log) /\ \A n \in 1..p : log[n] = n
                /\ \A n \in 1..(p - 1) : Settled(n)
                /\ ~push /\ shell = "shell"
                /\ \A n \in DOMAIN typed : typed[n][1] = "step" => typed[n][2] > p
                /\ at \in {"ready", "wait", "ended"}
                /\ at = "wait" => next - 1 >= p

StepInv == InStep \/ \E p \in DOMAIN steps : OutOfStep(p)
------------------------------------------------------------------------------
(* Sequences.                                                              *)

\* What a concatenation holds.
LEMMA Joined ==
    ASSUME NEW P, NEW a \in Seq(P), NEW b \in Seq(P)
    PROVE  /\ a \o b \in Seq(P) /\ Len(a \o b) = Len(a) + Len(b)
           /\ Len(a) \in Nat /\ Len(b) \in Nat /\ Len(a \o b) \in Nat
           /\ DOMAIN (a \o b) = 1..(Len(a) + Len(b))
           /\ DOMAIN a = 1..Len(a) /\ DOMAIN b = 1..Len(b)
           /\ \A k \in 1..Len(a) : (a \o b)[k] = a[k]
           /\ \A k \in 1..Len(b) : (a \o b)[Len(a) + k] = b[k]
           /\ \A k \in DOMAIN (a \o b) : k > Len(a) => (a \o b)[k] = b[k - Len(a)]
  BY ConcatProperties, LenProperties

LEMMA JoinsAssociate ==
    ASSUME NEW P, NEW a \in Seq(P), NEW b \in Seq(P), NEW c \in Seq(P)
    PROVE  (a \o b) \o c = a \o (b \o c)
  BY ConcatAssociative

\* A sequence in two pieces.
LEMMA Parted ==
    ASSUME NEW P, NEW a \in Seq(P), NEW n \in 0..Len(a)
    PROVE  /\ SubSeq(a, 1, n) \in Seq(P) /\ SubSeq(a, n + 1, Len(a)) \in Seq(P)
           /\ Len(SubSeq(a, 1, n)) = n /\ Len(SubSeq(a, n + 1, Len(a))) = Len(a) - n
           /\ \A k \in 1..n : SubSeq(a, 1, n)[k] = a[k]
           /\ \A k \in 1..(Len(a) - n) : SubSeq(a, n + 1, Len(a))[k] = a[n + k]
           /\ SubSeq(a, 1, n) \o SubSeq(a, n + 1, Len(a)) = a
  <1>1. /\ SubSeq(a, 1, n) \in Seq(P) /\ Len(SubSeq(a, 1, n)) = n
        /\ \A k \in 1..n : SubSeq(a, 1, n)[k] = a[k]
    BY SubSeqProperties, LenProperties
  <1>2. /\ SubSeq(a, n + 1, Len(a)) \in Seq(P)
        /\ Len(SubSeq(a, n + 1, Len(a))) = Len(a) - n
        /\ \A k \in 1..(Len(a) - n) : SubSeq(a, n + 1, Len(a))[k] = a[n + k]
    BY SubSeqProperties, LenProperties
  <1> DEFINE b == SubSeq(a, 1, n)
             c == SubSeq(a, n + 1, Len(a))
  <1> HIDE DEF b, c
  <1>3. b \in Seq(P) /\ c \in Seq(P) /\ Len(b) = n /\ Len(c) = Len(a) - n
        /\ (\A k \in 1..n : b[k] = a[k]) /\ (\A k \in 1..(Len(a) - n) : c[k] = a[n + k])
    BY <1>1, <1>2 DEF b, c
  <1>4. b \o c = a
    <2>1. b \o c \in Seq(P) /\ Len(b \o c) = Len(a)
      BY <1>3, Joined, LenProperties
    <2>2. ASSUME NEW k \in 1..Len(a) PROVE (b \o c)[k] = a[k]
      <3>0. Len(a) \in Nat /\ n \in Nat /\ DOMAIN (b \o c) = 1..Len(a)
        BY <1>3, <2>1, LenProperties
      <3>1. /\ \A i \in 1..Len(b) : (b \o c)[i] = b[i]
            /\ \A i \in DOMAIN (b \o c) : i > Len(b) => (b \o c)[i] = c[i - Len(b)]
        BY <1>3, Joined
      <3>2. CASE k <= n
        <4>1. k \in 1..n
          BY <3>0, <3>2
        <4> QED  BY <4>1, <1>3, <3>1
      <3>3. CASE k > n
        <4>1. (b \o c)[k] = c[k - n]
          BY <1>3, <3>0, <3>1, <3>3
        <4>2. k - n \in 1..(Len(a) - n) /\ n + (k - n) = k
          BY <3>0, <3>3
        <4> QED  BY <4>1, <4>2, <1>3
      <3> QED  BY <3>0, <3>2, <3>3
    <2> QED  BY <2>1, <2>2, SeqEqual
  <1> QED  BY <1>1, <1>2, <1>4 DEF b, c

\* An element more at the seam of two sequences.
LEMMA Inserted ==
    ASSUME NEW P, NEW a \in Seq(P), NEW b \in Seq(P), NEW e \in P
    PROVE  LET s == a \o b
               t == Append(a, e) \o b
           IN  /\ t \in Seq(P) /\ Len(t) = Len(s) + 1 /\ Len(a) \in Nat
               /\ Len(s) = Len(a) + Len(b) /\ Len(s) \in Nat
               /\ \A k \in 1..Len(a) : t[k] = s[k]
               /\ \A k \in (Len(a) + 1)..Len(s) : t[k + 1] = s[k]
               /\ t[Len(a) + 1] = e
               /\ \A k \in 1..Len(t) : \/ k <= Len(a) /\ t[k] = s[k]
                                       \/ k = Len(a) + 1 /\ t[k] = e
                                       \/ /\ k > Len(a) + 1 /\ k - 1 \in 1..Len(s)
                                          /\ t[k] = s[k - 1]
  <1> DEFINE c == Append(a, e)
  <1>1. /\ c \in Seq(P) /\ Len(c) = Len(a) + 1
        /\ \A k \in 1..Len(a) : c[k] = a[k]
        /\ c[Len(a) + 1] = e
    BY AppendProperties, LenProperties
  <1> HIDE DEF c
  <1> DEFINE s == a \o b
             t == c \o b
  <1>2. /\ Len(a) \in Nat /\ Len(b) \in Nat /\ Len(s) = Len(a) + Len(b)
        /\ \A k \in 1..Len(a) : s[k] = a[k]
        /\ \A k \in 1..Len(b) : s[Len(a) + k] = b[k]
    BY Joined
  <1>3. /\ t \in Seq(P) /\ Len(t) = Len(a) + 1 + Len(b)
        /\ \A k \in 1..(Len(a) + 1) : t[k] = c[k]
        /\ \A k \in 1..Len(b) : t[Len(a) + 1 + k] = b[k]
    <2>1. /\ t \in Seq(P) /\ Len(t) = Len(c) + Len(b)
          /\ \A k \in 1..Len(c) : t[k] = c[k]
          /\ \A k \in 1..Len(b) : t[Len(c) + k] = b[k]
      <3>1. c \in Seq(P)
        BY <1>1
      <3> QED  BY <3>1, Joined
    <2> QED  BY <1>1, <2>1
  <1> HIDE DEF s, t
  <1>4. \A k \in 1..Len(a) : t[k] = s[k]
    BY <1>1, <1>2, <1>3
  <1>5. ASSUME NEW k \in (Len(a) + 1)..Len(s) PROVE t[k + 1] = s[k]
    <2>0. Len(a) \in Nat /\ Len(b) \in Nat /\ Len(s) = Len(a) + Len(b) /\ k \in Nat
      BY <1>2
    <2>1. /\ k - Len(a) \in 1..Len(b) /\ Len(a) + (k - Len(a)) = k
          /\ Len(a) + 1 + (k - Len(a)) = k + 1
      BY <2>0
    <2>2. s[Len(a) + (k - Len(a))] = b[k - Len(a)]
      BY <2>1, <1>2
    <2>3. t[Len(a) + 1 + (k - Len(a))] = b[k - Len(a)]
      BY <2>1, <1>3
    <2> QED  BY <2>1, <2>2, <2>3
  <1>6. t[Len(a) + 1] = e
    BY <1>1, <1>2, <1>3
  <1>7. ASSUME NEW k \in 1..Len(t)
        PROVE  \/ k <= Len(a) /\ t[k] = s[k]
               \/ k = Len(a) + 1 /\ t[k] = e
               \/ k > Len(a) + 1 /\ k - 1 \in 1..Len(s) /\ t[k] = s[k - 1]
    <2>1. CASE k <= Len(a)
      BY <2>1, <1>4, <1>2
    <2>2. CASE k = Len(a) + 1
      BY <2>2, <1>6
    <2>3. CASE k > Len(a) + 1
      <3>1. k - 1 \in (Len(a) + 1)..Len(s) /\ (k - 1) + 1 = k /\ k - 1 \in 1..Len(s)
        BY <2>3, <1>2, <1>3
      <3>2. t[(k - 1) + 1] = s[k - 1]
        BY <3>1, <1>5
      <3> QED  BY <2>3, <3>1, <3>2
    <2> QED  BY <2>1, <2>2, <2>3, <1>2
  <1> QED  BY <1>2, <1>3, <1>4, <1>5, <1>6, <1>7 DEF c, s, t

------------------------------------------------------------------------------
(* What is written, put in, and taken out keeps of the text that waits.    *)

\* A piece that is no part of a sentinel, put in anywhere.
LEMMA SilentInsert ==
    ASSUME NEW P, NEW a \in Seq(P), NEW b \in Seq(P), NEW e \in P, NEW V,
           Silent(a \o b, V), e.what # "done", OutputOf(e, V)
    PROVE  Silent(Append(a, e) \o b, V)
  <1> DEFINE s == a \o b
             t == Append(a, e) \o b
  <1>1. /\ t \in Seq(P) /\ s \in Seq(P)
        /\ \A k \in 1..Len(t) : \/ k <= Len(a) /\ t[k] = s[k]
                                \/ k = Len(a) + 1 /\ t[k] = e
                                \/ /\ k > Len(a) + 1 /\ k - 1 \in 1..Len(s)
                                   /\ t[k] = s[k - 1]
        /\ Len(s) = Len(a) + Len(b) /\ Len(a) \in Nat /\ Len(b) \in Nat
    BY Inserted, Joined, SMTT(30)
  <1>2. \A k \in DOMAIN s : s[k].what # "done" /\ OutputOf(s[k], V)
    BY DEF Silent
  <1> HIDE DEF s, t
  <1>3. DOMAIN s = 1..Len(s) /\ DOMAIN t = 1..Len(t)
    BY <1>1, LenProperties
  <1>4. ASSUME NEW k \in 1..Len(t) PROVE t[k].what # "done" /\ OutputOf(t[k], V)
    <2>0. k <= Len(a) => k \in 1..Len(s)
      BY <1>1
    <2>1. t[k] = e \/ \E i \in 1..Len(s) : t[k] = s[i]
      BY <1>1, <2>0
    <2> QED  BY <2>1, <1>2, <1>3
  <1>5. Silent(t, V)
    BY <1>3, <1>4 DEF Silent
  <1> QED  BY <1>5 DEF t

LEMMA SilentMore ==
    ASSUME NEW s, NEW V, NEW W, V \subseteq W, Silent(s, V)
    PROVE  Silent(s, W)
  BY DEF Silent, OutputOf

\* A mark stays in one piece, unless something comes between its halves.
LEMMA MarkInsert ==
    ASSUME NEW P, NEW a \in Seq(P), NEW b \in Seq(P), NEW e \in P, NEW mark,
           HasMark(a \o b, mark), b = <<>> \/ b[1].half # 2
    PROVE  HasMark(Append(a, e) \o b, mark)
  <1> DEFINE s == a \o b
             t == Append(a, e) \o b
  <1>1. /\ t \in Seq(P) /\ Len(t) = Len(s) + 1
        /\ \A k \in 1..Len(a) : t[k] = s[k]
        /\ \A k \in (Len(a) + 1)..Len(s) : t[k + 1] = s[k]
        /\ Len(s) = Len(a) + Len(b) /\ Len(a) \in Nat /\ Len(b) \in Nat
        /\ b # <<>> => Len(b) >= 1 /\ s[Len(a) + 1] = b[1]
    <2>1. b # <<>> => Len(b) >= 1
      BY EmptySeq
    <2>2. Len(b) >= 1 => 1 \in 1..Len(b)
      BY LenProperties
    <2> QED  BY Inserted, Joined, <2>1, <2>2, SMTT(30)
  <1>2. b = <<>> => Len(b) = 0
    BY EmptySeq
  <1>3. PICK n \in 2..Len(s) : /\ s[n-1].what = mark /\ s[n-1].half = 1
                               /\ s[n].what = mark /\ s[n].half = 2
    BY DEF HasMark
  <1> HIDE DEF s, t
  <1>4. n # Len(a) + 1
    BY <1>1, <1>2, <1>3
  <1>5. CASE n <= Len(a)
    <2>1. t[n] = s[n] /\ t[n-1] = s[n-1] /\ n \in 2..Len(t)
      BY <1>1, <1>5
    <2>2. HasMark(t, mark)
      BY <2>1, <1>3 DEF HasMark
    <2> QED  BY <2>2 DEF t
  <1>6. CASE n > Len(a) + 1
    <2>0. n \in (Len(a) + 1)..Len(s) /\ n - 1 \in (Len(a) + 1)..Len(s)
          /\ (n - 1) + 1 = n /\ (n + 1) - 1 = n /\ n + 1 \in 2..Len(t)
      BY <1>1, <1>6
    <2>1. t[n + 1] = s[n] /\ t[(n - 1) + 1] = s[n - 1]
      BY <1>1, <2>0
    <2>2. /\ t[(n + 1) - 1].what = mark /\ t[(n + 1) - 1].half = 1
          /\ t[n + 1].what = mark /\ t[n + 1].half = 2
      BY <2>0, <2>1, <1>3
    <2>3. HasMark(t, mark)
      BY <2>0, <2>2 DEF HasMark
    <2> QED  BY <2>3 DEF t
  <1> QED  BY <1>1, <1>4, <1>5, <1>6

\* It is not lost by what is written after it or before it.
LEMMA MarkJoin ==
    ASSUME NEW P, NEW a \in Seq(P), NEW b \in Seq(P), NEW mark,
           HasMark(a, mark) \/ HasMark(b, mark)
    PROVE  HasMark(a \o b, mark)
  <1> DEFINE s == a \o b
  <1>1. /\ Len(s) = Len(a) + Len(b)
        /\ Len(a) \in Nat /\ Len(b) \in Nat
        /\ \A k \in 1..Len(a) : s[k] = a[k]
        /\ \A k \in 1..Len(b) : s[Len(a) + k] = b[k]
    BY Joined
  <1> HIDE DEF s
  <1>2. CASE HasMark(a, mark)
    <2>1. PICK n \in 2..Len(a) : /\ a[n-1].what = mark /\ a[n-1].half = 1
                                 /\ a[n].what = mark /\ a[n].half = 2
      BY <1>2 DEF HasMark
    <2>2. s[n] = a[n] /\ s[n-1] = a[n-1] /\ n \in 2..Len(s)
      BY <1>1
    <2>3. HasMark(s, mark)
      BY <2>1, <2>2 DEF HasMark
    <2> QED  BY <2>3 DEF s
  <1>3. CASE HasMark(b, mark)
    <2>1. PICK n \in 2..Len(b) : /\ b[n-1].what = mark /\ b[n-1].half = 1
                                 /\ b[n].what = mark /\ b[n].half = 2
      BY <1>3 DEF HasMark
    <2> DEFINE m == Len(a) + n
    <2>2. n \in 1..Len(b) /\ n - 1 \in 1..Len(b)
      BY <1>1
    <2>3. s[m] = b[n] /\ s[Len(a) + (n - 1)] = b[n - 1]
      BY <1>1, <2>2
    <2>4. Len(a) + (n - 1) = m - 1 /\ m \in 2..Len(s)
      BY <1>1
    <2>5. s[m] = b[n] /\ s[m - 1] = b[n - 1]
      BY <2>3, <2>4
    <2> HIDE DEF m
    <2>6. HasMark(s, mark)
      BY <2>1, <2>4, <2>5 DEF HasMark
    <2> QED  BY <2>6 DEF s
  <1> QED  BY <1>2, <1>3

\* The same of a sentinel and the output before it.
LEMMA AnsweredInsert ==
    ASSUME NEW P, NEW a \in Seq(P), NEW b \in Seq(P), NEW e \in P,
           NEW V, NEW n \in Nat, NEW val,
           Answered(a \o b, V, n, val), e.what # "done", OutputOf(e, V)
    PROVE  Answered(Append(a, e) \o b, V, n, val)
  <1> DEFINE s == a \o b
             t == Append(a, e) \o b
             At(k) == IF k <= Len(a) THEN k ELSE k + 1
  <1>1. /\ t \in Seq(P) /\ s \in Seq(P) /\ Len(t) = Len(s) + 1
        /\ \A k \in 1..Len(a) : t[k] = s[k]
        /\ \A k \in (Len(a) + 1)..Len(s) : t[k + 1] = s[k]
        /\ \A k \in 1..Len(t) : \/ k <= Len(a) /\ t[k] = s[k]
                                \/ k = Len(a) + 1 /\ t[k] = e
                                \/ /\ k > Len(a) + 1 /\ k - 1 \in 1..Len(s)
                                   /\ t[k] = s[k - 1]
        /\ Len(s) = Len(a) + Len(b) /\ Len(a) \in Nat /\ Len(b) \in Nat
    BY Inserted, Joined, SMTT(30)
  <1>2. PICK i, j \in DOMAIN s :
            /\ i < j
            /\ s[i] = Half("done", 1, val) /\ s[j] = Half("done", 2, val)
            /\ \A k \in DOMAIN s : s[k].what = "done" => k \in {i, j}
            /\ \A k \in 1..(i - 1) : OutputOf(s[k], V \cup Own(n))
            /\ \A k \in DOMAIN s : k > i => OutputOf(s[k], V)
            /\ n > 0 /\ steps[n] = "cmd" => \E k \in 1..(i - 1) : s[k] = Line(n)
    BY DEF Answered
  <1> HIDE DEF s, t
  <1>3. DOMAIN s = 1..Len(s) /\ DOMAIN t = 1..Len(t) /\ Len(s) \in Nat
    BY <1>1, LenProperties
  <1>a. \A k \in 1..Len(s) : /\ k <= Len(a) => At(k) = k
                             /\ k > Len(a) => At(k) = k + 1
    BY <1>1
  <1>n. Len(a) \in Nat /\ Len(s) \in Nat /\ Len(t) = Len(s) + 1
    BY <1>1
  <1>t. \A k \in 1..Len(t) : \/ k <= Len(a) /\ t[k] = s[k]
                             \/ k = Len(a) + 1 /\ t[k] = e
                             \/ /\ k > Len(a) + 1 /\ k - 1 \in 1..Len(s)
                                /\ t[k] = s[k - 1]
    BY <1>1
  <1> HIDE DEF At
  <1>4. ASSUME NEW k \in 1..Len(s) PROVE At(k) \in 1..Len(t) /\ t[At(k)] = s[k]
    <2>1. CASE k <= Len(a)
      <3>1. At(k) = k /\ t[k] = s[k] /\ k \in 1..Len(t)
        BY <1>1, <1>a, <2>1
      <3> QED  BY <3>1
    <2>2. CASE k > Len(a)
      <3>1. k \in (Len(a) + 1)..Len(s) /\ k + 1 \in 1..Len(t)
        BY <1>n, <2>2
      <3>2. At(k) = k + 1
        BY <1>a, <2>2
      <3>3. t[k + 1] = s[k]
        BY <1>1, <3>1
      <3> QED  BY <3>1, <3>2, <3>3
    <2> QED  BY <1>1, <2>1, <2>2
  <1>5. \A k, l \in 1..Len(s) : k < l => At(k) < At(l)
    BY <1>n, <1>a
  <1>6. ASSUME NEW k \in 1..Len(t)
        PROVE  t[k] = e \/ \E l \in 1..Len(s) : k = At(l) /\ t[k] = s[l]
    <2>1. CASE k <= Len(a)
      <3>1. k \in 1..Len(s) /\ t[k] = s[k]
        BY <1>1, <2>1
      <3>2. k = At(k)
        BY <3>1, <2>1, <1>a
      <3> QED  BY <3>1, <3>2
    <2>2. CASE k = Len(a) + 1
      BY <1>1, <2>2
    <2>3. CASE k > Len(a) + 1
      <3>1. k - 1 \in 1..Len(s) /\ t[k] = s[k - 1]
        BY <1>t, <1>n, <2>3, SMTT(30)
      <3>2. At(k - 1) = (k - 1) + 1
        BY <3>1, <2>3, <1>n, <1>a
      <3>3. (k - 1) + 1 = k
        OBVIOUS
      <3> QED  BY <3>1, <3>2, <3>3
    <2> QED  BY <1>1, <2>1, <2>2, <2>3
  <1>7. \A k, l \in 1..Len(s) : At(k) < At(l) => k < l
    BY <1>n, <1>a
  <1>8. At(i) \in DOMAIN t /\ At(j) \in DOMAIN t /\ At(i) \in Nat
        /\ t[At(i)] = s[i] /\ t[At(j)] = s[j]
    BY <1>2, <1>3, <1>4
  <1>9. At(i) < At(j)
    BY <1>2, <1>3, <1>5
  <1>10. ASSUME NEW k \in DOMAIN t, t[k].what = "done" PROVE k \in {At(i), At(j)}
    <2>1. PICK l \in 1..Len(s) : k = At(l) /\ t[k] = s[l]
      BY <1>3, <1>6, <1>10
    <2> QED  BY <2>1, <1>2, <1>3, <1>10
  <1>11. ASSUME NEW k \in 1..(At(i) - 1) PROVE OutputOf(t[k], V \cup Own(n))
    <2>1. k \in 1..Len(t) /\ k < At(i)
      BY <1>3, <1>8
    <2>2. CASE t[k] = e
      BY <2>2 DEF OutputOf
    <2>3. ASSUME NEW l \in 1..Len(s), k = At(l), t[k] = s[l]
          PROVE  OutputOf(t[k], V \cup Own(n))
      <3>1. l \in 1..(i - 1)
        BY <1>2, <1>3, <1>7, <2>1, <2>3
      <3> QED  BY <3>1, <1>2, <2>3
    <2> QED  BY <1>6, <2>1, <2>2, <2>3
  <1>12. ASSUME NEW k \in DOMAIN t, k > At(i) PROVE OutputOf(t[k], V)
    <2>1. k \in 1..Len(t)
      BY <1>3
    <2>2. ASSUME NEW l \in 1..Len(s), k = At(l), t[k] = s[l]
          PROVE  OutputOf(t[k], V)
      <3>1. l > i
        BY <1>2, <1>3, <1>7, <1>12, <2>2
      <3> QED  BY <3>1, <1>2, <1>3, <2>2
    <2> QED  BY <1>6, <2>1, <2>2
  <1>13. ASSUME n > 0, steps[n] = "cmd" PROVE \E k \in 1..(At(i) - 1) : t[k] = Line(n)
    <2>1. PICK k \in 1..(i - 1) : s[k] = Line(n)
      BY <1>2, <1>13
    <2>2. k \in 1..Len(s) /\ k < i /\ i \in 1..Len(s)
      BY <1>2, <1>3
    <2>3. At(k) \in 1..Len(t) /\ At(k) < At(i) /\ t[At(k)] = Line(n)
      BY <1>4, <1>5, <2>1, <2>2
    <2>4. At(k) \in 1..(At(i) - 1)
      BY <2>3, <1>8, <1>3
    <2> QED  BY <2>3, <2>4
  <1>14. Answered(t, V, n, val)
    <2>1. \A k \in DOMAIN t : t[k].what = "done" => k \in {At(i), At(j)}
      BY <1>10
    <2>2. \A k \in 1..(At(i) - 1) : OutputOf(t[k], V \cup Own(n))
      BY <1>11
    <2>3. \A k \in DOMAIN t : k > At(i) => OutputOf(t[k], V)
      BY <1>12
    <2>4. n > 0 /\ steps[n] = "cmd" => \E k \in 1..(At(i) - 1) : t[k] = Line(n)
      BY <1>13
    <2>5. t[At(i)] = Half("done", 1, val) /\ t[At(j)] = Half("done", 2, val)
      BY <1>8, <1>2
    <2> QED  BY <1>8, <1>9, <2>1, <2>2, <2>3, <2>4, <2>5 DEF Answered
  <1> QED  BY <1>14 DEF t

\* The two halves of a mark, and those of a sentinel and a prompt.
LEMMA MarkHalves ==
    ASSUME NEW mark, NEW val
    PROVE  /\ Mark(mark, val) \in Seq({Half(mark, h, val) : h \in {1, 2}})
           /\ Len(Mark(mark, val)) = 2
           /\ Mark(mark, val)[1] = Half(mark, 1, val)
           /\ Mark(mark, val)[2] = Half(mark, 2, val)
  BY DEF Mark

LEMMA TwoMarks ==
    ASSUME NEW val
    PROVE  LET m == Mark("done", val) \o Mark("prompt", 0)
           IN  /\ Len(m) = 4
               /\ m[1] = Half("done", 1, val) /\ m[2] = Half("done", 2, val)
               /\ m[3] = Half("prompt", 1, 0) /\ m[4] = Half("prompt", 2, 0)
  <1> DEFINE a == Mark("done", val)
             b == Mark("prompt", 0)
             P == {Half("done", h, val) : h \in {1, 2}}
                  \cup {Half("prompt", h, 0) : h \in {1, 2}}
  <1>1. a \in Seq(P) /\ b \in Seq(P)
    <2>1. /\ Half("done", 1, val) \in P /\ Half("done", 2, val) \in P
          /\ Half("prompt", 1, 0) \in P /\ Half("prompt", 2, 0) \in P
      OBVIOUS
    <2> HIDE DEF P
    <2> QED  BY <2>1 DEF Mark
  <1>2. /\ Len(a) = 2 /\ Len(b) = 2
        /\ a[1] = Half("done", 1, val) /\ a[2] = Half("done", 2, val)
        /\ b[1] = Half("prompt", 1, 0) /\ b[2] = Half("prompt", 2, 0)
    BY MarkHalves
  <1> HIDE DEF a, b, P
  <1>3. /\ Len(a \o b) = Len(a) + Len(b)
        /\ \A k \in 1..Len(a) : (a \o b)[k] = a[k]
        /\ \A k \in 1..Len(b) : (a \o b)[Len(a) + k] = b[k]
    BY <1>1, Joined
  <1>4. (a \o b)[1] = a[1] /\ (a \o b)[2] = a[2]
        /\ (a \o b)[2 + 1] = b[1] /\ (a \o b)[2 + 2] = b[2]
    BY <1>2, <1>3
  <1>5. /\ Len(a \o b) = 4
        /\ (a \o b)[1] = Half("done", 1, val) /\ (a \o b)[2] = Half("done", 2, val)
        /\ (a \o b)[3] = Half("prompt", 1, 0) /\ (a \o b)[4] = Half("prompt", 2, 0)
    BY <1>2, <1>3, <1>4
  <1> QED  BY <1>5 DEF a, b

\* The echo writes the sentinel behind the command's output.
LEMMA EchoAnswers ==
    ASSUME NEW P, NEW s \in Seq(P), NEW V, NEW n \in Nat, NEW val,
           Silent(s, V \cup Own(n)), Prints(s, n),
           Mark("done", val) \o Mark("prompt", 0) \in Seq(P)
    PROVE  Answered(s \o (Mark("done", val) \o Mark("prompt", 0)), V, n, val)
  <1> DEFINE m == Mark("done", val) \o Mark("prompt", 0)
             t == s \o m
             i == Len(s) + 1
             j == Len(s) + 2
  <1>2. /\ Len(m) = 4
        /\ m[1] = Half("done", 1, val) /\ m[2] = Half("done", 2, val)
        /\ m[3] = Half("prompt", 1, 0) /\ m[4] = Half("prompt", 2, 0)
    BY TwoMarks
  <1>3. m \in Seq(P)
    OBVIOUS
  <1> HIDE DEF m
  <1>4. /\ DOMAIN t = 1..(Len(s) + 4) /\ Len(s) \in Nat /\ DOMAIN s = 1..Len(s)
        /\ \A k \in 1..Len(s) : t[k] = s[k]
        /\ \A k \in 1..4 : t[Len(s) + k] = m[k]
    <2>1. /\ DOMAIN t = 1..(Len(s) + Len(m)) /\ Len(s) \in Nat /\ DOMAIN s = 1..Len(s)
          /\ \A k \in 1..Len(s) : t[k] = s[k]
          /\ \A k \in 1..Len(m) : t[Len(s) + k] = m[k]
      BY <1>3, Joined
    <2> QED  BY <2>1, <1>2
  <1> HIDE DEF t
  <1>5. /\ t[i] = Half("done", 1, val) /\ t[j] = Half("done", 2, val)
        /\ t[Len(s) + 3] = Half("prompt", 1, 0) /\ t[Len(s) + 4] = Half("prompt", 2, 0)
    BY <1>2, <1>4
  <1>6. ASSUME NEW k \in DOMAIN t, k > Len(s)
        PROVE  k = i \/ k = j \/ k = Len(s) + 3 \/ k = Len(s) + 4
    BY <1>4, <1>6
  <1>7. \A k \in 1..Len(s) : t[k].what # "done" /\ OutputOf(t[k], V \cup Own(n))
    BY <1>4 DEF Silent
  <1>8. \A k \in DOMAIN t : t[k].what = "done" => k \in {i, j}
    <2> SUFFICES ASSUME NEW k \in DOMAIN t, t[k].what = "done" PROVE k \in {i, j}
      OBVIOUS
    <2>1. k > Len(s)
      BY <1>4, <1>7
    <2> QED  BY <2>1, <1>5, <1>6 DEF Half
  <1>a. i - 1 = Len(s)
    BY <1>4
  <1>9. \A k \in 1..(i - 1) : OutputOf(t[k], V \cup Own(n))
    BY <1>7, <1>a
  <1>10. \A k \in DOMAIN t : k > i => OutputOf(t[k], V)
    BY <1>4, <1>5, <1>6 DEF OutputOf, Half, Shown
  <1>11. n > 0 /\ steps[n] = "cmd" => \E k \in 1..(i - 1) : t[k] = Line(n)
    BY <1>4, <1>a DEF Prints
  <1>12. i \in DOMAIN t /\ j \in DOMAIN t /\ i < j
    BY <1>4
  <1> HIDE DEF i, j
  <1>13. Answered(t, V, n, val)
    BY <1>5, <1>8, <1>9, <1>10, <1>11, <1>12 DEF Answered
  <1> QED  BY <1>13 DEF t, m

\* Where a match ends the sentinel ends; what is left after it is silent.
Taken(s, e, V, n, val) ==
    /\ s[e].val = val
    /\ \A k \in 1..e : OutputOf(s[k], V \cup Own(n))
    /\ \A k \in 1..(e - 2) : s[k].what # "done"
    /\ n > 0 /\ steps[n] = "cmd" => \E k \in 1..(e - 2) : s[k] = Line(n)
    /\ \A k \in 1..Len(s) : k > e => s[k].what # "done" /\ OutputOf(s[k], V)

LEMMA AnswerIsTaken ==
    ASSUME NEW P, NEW s \in Seq(P), NEW V, NEW n \in Nat, NEW val,
           Answered(s, V, n, val), NEW e \in 2..Len(s),
           s[e-1].what = "done", s[e-1].half = 1, s[e].what = "done", s[e].half = 2
    PROVE  Taken(s, e, V, n, val)
  <1>1. PICK i, j \in DOMAIN s :
            /\ i < j
            /\ s[i] = Half("done", 1, val) /\ s[j] = Half("done", 2, val)
            /\ \A k \in DOMAIN s : s[k].what = "done" => k \in {i, j}
            /\ \A k \in 1..(i - 1) : OutputOf(s[k], V \cup Own(n))
            /\ \A k \in DOMAIN s : k > i => OutputOf(s[k], V)
            /\ n > 0 /\ steps[n] = "cmd" => \E k \in 1..(i - 1) : s[k] = Line(n)
    BY DEF Answered
  <1>2. DOMAIN s = 1..Len(s) /\ Len(s) \in Nat
    BY LenProperties
  <1>3. s[i].half = 1 /\ s[j].half = 2
    BY <1>1 DEF Half
  <1>4. e \in DOMAIN s /\ e - 1 \in DOMAIN s
    BY <1>2
  <1>5. e = j /\ e - 1 = i
    BY <1>1, <1>3, <1>4
  <1>6. OutputOf(s[i], V \cup Own(n))
    <2>1. s[i].what = "done"
      BY <1>1 DEF Half
    <2> QED  BY <2>1 DEF OutputOf, Shown
  <1>7. \A k \in 1..e : OutputOf(s[k], V \cup Own(n))
    BY <1>1, <1>2, <1>5, <1>6 DEF OutputOf
  <1>8. \A k \in 1..Len(s) : k > e => s[k].what # "done" /\ OutputOf(s[k], V)
    BY <1>1, <1>2, <1>5
  <1>9. n > 0 /\ steps[n] = "cmd" => \E k \in 1..(e - 2) : s[k] = Line(n)
    BY <1>1, <1>2, <1>5
  <1>10. s[e].val = val
    BY <1>1, <1>5 DEF Half
  <1>11. \A k \in 1..(e - 2) : s[k].what # "done"
    BY <1>1, <1>2, <1>5
  <1> QED  BY <1>7, <1>8, <1>9, <1>10, <1>11 DEF Taken

------------------------------------------------------------------------------
(* What the steps do to the text that waits.                               *)

\* Every set of numbers that is not empty has a least one.
LEMMA LeastNumber ==
    ASSUME NEW T, T \subseteq Nat, T # {}
    PROVE  /\ Min(T) \in T
           /\ \A y \in T : Min(T) <= y
  <1>1. PICK x \in T : \A y \in T : <<y, x>> \notin OpToRel(<, Nat)
    BY NatLessThanWellFounded, WFMin
  <1>2. ASSUME NEW y \in T PROVE x <= y
    <2>1. x \in Nat /\ y \in Nat /\ ~(y < x)
      BY <1>1 DEF OpToRel
    <2> QED  BY <2>1
  <1>3. \E z \in T : \A y \in T : z <= y
    BY <1>2
  <1> QED  BY <1>3, Zenon DEF Min

LEMMA StreamFacts ==
    ASSUME Types
    PROVE  /\ Stream \in Seq(Pieces) /\ buf \o out \in Seq(Pieces)
           /\ Stream = (buf \o out) \o writing
           /\ Len(buf) \in Nat /\ Len(Stream) \in Nat /\ Len(buf) <= Len(Stream)
           /\ \A k \in 1..Len(buf) : Stream[k] = buf[k]
           /\ DOMAIN Stream = 1..Len(Stream) /\ DOMAIN buf = 1..Len(buf)
  <1>1. buf \in Seq(Pieces) /\ out \in Seq(Pieces) /\ writing \in Seq(Pieces)
    BY DEF Types
  <1> DEFINE x == buf \o out
             y == x \o writing
  <1>2. Stream = y
    BY DEF Stream
  <1>3. /\ x \in Seq(Pieces) /\ Len(x) = Len(buf) + Len(out)
        /\ Len(buf) \in Nat /\ Len(out) \in Nat /\ DOMAIN buf = 1..Len(buf)
        /\ \A k \in 1..Len(buf) : x[k] = buf[k]
    BY <1>1, Joined
  <1> HIDE DEF x
  <1>4. /\ y \in Seq(Pieces) /\ Len(y) = Len(x) + Len(writing) /\ Len(writing) \in Nat
        /\ Len(y) \in Nat /\ DOMAIN y = 1..Len(y)
        /\ \A k \in 1..Len(x) : y[k] = x[k]
    <2>1. x \in Seq(Pieces)
      BY <1>3
    <2>2. /\ y \in Seq(Pieces) /\ Len(y) = Len(x) + Len(writing) /\ Len(writing) \in Nat
          /\ \A k \in 1..Len(x) : y[k] = x[k]
      BY <1>1, <2>1, Joined
    <2> QED  BY <2>2, LenProperties
  <1> HIDE DEF y
  <1>5. \A k \in 1..Len(buf) : y[k] = buf[k]
    BY <1>3, <1>4
  <1> QED  BY <1>2, <1>3, <1>4, <1>5 DEF x, y

\* Reading moves text from the terminal to the buffer.
LEMMA ReadKeepsStream ==
    ASSUME Types, Read
    PROVE  Stream' = Stream /\ buf' \in Seq(Pieces) /\ out' \in Seq(Pieces)
  <1>1. PICK k \in 1..Len(out) : /\ buf' = buf \o SubSeq(out, 1, k)
                                 /\ out' = SubSeq(out, k + 1, Len(out))
    BY DEF Read, Appended
  <1>2. writing' = writing
    BY DEF Read, MayRead, guest
  <1>3. buf \in Seq(Pieces) /\ out \in Seq(Pieces)
    BY DEF Types
  <1> DEFINE x == SubSeq(out, 1, k)
             y == SubSeq(out, k + 1, Len(out))
  <1>4. x \in Seq(Pieces) /\ y \in Seq(Pieces) /\ x \o y = out
    <2>1. k \in 0..Len(out)
      BY <1>3, LenProperties
    <2> QED  BY <1>3, <2>1, Parted
  <1>5. buf' = buf \o x /\ out' = y
    BY <1>1
  <1> HIDE DEF x, y
  <1>6. (buf \o x) \o y = buf \o out
    <2>1. buf \in Seq(Pieces) /\ x \in Seq(Pieces) /\ y \in Seq(Pieces)
      BY <1>3, <1>4
    <2>2. (buf \o x) \o y = buf \o (x \o y)
      BY <2>1, JoinsAssociate, SMTT(30)
    <2> QED  BY <2>2, <1>4
  <1>7. buf \o x \in Seq(Pieces)
    BY <1>3, <1>4, Joined, SMTT(30)
  <1> QED  BY <1>2, <1>4, <1>5, <1>6, <1>7 DEF Stream

\* What the guest is writing goes to the terminal piece by piece.
LEMMA EmitKeepsStream ==
    ASSUME Types, Emit
    PROVE  Stream' = Stream /\ out' \in Seq(Pieces) /\ writing' \in Seq(Pieces)
  <1>1. /\ writing # <<>> /\ buf' = buf
        /\ out' = Append(out, Head(writing)) /\ writing' = Tail(writing)
    BY DEF Emit, script
  <1>2. buf \in Seq(Pieces) /\ out \in Seq(Pieces) /\ writing \in Seq(Pieces)
    BY DEF Types
  <1> DEFINE h == Head(writing)
             t == Tail(writing)
  <1>3. h \in Pieces /\ t \in Seq(Pieces)
    BY <1>1, <1>2, HeadTailProperties
  <1>4. <<h>> \o t = writing
    <2>1. Len(writing) >= 1 /\ Len(writing) \in Nat
      BY <1>1, <1>2, EmptySeq, LenProperties
    <2>2. SubSeq(writing, 1, Len(writing)) = <<writing[1]>> \o SubSeq(writing, 2, Len(writing))
      <3>1. 1 \in 1..Len(writing) /\ Len(writing) \in 1..Len(writing) /\ 1 + 1 = 2
        BY <2>1
      <3> QED  BY <3>1, <1>2, SubSeqRecursiveFirst
    <2>3. h = writing[1]
      OBVIOUS
    <2>4. t = SubSeq(writing, 2, Len(writing))
      BY <1>1, <1>2, TailIsSubSeq
    <2>5. SubSeq(writing, 1, Len(writing)) = writing
      BY <1>2, SubSeqFull
    <2> QED  BY <2>2, <2>3, <2>4, <2>5
  <1>5. out' = Append(out, h) /\ writing' = t
    BY <1>1
  <1> HIDE DEF h, t
  <1>6. Append(out, h) = out \o <<h>> /\ Append(out, h) \in Seq(Pieces)
        /\ <<h>> \in Seq(Pieces)
    BY <1>2, <1>3, AppendIsConcat, AppendProperties
  <1>7. (out \o <<h>>) \o t = out \o writing
    <2>1. out \in Seq(Pieces) /\ <<h>> \in Seq(Pieces) /\ t \in Seq(Pieces)
      BY <1>2, <1>3, <1>6
    <2>2. (out \o <<h>>) \o t = out \o (<<h>> \o t)
      BY <2>1, JoinsAssociate, SMTT(30)
    <2> QED  BY <2>2, <1>4
  <1>8. Stream = buf \o (out \o writing)
    BY <1>2, JoinsAssociate, SMTT(30) DEF Stream
  <1>9. (buf \o out') \o t = buf \o (out' \o t)
    <2>1. out' \in Seq(Pieces) /\ t \in Seq(Pieces)
      BY <1>3, <1>5, <1>6
    <2> QED  BY <2>1, <1>2, JoinsAssociate, SMTT(30)
  <1> QED  BY <1>1, <1>3, <1>5, <1>6, <1>7, <1>8, <1>9 DEF Stream

\* Others write between what the terminal has and what the guest is writing.
LEMMA OthersWrite ==
    ASSUME Types, NEW e \in Pieces, out' = Append(out, e), buf' = buf, writing' = writing
    PROVE  /\ Stream' = Append(buf \o out, e) \o writing
           /\ out' \in Seq(Pieces)
  <1>1. buf \in Seq(Pieces) /\ out \in Seq(Pieces) /\ writing \in Seq(Pieces)
    BY DEF Types
  <1>2. Append(out, e) = out \o <<e>> /\ out' \in Seq(Pieces) /\ <<e>> \in Seq(Pieces)
    BY <1>1, AppendIsConcat, AppendProperties
  <1>3. buf \o out \in Seq(Pieces)
    BY <1>1, Joined
  <1>4. Append(buf \o out, e) = (buf \o out) \o <<e>>
    BY <1>3, AppendIsConcat
  <1>5. (buf \o out) \o <<e>> = buf \o (out \o <<e>>)
    BY <1>1, <1>2, JoinsAssociate, SMTT(30)
  <1> QED  BY <1>2, <1>4, <1>5 DEF Stream

\* The guest starts to write when it has written all.
LEMMA GuestWrites ==
    ASSUME Types, NEW w \in Seq(Pieces), writing = <<>>, writing' = w,
           buf' = buf, out' = out
    PROVE  Stream' = Stream \o w
  <1>1. buf \o out \in Seq(Pieces)
    BY Joined DEF Types
  <1>2. (buf \o out) \o <<>> = buf \o out
    BY <1>1, ConcatEmptySeq
  <1> QED  BY <1>2 DEF Stream

\* A match and what came before it are taken out of the buffer.
LEMMA MatchTaken ==
    ASSUME Types, Matched, buf' = Rest, out' = out, writing' = writing
    PROVE  \E e \in 2..Len(buf) :
               /\ buf[e-1].what = Pattern /\ buf[e-1].half = 1
               /\ buf[e].what = Pattern /\ buf[e].half = 2
               /\ Consumed \in Seq(Pieces) /\ Len(Consumed) = e
               /\ \A k \in 1..e : Consumed[k] = Stream[k]
               /\ buf' \in Seq(Pieces)
               /\ Stream' \in Seq(Pieces)
               /\ Len(Stream') = Len(Stream) - e
               /\ \A k \in 1..Len(Stream') : Stream'[k] = Stream[e + k]
  <1> DEFINE e == Min(MatchEnds(buf))
  <1>1. buf \in Seq(Pieces) /\ out \in Seq(Pieces) /\ writing \in Seq(Pieces)
        /\ Len(buf) \in Nat
    BY LenProperties DEF Types
  <1>2. e \in MatchEnds(buf)
    <2>1. MatchEnds(buf) \subseteq Nat
      BY <1>1 DEF MatchEnds
    <2> QED  BY <2>1, LeastNumber DEF Matched
  <1>3. /\ e \in 2..Len(buf) /\ e \in 0..Len(buf) /\ e \in Nat
        /\ buf[e-1].what = Pattern /\ buf[e-1].half = 1
        /\ buf[e].what = Pattern /\ buf[e].half = 2
    BY <1>1, <1>2 DEF MatchEnds
  <1>4. Consumed = SubSeq(buf, 1, e)
    BY DEF Consumed
  <1> HIDE DEF e
  <1> DEFINE x == SubSeq(buf, 1, e)
             y == SubSeq(buf, e + 1, Len(buf))
  <1>5. /\ x \in Seq(Pieces) /\ y \in Seq(Pieces) /\ Len(x) = e
        /\ Len(y) = Len(buf) - e
        /\ \A k \in 1..e : x[k] = buf[k]
        /\ x \o y = buf
    BY <1>1, <1>3, Parted
  <1>6. Consumed = x /\ buf' = y
    BY <1>4, <1>5 DEF Rest
  <1> HIDE DEF x, y
  <1> DEFINE z == y \o out \o writing
  <1>7. Stream = x \o z /\ z \in Seq(Pieces)
    <2>1. /\ y \o out \in Seq(Pieces) /\ (x \o y) \o out = x \o (y \o out)
      <3>1. x \in Seq(Pieces) /\ y \in Seq(Pieces) /\ out \in Seq(Pieces)
        BY <1>1, <1>5
      <3>2. y \o out \in Seq(Pieces)
        BY <3>1, Joined, SMTT(30)
      <3>3. (x \o y) \o out = x \o (y \o out)
        BY <3>1, JoinsAssociate, SMTT(30)
      <3> QED  BY <3>2, <3>3
    <2>2. (x \o (y \o out)) \o writing = x \o z
      <3>1. x \in Seq(Pieces) /\ y \o out \in Seq(Pieces) /\ writing \in Seq(Pieces)
        BY <1>1, <1>5, <2>1
      <3> QED  BY <3>1, JoinsAssociate, SMTT(30)
    <2>3. z \in Seq(Pieces)
      BY <1>1, <2>1, Joined
    <2> QED  BY <2>1, <2>2, <2>3, <1>5 DEF Stream
  <1>8. Stream' = z
    BY <1>6 DEF Stream
  <1> HIDE DEF z
  <1>9. /\ Len(x \o z) = e + Len(z) /\ Len(z) \in Nat
        /\ \A k \in 1..e : (x \o z)[k] = x[k]
        /\ \A k \in 1..Len(z) : (x \o z)[e + k] = z[k]
    <2>1. x \in Seq(Pieces) /\ z \in Seq(Pieces)
      BY <1>5, <1>7
    <2>2. /\ Len(x \o z) = Len(x) + Len(z) /\ Len(z) \in Nat
          /\ \A k \in 1..Len(x) : (x \o z)[k] = x[k]
          /\ \A k \in 1..Len(z) : (x \o z)[Len(x) + k] = z[k]
      BY <2>1, Joined
    <2> QED  BY <2>2, <1>5
  <1>10. Len(z) = Len(Stream) - e
    BY <1>3, <1>7, <1>9
  <1>11. \A k \in 1..e : Consumed[k] = Stream[k]
    BY <1>6, <1>7, <1>9
  <1>12. \A k \in 1..Len(z) : z[k] = Stream[e + k]
    BY <1>7, <1>9
  <1> QED  BY <1>3, <1>5, <1>6, <1>7, <1>8, <1>10, <1>11, <1>12

------------------------------------------------------------------------------
(* Types.                                                                  *)

\* The pieces that the guest and the kernel write.
LEMMA PiecesWritten ==
    ASSUME Types
    PROVE  /\ \A mark \in {"login", "prompt", "done"}, s \in Statuses :
                  Mark(mark, s) \in Seq(Pieces)
           /\ 0 \in Statuses
           /\ Message \in Pieces /\ <<Ask>> \in Seq(Pieces)
           /\ \A n \in DOMAIN steps : Own(n) \subseteq Pieces /\ Line(n) \in Pieces
           /\ \A n \in DOMAIN steps : /\ Output(n) \in Seq(Pieces)
                                     /\ <<Echo(n)>> \in Seq(Pieces)
                                     /\ Printed(n) \in Seq(Pieces)
  <1>1. 0 \in Statuses
    BY ScriptAssumption
  <1>2. /\ Message \in Pieces /\ Ask \in Pieces
        /\ \A n \in DOMAIN steps : Own(n) \subseteq Pieces
        /\ \A mark \in {"login", "prompt", "done"}, h \in {1, 2}, s \in Statuses :
               Half(mark, h, s) \in Pieces
    BY DEF Pieces, Own
  <1>3. \A mark \in {"login", "prompt", "done"}, s \in Statuses :
            Mark(mark, s) \in Seq(Pieces)
    BY <1>2 DEF Mark
  <1>4. \A n \in DOMAIN steps : /\ Line(n) \in Pieces /\ Text(n) \in Pieces
                               /\ Like(n) \in Pieces /\ Echo(n) \in Pieces
    BY <1>2 DEF Own
  <1>5. ASSUME NEW n \in DOMAIN steps
        PROVE  /\ Output(n) \in Seq(Pieces) /\ <<Echo(n)>> \in Seq(Pieces)
               /\ Printed(n) \in Seq(Pieces)
    <2>1. /\ <<Line(n)>> \in Seq(Pieces) /\ <<Text(n)>> \in Seq(Pieces)
          /\ <<Like(n)>> \in Seq(Pieces) /\ <<Echo(n)>> \in Seq(Pieces)
          /\ <<Ask>> \in Seq(Pieces) /\ <<>> \in Seq(Pieces)
      BY <1>2, <1>4
    <2>2. Mark("done", 0) \o <<Line(n)>> \in Seq(Pieces)
      <3>1. Mark("done", 0) \in Seq(Pieces)
        BY <1>1, <1>3
      <3> QED  BY <2>1, <3>1, Joined
    <2>3. Printed(n) \in Seq(Pieces)
      BY <2>1, <2>2 DEF Printed
    <2>4. Output(n) \in Seq(Pieces)
      BY <2>1, <2>3, Joined DEF Output
    <2> QED  BY <2>1, <2>3, <2>4
  <1>6. <<Ask>> \in Seq(Pieces)
    BY <1>2
  <1> QED  BY <1>1, <1>2, <1>3, <1>4, <1>5, <1>6

\* The line that asks for the sentinel, the sentinel and the prompt.
LEMMA SentinelWritten ==
    ASSUME Types
    PROVE  LET m == Mark("done", status) \o Mark("prompt", 0)
               w == <<Ask>> \o Mark("done", status) \o Mark("prompt", 0)
           IN  /\ m \in Seq(Pieces) /\ w \in Seq(Pieces)
               /\ w = <<Ask>> \o m
  <1> DEFINE a == <<Ask>>
             d == Mark("done", status)
             p == Mark("prompt", 0)
  <1>1. a \in Seq(Pieces) /\ d \in Seq(Pieces) /\ p \in Seq(Pieces)
    BY PiecesWritten DEF Types
  <1> HIDE DEF a, d, p
  <1>2. d \o p \in Seq(Pieces) /\ a \o d \in Seq(Pieces)
    BY <1>1, Joined
  <1>3. a \o d \o p \in Seq(Pieces) /\ a \o d \o p = a \o (d \o p)
    <2>1. (a \o d) \o p \in Seq(Pieces)
      BY <1>1, <1>2, Joined, SMTT(30)
    <2>2. (a \o d) \o p = a \o (d \o p)
      BY <1>1, JoinsAssociate, SMTT(30)
    <2> QED  BY <2>1, <2>2
  <1> QED  BY <1>2, <1>3 DEF a, d, p

\* The step that main is at.
LEMMA StepNumbers ==
    ASSUME Types
    PROVE  /\ Len(steps) \in Nat /\ DOMAIN steps = 1..Len(steps)
           /\ next \in 1..(Len(steps) + 1) /\ next \in Nat
           /\ Background \subseteq DOMAIN steps
           /\ next - 1 \in Nat /\ next - 1 <= Len(steps)
           /\ \A n \in DOMAIN steps : n \in Nat /\ n >= 1 /\ steps[n] \in Kinds
  <1>1. steps \in Seq(Kinds) /\ next \in 1..Len(steps) + 1
    BY DEF Types, TypeOK
  <1>2. Len(steps) \in Nat /\ DOMAIN steps = 1..Len(steps)
        /\ \A n \in DOMAIN steps : steps[n] \in Kinds
    BY <1>1, LenProperties
  <1> QED  BY <1>1, <1>2 DEF Behind, Background

\* Lines typed, or read by the guest, are lines of the script.
LEMMA TypedStays ==
    ASSUME Types
    PROVE  /\ next' = next => TypedLines' = TypedLines
           /\ next' = next + 1 => TypedLines \subseteq TypedLines'
           /\ \A n \in 1..(next - 1) : <<"step", n>> \in TypedLines
           /\ <<"root", 0>> \in TypedLines /\ <<"push", 0>> \in TypedLines
           /\ <<"echo", 0>> \in TypedLines
  BY StepNumbers DEF TypedLines

\* What the guest reads.
LEMMA LinesRead ==
    ASSUME Types, typed # <<>>
    PROVE  /\ Head(typed) \in TypedLines /\ Tail(typed) \in Seq(TypedLines)
           /\ Len(typed) \in Nat /\ Len(typed) >= 1
           /\ \A k \in {2, 3} : SubSeq(typed, k, Len(typed)) \in Seq(TypedLines)
           /\ Head(typed)[1] = "step" => /\ Head(typed)[2] \in 1..(next - 1)
                                         /\ Head(typed)[2] \in DOMAIN steps
  <1>1. typed \in Seq(TypedLines)
    BY DEF Types
  <1>2. Head(typed) \in TypedLines /\ Tail(typed) \in Seq(TypedLines)
    BY <1>1, HeadTailProperties
  <1>3. Len(typed) \in Nat /\ Len(typed) >= 1
    BY <1>1, EmptySeq, LenProperties
  <1>4. \A k \in {2, 3} : SubSeq(typed, k, Len(typed)) \in Seq(TypedLines)
    <2> SUFFICES ASSUME NEW k \in {2, 3}
                 PROVE  SubSeq(typed, k, Len(typed)) \in Seq(TypedLines)
      OBVIOUS
    <2>1. \A i \in k..Len(typed) : typed[i] \in TypedLines
      BY <1>1, <1>3, ElementOfSeq
    <2> QED  BY <2>1, <1>3, SubSeqProperties
  <1>5. Head(typed)[1] = "step" => Head(typed)[2] \in 1..(next - 1)
    BY <1>2 DEF TypedLines
  <1> QED  BY <1>2, <1>3, <1>4, <1>5, StepNumbers

\* What a match reports has a type.
LEMMA OutputTyped ==
    ASSUME Types, NEW c \in Seq(Pieces), NEW n
    PROVE  OwnOutput(c, n) \subseteq [what : Shown, half : {0}, val : DOMAIN steps]
  <1> SUFFICES ASSUME NEW m \in DOMAIN c, c[m].what \in Shown
               PROVE  c[m] \in [what : Shown, half : {0}, val : DOMAIN steps]
    BY DEF OwnOutput
  <1>1. c[m] \in Pieces
    BY LenProperties, ElementOfSeq
  <1>2. /\ Message.what \notin Shown /\ Ask.what \notin Shown
        /\ \A mark \in {"login", "prompt", "done"} :
              \A h, s : Half(mark, h, s).what \notin Shown
    BY DEF Message, Ask, Half, Shown
  <1>3. \E k \in DOMAIN steps : c[m] \in Own(k)
    BY <1>1, <1>2 DEF Pieces, Own
  <1> QED  BY <1>3 DEF Own, Line, Text, Like, Echo, Shown

LEMMA StatusTyped ==
    ASSUME Types, NEW p \in Pieces, p.what = "done"
    PROVE  p.val \in Statuses
  BY DEF Pieces, Own, Message, Ask, Line, Text, Like, Echo, Half

LEMMA TypesInit == Init => Types
  <1> SUFFICES ASSUME Init PROVE Types
    OBVIOUS
  <1>1. steps \in Seq(Kinds) /\ 0 \in Statuses
    BY ScriptAssumption DEF Init
  <1>2. Len(steps) \in Nat /\ DOMAIN steps = 1..Len(steps)
    BY <1>1, LenProperties
  <1>3. TypeOK
    BY <1>1, <1>2 DEF Init, TypeOK
  <1>4. \A S : <<>> \in Seq(S)
    BY EmptySeq
  <1> QED  BY <1>1, <1>3, <1>4 DEF Init, Types

\* Types of what expect does.
LEMMA TypesExpect == ASSUME Types, Expect PROVE Types'
  <1>1. ASSUME Fail PROVE Types'
    <2>1. Pieces' = Pieces /\ TypedLines' = TypedLines
      BY <1>1 DEF Fail, Pieces, TypedLines
    <2> QED  BY <1>1, <2>1 DEF Types, TypeOK, Fail, guest, history
  <1>2. ASSUME NEW c \in BOOLEAN, MayRead(c), buf' \in Seq(Pieces), out' \in Seq(Pieces)
        PROVE  Types'
    <2>1. Pieces' = Pieces /\ TypedLines' = TypedLines
      BY <1>2 DEF MayRead, Pieces, TypedLines
    <2> QED  BY <1>2, <2>1 DEF Types, TypeOK, MayRead, guest, history
  <1>3. CASE Check \/ NothingToRead
    BY <1>2, <1>3 DEF Check, NothingToRead, Types
  <1>4. CASE Read
    <2>1. MayRead(FALSE)
      BY <1>4 DEF Read
    <2> QED  BY <1>2, <1>4, <2>1, ReadKeepsStream
  <1> QED  BY <1>1, <1>3, <1>4 DEF Expect, TimeOut, SeesExit, ConsoleClosed

\* Types of what main does.
LEMMA TypesMain == ASSUME Types, Main PROVE Types'
  <1>1. steps' = steps
    BY DEF Main, LoginSeen, Ready, SentinelSeen, SendPush, SendCommand, SendKey,
           Raises, Fail, Finish
  <1>2. Pieces' = Pieces
    BY <1>1 DEF Pieces
  <1>3. /\ next' = next => TypedLines' = TypedLines
        /\ next' = next + 1 => TypedLines \subseteq TypedLines'
        /\ <<"root", 0>> \in TypedLines /\ <<"push", 0>> \in TypedLines
        /\ <<"echo", 0>> \in TypedLines
    BY TypedStays
  <1>4. typed \in Seq(TypedLines) /\ buf \in Seq(Pieces) /\ out \in Seq(Pieces)
        /\ writing \in Seq(Pieces)
    BY DEF Types
  <1>5. Matched /\ buf' = Rest /\ out' = out /\ writing' = writing => buf' \in Seq(Pieces)
    BY MatchTaken
  <1>6. CASE LoginSeen
    <2>1. buf' \in Seq(Pieces)
      BY <1>5, <1>6 DEF LoginSeen
    <2>2. typed' \in Seq(TypedLines)
      <3>1. <<<<"root", 0>>>> \in Seq(TypedLines)
        BY <1>3
      <3> QED  BY <1>4, <1>6, <3>1, Joined DEF LoginSeen, Type
    <2>3. TypedLines' = TypedLines
      BY <1>3, <1>6 DEF LoginSeen
    <2> QED  BY <1>2, <1>6, <2>1, <2>2, <2>3 DEF Types, TypeOK, LoginSeen, history
  <1>7. CASE Ready
    <2>1. buf' \in Seq(Pieces)
      BY <1>5, <1>7 DEF Ready, guest
    <2>2. TypedLines' = TypedLines
      BY <1>3, <1>7 DEF Ready
    <2> QED  BY <1>2, <1>7, <2>1, <2>2 DEF Types, TypeOK, Ready, history, guest
  <1>8. CASE SentinelSeen
    <2> DEFINE n == next - 1
               s == Last(Consumed).val
    <2>1. /\ at = "wait" /\ Matched /\ buf' = Rest /\ at' = "ready"
          /\ got' = [got EXCEPT ![n] = s]
          /\ reported' = [reported EXCEPT ![n] = OwnOutput(Consumed, n)]
          /\ rc' = Result(s)
          /\ UNCHANGED <<steps, push, next, checked, out, guest, alive, history>>
      BY <1>8 DEF SentinelSeen
    <2>2. PICK e \in 2..Len(buf) :
              /\ buf[e].what = Pattern
              /\ Consumed \in Seq(Pieces) /\ Len(Consumed) = e
              /\ \A k \in 1..e : Consumed[k] = Stream[k]
              /\ buf' \in Seq(Pieces)
      BY <2>1, MatchTaken DEF guest
    <2>3. Last(Consumed) \in Pieces /\ Last(Consumed) = buf[e]
      <3>1. e \in 1..Len(Consumed) /\ e \in 1..Len(buf)
        BY <2>2, StreamFacts
      <3>2. Last(Consumed) = Consumed[e]
        BY <2>2 DEF Last
      <3>3. Consumed[e] = buf[e]
        BY <2>2, <3>1, StreamFacts
      <3> QED  BY <2>2, <3>1, <3>2, <3>3, ElementOfSeq
    <2>4. s \in Statuses
      <3>1. Last(Consumed).what = "done"
        BY <2>1, <2>2, <2>3 DEF Pattern
      <3> QED  BY <2>3, <3>1, StatusTyped
    <2>5. OwnOutput(Consumed, n) \subseteq [what : Shown, half : {0}, val : DOMAIN steps]
      BY <2>2, OutputTyped
    <2>6. rc' \in Statuses \cup {1}
      BY <2>1, <2>4 DEF Result, Types, TypeOK
    <2>7. TypedLines' = TypedLines
      BY <1>3, <2>1
    <2>8. /\ got' \in [DOMAIN steps -> Statuses \cup {None}]
          /\ reported' \in [DOMAIN steps ->
                  SUBSET [what : Shown, half : {0}, val : DOMAIN steps]]
      <3> HIDE DEF s
      <3> QED  BY <2>1, <2>4, <2>5 DEF Types, TypeOK
    <2> HIDE DEF s, n
    <2>9. TypeOK'
      BY <2>1, <2>6, <2>8 DEF Types, TypeOK, guest
    <2> QED  BY <1>2, <2>1, <2>2, <2>7, <2>9 DEF Types, history, guest
  <1>9. CASE SendPush
    <2>1. typed' \in Seq(TypedLines)
      <3>1. <<<<"push", 0>>, <<"echo", 0>>>> \in Seq(TypedLines)
        BY <1>3
      <3> QED  BY <1>4, <1>9, <3>1, Joined DEF SendPush, Type
    <2>2. TypedLines' = TypedLines
      BY <1>3, <1>9 DEF SendPush
    <2> QED  BY <1>2, <1>9, <2>1, <2>2 DEF Types, TypeOK, SendPush, history
  <1>10. CASE SendCommand
    <2>1. next' = next + 1 /\ next \in 1..Len(steps) /\ next' \in 1..(Len(steps) + 1)
          /\ next' >= 2
      BY <1>10, StepNumbers DEF SendCommand, HasStep
    <2>2. TypedLines \subseteq TypedLines' /\ <<"step", next>> \in TypedLines'
      BY <1>3, <2>1 DEF TypedLines
    <2>3. typed' \in Seq(TypedLines')
      <3>1. <<<<"step", next>>, <<"echo", 0>>>> \in Seq(TypedLines')
        BY <1>3, <2>2
      <3>2. typed \in Seq(TypedLines')
        BY <1>4, <2>2, SeqMonotonic
      <3> QED  BY <1>10, <3>1, <3>2, Joined DEF SendCommand, Type
    <2>4. TypeOK'
      BY <1>10, <2>1 DEF Types, TypeOK, SendCommand, AfterCommand
    <2> QED  BY <1>2, <1>10, <2>1, <2>3, <2>4 DEF Types, SendCommand, history
  <1>11. CASE SendKey
    <2>1. next' = next + 1 /\ next \in DOMAIN steps /\ next' \in 1..(Len(steps) + 1)
          /\ next' >= 2
      BY <1>11, StepNumbers DEF SendKey, HasStep
    <2>2. typed' \in Seq(TypedLines')
      <3>1. typed' = typed
        BY <1>11 DEF SendKey, guest
      <3> QED  BY <1>3, <1>4, <2>1, <3>1, SeqMonotonic
    <2>3. log' \in Seq(DOMAIN steps)
      <3>1. log' = Append(log, next) /\ log \in Seq(DOMAIN steps)
        BY <1>11 DEF SendKey, Types
      <3> QED  BY <2>1, <3>1, AppendProperties
    <2>4. TypeOK'
      BY <1>11, <2>1 DEF Types, TypeOK, SendKey, guest
    <2> QED  BY <1>2, <1>11, <2>1, <2>2, <2>3, <2>4 DEF Types, SendKey, guest
  <1>12. CASE Raises \/ Finish
    <2>1. TypedLines' = TypedLines
      BY <1>3, <1>12 DEF Raises, Fail, Finish
    <2>2. TypeOK'
      BY <1>12 DEF Types, TypeOK, Raises, Fail, Finish, guest
    <2> QED  BY <1>2, <1>12, <2>1, <2>2 DEF Types, Raises, Fail, Finish, guest, history
  <1> QED  BY <1>6, <1>7, <1>8, <1>9, <1>10, <1>11, <1>12 DEF Main

\* Types of what the guest does.
LEMMA TypesGuest == ASSUME Types, Guest PROVE Types'
  <1>1. /\ UNCHANGED script
        /\ exits' \in [DOMAIN steps -> Statuses \cup {None}]
        /\ log' \in Seq(DOMAIN steps) /\ shell' \in {"boot", "getty", "shell"}
        /\ status' \in Statuses /\ late' \subseteq DOMAIN steps
        /\ typed' \in Seq(TypedLines) /\ writing' \in Seq(Pieces)
        /\ out' \in Seq(Pieces)
    <2>1. /\ exits \in [DOMAIN steps -> Statuses \cup {None}]
          /\ log \in Seq(DOMAIN steps) /\ shell \in {"boot", "getty", "shell"}
          /\ status \in Statuses /\ late \subseteq DOMAIN steps
          /\ typed \in Seq(TypedLines) /\ writing \in Seq(Pieces)
          /\ out \in Seq(Pieces)
      BY DEF Types, TypeOK
    <2>2. /\ \A mark \in {"login", "prompt", "done"}, s \in Statuses :
                 Mark(mark, s) \in Seq(Pieces)
          /\ 0 \in Statuses /\ Message \in Pieces
          /\ \A n \in DOMAIN steps : Line(n) \in Pieces
          /\ \A n \in DOMAIN steps : Output(n) \in Seq(Pieces)
      BY PiecesWritten
    <2>3. CASE BootUp
      BY <2>1, <2>2, <2>3 DEF BootUp, history
    <2>4. CASE LogIn
      <3>1. Tail(typed) \in Seq(TypedLines)
        BY <2>4, LinesRead DEF LogIn
      <3> QED  BY <2>1, <2>2, <2>4, <3>1 DEF LogIn, history
    <2>5. CASE RunCommand
      <3> DEFINE n == Head(typed)[2]
      <3>1. n \in DOMAIN steps
            /\ \A k \in {2, 3} : SubSeq(typed, k, Len(typed)) \in Seq(TypedLines)
        BY <2>5, LinesRead DEF RunCommand, NextLine
      <3>2. Output(n) \o Mark("prompt", 0) \in Seq(Pieces)
        <4>1. Output(n) \in Seq(Pieces) /\ Mark("prompt", 0) \in Seq(Pieces)
          BY <2>2, <3>1
        <4> QED  BY <4>1, Joined
      <3> HIDE DEF n
      <3>3. /\ \E s \in IF steps[n] = "bg" THEN {0} ELSE Statuses :
                   status' = s /\ exits' = [exits EXCEPT ![n] = s]
            /\ typed' = SubSeq(typed, IF steps[n] = "reads" THEN 3 ELSE 2, Len(typed))
            /\ writing' = Output(n) \o Mark("prompt", 0)
            /\ late' = late \cup (IF steps[n] = "bg" THEN {n} ELSE {})
            /\ log' = Append(log, n)
            /\ UNCHANGED <<script, out, shell, kernel, alive, refused, split>>
        BY <2>5 DEF RunCommand, n
      <3>4. typed' \in Seq(TypedLines)
        BY <3>1, <3>3
      <3>5. log' \in Seq(DOMAIN steps)
        BY <2>1, <3>1, <3>3, AppendProperties
      <3>6. PICK s \in Statuses : status' = s /\ exits' = [exits EXCEPT ![n] = s]
        BY <2>2, <3>3
      <3>7. exits' \in [DOMAIN steps -> Statuses \cup {None}] /\ status' \in Statuses
        BY <2>1, <3>1, <3>6
      <3> QED  BY <2>1, <3>1, <3>2, <3>3, <3>4, <3>5, <3>7
    <2>6. CASE WritePushed
      <3>1. Tail(typed) \in Seq(TypedLines)
        BY <2>6, LinesRead DEF WritePushed, NextLine
      <3> QED  BY <2>1, <2>2, <2>6, <3>1 DEF WritePushed, history
    <2>7. CASE EchoSentinel
      <3>1. Tail(typed) \in Seq(TypedLines)
        BY <2>7, LinesRead DEF EchoSentinel, NextLine
      <3>2. <<Ask>> \o Mark("done", status) \o Mark("prompt", 0) \in Seq(Pieces)
        BY SentinelWritten
      <3> QED  BY <2>1, <2>2, <2>7, <3>1, <3>2 DEF EchoSentinel, history
    <2>8. CASE Emit
      BY <2>1, <2>8, EmitKeepsStream DEF Emit, history
    <2>9. CASE \E n \in late : PrintLate(n)
      <3>0. PICK n \in late : PrintLate(n)
        BY <2>9
      <3>1. Line(n) \in Pieces /\ out' = Append(out, Line(n))
        BY <2>1, <2>2, <3>0 DEF PrintLate
      <3>2. out' \in Seq(Pieces)
        BY <2>1, <3>1, AppendProperties
      <3> QED  BY <2>1, <3>0, <3>2 DEF PrintLate, history
    <2>10. CASE KernelMessage
      <3>1. out' \in Seq(Pieces)
        BY <2>1, <2>2, <2>10, AppendProperties DEF KernelMessage
      <3> QED  BY <2>1, <2>10, <3>1 DEF KernelMessage
    <2>11. CASE QemuExits
      BY <2>1, <2>11 DEF QemuExits, guest, history
    <2> QED  BY <2>3, <2>4, <2>5, <2>6, <2>7, <2>8, <2>9, <2>10, <2>11 DEF Guest
  <1>2. Pieces' = Pieces /\ TypedLines' = TypedLines
    BY <1>1 DEF script, Pieces, TypedLines
  <1>3. TypeOK'
    BY <1>1 DEF script, Types, TypeOK
  <1> QED  BY <1>1, <1>2, <1>3 DEF script, Types

LEMMA TypesNext == ASSUME Types, [Next]_vars PROVE Types'
  <1>1. ASSUME UNCHANGED vars PROVE Types'
    <2>1. Pieces' = Pieces /\ TypedLines' = TypedLines
      BY <1>1 DEF vars, script, Pieces, TypedLines
    <2> QED  BY <1>1, <2>1 DEF vars, script, guest, history, Types, TypeOK
  <1> QED  BY <1>1, TypesExpect, TypesMain, TypesGuest DEF Next

\* The state has the expected types: each step that is taken is one of the
\* script, and the result is a status of one of its commands or 1.
THEOREM AutobootTypes == Spec => []TypeOK
  <1>1. Spec => []Types
    BY TypesInit, TypesNext, PTL DEF Spec
  <1>2. Types => TypeOK
    BY DEF Types
  <1> QED  BY <1>1, <1>2, PTL

------------------------------------------------------------------------------
(* What expect waits for is written, or will be.                           *)

\* A line that is not the first stays typed when the first is read.
LEMMA EchoStays ==
    ASSUME Types, typed # <<>>, Head(typed)[1] # "echo",
           \E n \in DOMAIN typed : typed[n] = <<"echo", 0>>
    PROVE  /\ Tail(typed) = SubSeq(typed, 2, Len(typed))
           /\ \E n \in DOMAIN Tail(typed) : Tail(typed)[n] = <<"echo", 0>>
  <1>1. typed \in Seq(TypedLines) /\ Len(typed) \in Nat /\ DOMAIN typed = 1..Len(typed)
    BY LenProperties DEF Types
  <1>2. PICK n \in DOMAIN typed : typed[n] = <<"echo", 0>>
    OBVIOUS
  <1>3. Tail(typed) = SubSeq(typed, 2, Len(typed))
    BY <1>1, TailIsSubSeq
  <1>4. n # 1
    BY <1>2
  <1>5. n - 1 \in 1..(Len(typed) - 1) /\ (n - 1) + 1 = n /\ 1 \in 0..Len(typed)
        /\ 1 + (n - 1) = n /\ 1 + 1 = 2
    BY <1>1, <1>4
  <1>6. /\ SubSeq(typed, 2, Len(typed)) \in Seq(TypedLines)
        /\ Len(SubSeq(typed, 2, Len(typed))) = Len(typed) - 1
        /\ \A k \in 1..(Len(typed) - 1) : SubSeq(typed, 2, Len(typed))[k] = typed[1 + k]
    BY <1>1, <1>5, Parted
  <1>7. Tail(typed)[n - 1] = <<"echo", 0>>
    BY <1>2, <1>3, <1>5, <1>6
  <1>8. n - 1 \in DOMAIN Tail(typed)
    BY <1>3, <1>5, <1>6, LenProperties
  <1> QED  BY <1>3, <1>7, <1>8

\* What the guest starts to write takes no mark away, and brings its own.
LEMMA MarksGrow ==
    ASSUME Types, NEW w \in Seq(Pieces), writing = <<>>, writing' = w,
           buf' = buf, out' = out
    PROVE  \A mark : HasMark(Stream, mark) \/ HasMark(w, mark) => HasMark(Stream', mark)
  <1>1. Stream' = Stream \o w /\ Stream \in Seq(Pieces)
    BY GuestWrites, StreamFacts
  <1> QED  BY <1>1, MarkJoin

LEMMA MarkIsMark ==
    ASSUME NEW mark, NEW val
    PROVE  HasMark(Mark(mark, val), mark)
  <1> DEFINE m == Mark(mark, val)
  <1>1. m[1] = Half(mark, 1, val) /\ m[2] = Half(mark, 2, val) /\ Len(m) = 2
    BY MarkHalves
  <1> HIDE DEF m
  <1>2. m[1].what = mark /\ m[1].half = 1 /\ m[2].what = mark /\ m[2].half = 2
    BY <1>1 DEF Half
  <1>3. HasMark(m, mark)
    BY <1>1, <1>2 DEF HasMark
  <1> QED  BY <1>3 DEF m

\* Nothing is lost by a step that only moves or adds text.
LEMMA AnswerKept ==
    ASSUME AnswerInv, UNCHANGED <<steps, at, shell, typed, log>>,
           split' \/ (~split /\ \A mark : HasMark(Stream, mark) => HasMark(Stream', mark))
    PROVE  AnswerInv'
  BY DEF AnswerInv, NoneReads

LEMMA AnswerInit == Init => AnswerInv
  BY DEF Init, AnswerInv

LEMMA AnswerExpect == ASSUME Types, AnswerInv, Expect PROVE AnswerInv'
  <1>1. ASSUME Fail PROVE AnswerInv'
    BY <1>1 DEF Fail, AnswerInv
  <1>2. CASE Check \/ NothingToRead
    <2>1. UNCHANGED <<steps, at, shell, typed, log, split, buf, out, writing>>
      BY <1>2 DEF Check, NothingToRead, MayRead, guest, history
    <2>2. Stream' = Stream
      BY <2>1 DEF Stream
    <2> QED  BY <2>1, <2>2 DEF AnswerInv, NoneReads
  <1>3. CASE Read
    <2>1. UNCHANGED <<steps, at, shell, typed, log, split>>
      BY <1>3 DEF Read, MayRead, guest, history
    <2>2. Stream' = Stream
      BY <1>3, ReadKeepsStream
    <2> QED  BY <2>1, <2>2 DEF AnswerInv, NoneReads
  <1> QED  BY <1>1, <1>2, <1>3 DEF Expect, TimeOut, SeesExit, ConsoleClosed

\* The login prompt is only seen when the guest has written it.
LEMMA GettyWaits ==
    ASSUME Types, StepInv, at = "boot", Matched
    PROVE  shell = "getty" /\ typed = <<>>
  <1>1. InStep
    BY DEF StepInv, OutOfStep
  <1>2. Booting
    BY <1>1 DEF InStep, Phase
  <1>3. PICK e \in MatchEnds(buf) : TRUE
    BY DEF Matched
  <1>4. e \in 1..Len(buf) /\ buf[e].what = "login"
    BY <1>3, StreamFacts DEF MatchEnds, Pattern
  <1>5. e \in DOMAIN Stream /\ Stream[e].what = "login"
    BY <1>4, StreamFacts
  <1>6. Unwritten
    BY <1>1 DEF InStep, Phase
  <1> QED  BY <1>2, <1>5, <1>6 DEF Booting, Unwritten, Lacks

LEMMA AnswerMain == ASSUME Types, AnswerInv, StepInv, Main PROVE AnswerInv'
  <1>1. CASE LoginSeen
    <2>1. at = "boot" /\ Matched /\ at' = "login" /\ typed' = typed \o <<<<"root", 0>>>>
          /\ shell' = shell
      BY <1>1 DEF LoginSeen, Type
    <2>2. shell = "getty" /\ typed = <<>>
      BY <2>1, GettyWaits
    <2>3. typed' # <<>>
      BY <2>1, <2>2
    <2> QED  BY <2>1, <2>2, <2>3 DEF AnswerInv
  <1>2. CASE Ready \/ SentinelSeen \/ SendKey \/ Raises \/ Finish
    BY <1>2 DEF Ready, SentinelSeen, SendKey, HasStep, Raises, Fail, Finish, AnswerInv
  <1>3. ASSUME NEW l, typed' = typed \o <<l, <<"echo", 0>>>>
        PROVE  \E n \in DOMAIN typed' : typed'[n] = <<"echo", 0>>
    <2> DEFINE P == TypedLines \cup {l}
               b == <<l, <<"echo", 0>>>>
    <2>1. typed \in Seq(P) /\ b \in Seq(P)
      <3>1. typed \in Seq(TypedLines) /\ <<"echo", 0>> \in TypedLines
        BY TypedStays DEF Types
      <3>2. TypedLines \subseteq P /\ l \in P
        OBVIOUS
      <3> HIDE DEF P
      <3> QED  BY <3>1, <3>2, SeqMonotonic
    <2>2. Len(b) = 2 /\ b[2] = <<"echo", 0>> /\ typed' = typed \o b
      BY <1>3
    <2> HIDE DEF P, b
    <2>3. /\ Len(typed \o b) = Len(typed) + Len(b) /\ Len(typed) \in Nat
          /\ DOMAIN (typed \o b) = 1..(Len(typed) + Len(b))
          /\ \A k \in 1..Len(b) : (typed \o b)[Len(typed) + k] = b[k]
      BY <2>1, Joined
    <2>4. Len(typed) + 2 \in DOMAIN typed' /\ typed'[Len(typed) + 2] = <<"echo", 0>>
      BY <2>2, <2>3
    <2> QED  BY <2>4
  <1>4. CASE SendPush \/ SendCommand
    <2>1. /\ \E l : typed' = typed \o <<l, <<"echo", 0>>>>
          /\ at' \in {"push", "wait"}
      BY <1>4 DEF SendPush, SendCommand, Type, AfterCommand
    <2>2. \E n \in DOMAIN typed' : typed'[n] = <<"echo", 0>>
      BY <2>1, <1>3
    <2> QED  BY <2>1, <2>2 DEF AnswerInv
  <1> QED  BY <1>1, <1>2, <1>4 DEF Main

\* A guest that is being logged in to is not yet asked for anything.
LEMMA ShellRuns == ASSUME StepInv, at \in {"push", "wait"} PROVE shell = "shell"
  BY DEF StepInv, InStep, Phase, OutOfStep, Waiting

LEMMA AnswerGuest == ASSUME Types, AnswerInv, StepInv, Guest PROVE AnswerInv'
  <1>w. /\ \A mark \in {"login", "prompt", "done"}, s \in Statuses :
               Mark(mark, s) \in Seq(Pieces)
        /\ 0 \in Statuses /\ Message \in Pieces /\ status \in Statuses
        /\ \A n \in DOMAIN steps : Line(n) \in Pieces /\ Output(n) \in Seq(Pieces)
    BY PiecesWritten DEF Types
  <1>1. CASE BootUp
    <2>1. /\ writing = <<>> /\ writing' = Mark("login", 0) /\ shell = "boot"
          /\ UNCHANGED <<steps, at, typed, log, split, buf, out>>
      BY <1>1 DEF BootUp, Idle, script, history
    <2>2. \A mark : HasMark(Stream, mark) \/ HasMark(Mark("login", 0), mark)
                        => HasMark(Stream', mark)
      BY <2>1, <1>w, MarksGrow
    <2>3. HasMark(Stream', "login")
      BY <2>2, MarkIsMark
    <2> QED  BY <2>1, <2>2, <2>3 DEF AnswerInv, NoneReads
  <1>2. CASE LogIn
    <2>1. /\ writing = <<>> /\ writing' = Mark("prompt", 0) /\ shell = "getty"
          /\ shell' = "shell"
          /\ UNCHANGED <<steps, at, log, split, buf, out>>
      BY <1>2 DEF LogIn, Idle, script, history
    <2>2. \A mark : HasMark(Stream, mark) \/ HasMark(Mark("prompt", 0), mark)
                        => HasMark(Stream', mark)
      BY <2>1, <1>w, MarksGrow
    <2>3. HasMark(Stream', "prompt")
      BY <2>2, MarkIsMark
    <2>4. at \notin {"push", "wait"}
      BY <2>1, ShellRuns
    <2> QED  BY <2>1, <2>2, <2>3, <2>4 DEF AnswerInv, NoneReads
  <1>3. ASSUME NEW w \in Seq(Pieces), writing = <<>>, writing' = w, shell = "shell",
               typed # <<>>, Head(typed)[1] # "echo",
               UNCHANGED <<steps, at, shell, split, buf, out>>,
               NoneReads' => NoneReads /\ typed' = Tail(typed)
        PROVE  AnswerInv'
    <2>1. \A mark : HasMark(Stream, mark) \/ HasMark(w, mark) => HasMark(Stream', mark)
      BY <1>3, MarksGrow
    <2>2. NoneReads' /\ (\E n \in DOMAIN typed : typed[n] = <<"echo", 0>>)
              => \E n \in DOMAIN typed' : typed'[n] = <<"echo", 0>>
      BY <1>3, EchoStays
    <2> QED  BY <1>3, <2>1, <2>2 DEF AnswerInv
  <1>4. CASE RunCommand
    <2> DEFINE n == Head(typed)[2]
    <2>1. /\ writing = <<>> /\ shell = "shell" /\ typed # <<>> /\ Head(typed)[1] = "step"
          /\ writing' = Output(n) \o Mark("prompt", 0)
          /\ typed' = SubSeq(typed, IF steps[n] = "reads" THEN 3 ELSE 2, Len(typed))
          /\ log' = Append(log, n)
          /\ UNCHANGED <<steps, at, shell, split, buf, out>>
      BY <1>4 DEF RunCommand, NextLine, Idle, script
    <2>2. n \in DOMAIN steps
      BY <2>1, LinesRead
    <2>3. Output(n) \o Mark("prompt", 0) \in Seq(Pieces)
      <3>1. Output(n) \in Seq(Pieces) /\ Mark("prompt", 0) \in Seq(Pieces)
        BY <1>w, <2>2
      <3> QED  BY <3>1, Joined
    <2>4. Tail(typed) = SubSeq(typed, 2, Len(typed))
      <3>1. typed \in Seq(TypedLines)
        BY DEF Types
      <3> QED  BY <2>1, <3>1, TailIsSubSeq
    <2> HIDE DEF n
    <2>5. NoneReads' => NoneReads /\ typed' = Tail(typed)
      <3>1. log \in Seq(DOMAIN steps)
        BY DEF Types
      <3>2. /\ Len(log') = Len(log) + 1 /\ log'[Len(log) + 1] = n
            /\ \A k \in 1..Len(log) : log'[k] = log[k]
            /\ DOMAIN log = 1..Len(log) /\ DOMAIN log' = 1..Len(log') /\ Len(log) \in Nat
        BY <2>1, <2>2, <3>1, AppendProperties, LenProperties
      <3>a. Len(log) + 1 \in DOMAIN log' /\ steps' = steps
        BY <2>1, <3>2
      <3>3. NoneReads' => steps[n] # "reads"
        BY <3>a, <3>2 DEF NoneReads
      <3>4. NoneReads' => NoneReads
        BY <2>1, <3>2 DEF NoneReads
      <3> QED  BY <2>1, <2>4, <3>3, <3>4
    <2> QED  BY <1>3, <2>1, <2>3, <2>5
  <1>5. CASE WritePushed
    <2>1. /\ writing = <<>> /\ shell = "shell" /\ typed # <<>> /\ Head(typed)[1] = "push"
          /\ writing' = Mark("prompt", 0) /\ typed' = Tail(typed)
          /\ UNCHANGED <<steps, at, shell, split, log, buf, out>>
      BY <1>5 DEF WritePushed, NextLine, Idle, script, history
    <2>2. NoneReads' = NoneReads
      BY <2>1 DEF NoneReads
    <2> QED  BY <1>3, <1>w, <2>1, <2>2
  <1>6. CASE EchoSentinel
    <2> DEFINE m == Mark("done", status) \o Mark("prompt", 0)
               w == <<Ask>> \o Mark("done", status) \o Mark("prompt", 0)
    <2>1. /\ writing = <<>> /\ shell = "shell" /\ writing' = w
          /\ UNCHANGED <<steps, at, shell, split, log, buf, out>>
      BY <1>6 DEF EchoSentinel, NextLine, Idle, script, history
    <2>2. Mark("done", status) \in Seq(Pieces) /\ Mark("prompt", 0) \in Seq(Pieces)
      BY <1>w
    <2>3. w \in Seq(Pieces) /\ HasMark(w, "done")
      <3>1. HasMark(m, "done")
        BY <2>2, MarkJoin, MarkIsMark
      <3>2. m \in Seq(Pieces) /\ w \in Seq(Pieces) /\ w = <<Ask>> \o m
            /\ <<Ask>> \in Seq(Pieces)
        BY SentinelWritten, PiecesWritten
      <3> HIDE DEF m, w
      <3> QED  BY <3>1, <3>2, MarkJoin
    <2> HIDE DEF m, w
    <2>4. \A mark : HasMark(Stream, mark) \/ HasMark(w, mark) => HasMark(Stream', mark)
      BY <2>1, <2>3, MarksGrow
    <2> QED  BY <2>1, <2>3, <2>4 DEF AnswerInv
  <1>7. CASE Emit
    <2>1. Stream' = Stream /\ UNCHANGED <<steps, at, shell, typed, log, split>>
      BY <1>7, EmitKeepsStream DEF Emit, script, history
    <2> QED  BY <2>1 DEF AnswerInv, NoneReads
  <1>8. ASSUME NEW e \in Pieces, out' = Append(out, e), split' \/ (~split /\ ~InMark),
               UNCHANGED <<steps, at, shell, typed, log, buf, writing>>
        PROVE  AnswerInv'
    <2>1. /\ Stream' = Append(buf \o out, e) \o writing /\ Stream = (buf \o out) \o writing
          /\ buf \o out \in Seq(Pieces) /\ writing \in Seq(Pieces)
      BY <1>8, OthersWrite, StreamFacts DEF Types
    <2>2. ~InMark => writing = <<>> \/ writing[1].half # 2
      BY DEF InMark
    <2>3. ~InMark => \A mark : HasMark(Stream, mark) => HasMark(Stream', mark)
      BY <2>1, <2>2, MarkInsert
    <2> QED  BY <1>8, <2>3, AnswerKept
  <1>9. CASE \E n \in late : PrintLate(n)
    <2>1. PICK n \in late : PrintLate(n)
      BY <1>9
    <2>2. Line(n) \in Pieces
      BY <1>w DEF Types, TypeOK
    <2>3. /\ out' = Append(out, Line(n)) /\ ~InMark
          /\ UNCHANGED <<steps, at, shell, typed, log, buf, writing, split>>
      BY <2>1 DEF PrintLate, script, history
    <2>4. CASE split
      BY <2>3, <2>4 DEF AnswerInv
    <2>5. CASE ~split
      BY <1>8, <2>2, <2>3, <2>5
    <2> QED  BY <2>4, <2>5
  <1>10. CASE KernelMessage
    <2>1. /\ out' = Append(out, Message) /\ split' = (split \/ InMark)
          /\ UNCHANGED <<steps, at, shell, typed, log, buf, writing>>
      BY <1>10 DEF KernelMessage, script
    <2>2. split' \/ (~split /\ ~InMark)
      BY <2>1
    <2> QED  BY <1>8, <1>w, <2>1, <2>2
  <1>11. CASE QemuExits
    <2>1. UNCHANGED <<steps, at, shell, typed, log, split, buf, out, writing>>
      BY <1>11 DEF QemuExits, script, guest, history
    <2>2. Stream' = Stream
      BY <2>1 DEF Stream
    <2> QED  BY <2>1, <2>2 DEF AnswerInv, NoneReads
  <1> QED  BY <1>1, <1>2, <1>4, <1>5, <1>6, <1>7, <1>9, <1>10, <1>11 DEF Guest

LEMMA AnswerNext ==
    ASSUME Types, AnswerInv, StepInv, [Next]_vars
    PROVE  AnswerInv'
  <1>1. ASSUME UNCHANGED vars PROVE AnswerInv'
    <2>1. UNCHANGED <<steps, at, shell, typed, log, split, buf, out, writing>>
      BY <1>1 DEF vars, script, guest, history
    <2>2. Stream' = Stream
      BY <2>1 DEF Stream
    <2> QED  BY <2>1, <2>2 DEF AnswerInv, NoneReads
  <1> QED  BY <1>1, AnswerExpect, AnswerMain, AnswerGuest DEF Next

------------------------------------------------------------------------------
(* Script and guest keep in step while text is moved or put in.            *)

\* What was said of the text that waits can still be said.
TextKept ==
    /\ \A V : Behind \subseteq V /\ Silent(Stream, V) => Silent(Stream', V)
    /\ \A mark \in {"login", "prompt"} : Lacks(Stream, mark) => Lacks(Stream', mark)
    /\ \A n : Prints(Stream, n) => Prints(Stream, n)'
    /\ \A n \in Nat : \A val : Answered(Stream, Behind, n, val)
                               => Answered(Stream, Behind, n, val)'

LEMMA SameText ==
    ASSUME Stream' = Stream, UNCHANGED <<steps, next>>
    PROVE  TextKept
  <1>1. Behind' = Behind /\ Background' = Background
    BY DEF Behind, Background
  <1> QED  BY <1>1 DEF TextKept, Prints, Answered

\* A sequence with an element more holds that and what it held.
HoldsAlso(t, s, e) ==
    /\ \A k \in DOMAIN t : t[k] = e \/ \E l \in DOMAIN s : t[k] = s[l]
    /\ \A l \in DOMAIN s : \E k \in DOMAIN t : t[k] = s[l]

LEMMA InsertHolds ==
    ASSUME NEW P, NEW a \in Seq(P), NEW b \in Seq(P), NEW e \in P
    PROVE  HoldsAlso(Append(a, e) \o b, a \o b, e)
  <1> DEFINE s == a \o b
             t == Append(a, e) \o b
  <1>1. /\ t \in Seq(P) /\ s \in Seq(P) /\ Len(t) = Len(s) + 1
        /\ \A k \in 1..Len(a) : t[k] = s[k]
        /\ \A k \in (Len(a) + 1)..Len(s) : t[k + 1] = s[k]
        /\ \A k \in 1..Len(t) : \/ k <= Len(a) /\ t[k] = s[k]
                                \/ k = Len(a) + 1 /\ t[k] = e
                                \/ /\ k > Len(a) + 1 /\ k - 1 \in 1..Len(s)
                                   /\ t[k] = s[k - 1]
        /\ Len(s) = Len(a) + Len(b) /\ Len(a) \in Nat /\ Len(b) \in Nat
    <2>1. /\ t \in Seq(P) /\ s \in Seq(P) /\ Len(t) = Len(s) + 1
          /\ \A k \in 1..Len(a) : t[k] = s[k]
          /\ \A k \in (Len(a) + 1)..Len(s) : t[k + 1] = s[k]
          /\ \A k \in 1..Len(t) : \/ k <= Len(a) /\ t[k] = s[k]
                                  \/ k = Len(a) + 1 /\ t[k] = e
                                  \/ /\ k > Len(a) + 1 /\ k - 1 \in 1..Len(s)
                                     /\ t[k] = s[k - 1]
          /\ Len(s) = Len(a) + Len(b) /\ Len(a) \in Nat
      BY Inserted, SMTT(60)
    <2>2. Len(b) \in Nat
      BY LenProperties
    <2> QED  BY <2>1, <2>2
  <1> HIDE DEF s, t
  <1>2. DOMAIN s = 1..Len(s) /\ DOMAIN t = 1..Len(t)
    BY <1>1, LenProperties
  <1>3. ASSUME NEW k \in DOMAIN t PROVE t[k] = e \/ \E l \in DOMAIN s : t[k] = s[l]
    <2>1. k <= Len(a) => k \in DOMAIN s
      BY <1>1, <1>2
    <2> QED  BY <1>1, <1>2, <2>1
  <1>4. ASSUME NEW l \in DOMAIN s PROVE \E k \in DOMAIN t : t[k] = s[l]
    <2>1. CASE l <= Len(a)
      <3>1. l \in 1..Len(a) /\ l \in DOMAIN t
        BY <1>1, <1>2, <2>1
      <3> QED  BY <3>1, <1>1
    <2>2. CASE l > Len(a)
      <3>1. l \in (Len(a) + 1)..Len(s) /\ l + 1 \in DOMAIN t
        BY <1>1, <1>2, <2>2
      <3> QED  BY <3>1, <1>1
    <2> QED  BY <1>1, <1>2, <2>1, <2>2
  <1>5. HoldsAlso(t, s, e)
    BY <1>3, <1>4 DEF HoldsAlso
  <1> QED  BY <1>5 DEF s, t

\* A line of a background command, or one of the kernel's, comes in between.
LEMMA OthersKeepText ==
    ASSUME Types, NEW e \in Pieces, out' = Append(out, e),
           UNCHANGED <<steps, next, buf, writing>>,
           e.what \in {"line", "kernel"}, OutputOf(e, Behind)
    PROVE  TextKept
  <1> DEFINE x == buf \o out
  <1>1. /\ Stream = x \o writing /\ Stream' = Append(x, e) \o writing
        /\ x \in Seq(Pieces) /\ writing \in Seq(Pieces)
    BY OthersWrite, StreamFacts DEF Types
  <1> HIDE DEF x
  <1>2. HoldsAlso(Stream', Stream, e)
    BY <1>1, InsertHolds
  <1>3. Behind' = Behind /\ Background' = Background
    BY DEF Behind, Background
  <1>4. ASSUME NEW V, Behind \subseteq V, Silent(Stream, V) PROVE Silent(Stream', V)
    <2>1. OutputOf(e, V) /\ e.what # "done"
      BY <1>4 DEF OutputOf
    <2> QED  BY <1>1, <1>4, <2>1, SilentInsert
  <1>5. \A mark \in {"login", "prompt"} : Lacks(Stream, mark) => Lacks(Stream', mark)
    BY <1>2 DEF Lacks, HoldsAlso
  <1>6. \A n : Prints(Stream, n) => Prints(Stream, n)'
    BY <1>2 DEF Prints, HoldsAlso
  <1>7. ASSUME NEW n \in Nat, NEW val, Answered(Stream, Behind, n, val)
        PROVE  Answered(Stream, Behind, n, val)'
    <2>1. Answered(Stream', Behind, n, val)
      BY <1>1, <1>7, AnsweredInsert
    <2> QED  BY <1>3, <2>1 DEF Answered
  <1> QED  BY <1>4, <1>5, <1>6, <1>7 DEF TextKept

\* A step that keeps the text and all else.
LEMMA PhaseKept ==
    ASSUME Types, Phase, TextKept,
           UNCHANGED <<steps, next, at, typed, shell, status, exits, log>>
    PROVE  Phase'
  <1>1. Behind' = Behind /\ Background' = Background
    BY DEF Behind, Background
  <1>2. Unwritten'
    BY DEF Phase, Unwritten, TextKept
  <1>3. \A V : Behind \subseteq V /\ Silent(Stream, V) => Silent(Stream', V)
    BY DEF TextKept
  <1>4. (at = "boot" => Booting') /\ (at = "login" => LoggingIn') /\ (at = "ready" => AtRest')
    BY <1>1, <1>3 DEF Phase, Booting, LoggingIn, AtRest, Ran
  <1>5. ASSUME at \in {"push", "wait"} PROVE Waiting(next - 1)'
    <2> DEFINE n == next - 1
    <2>1. n' = n /\ n \in Nat
      BY StepNumbers
    <2>2. shell = "shell" /\ (Asked(n) \/ Running(n) \/ Done(n) \/ Robbed(n))
      BY <1>5 DEF Phase, Waiting
    <2> HIDE DEF n
    <2>3. Asked(n) => Asked(n)'
      BY <1>1, <1>3, <2>1 DEF Asked, Ran
    <2>4. Running(n) => Running(n)'
      BY <1>1, <1>3, <2>1 DEF Running, Ran, TextKept, Prints
    <2>5. Done(n) => Done(n)'
      <3>1. ASSUME NEW s \in Statuses, Answered(Stream, Behind, n, s)
            PROVE  Answered(Stream, Behind, n, s)'
        BY <2>1, <3>1 DEF TextKept
      <3> QED  BY <2>1, <3>1 DEF Done, Ran, Answered
    <2>6. Robbed(n) => Robbed(n)'
      BY <1>1, <1>3, <2>1 DEF Robbed, Ran
    <2>7. Waiting(n)'
      BY <2>2, <2>3, <2>4, <2>5, <2>6 DEF Waiting
    <2> QED  BY <2>7 DEF n
  <1> QED  BY <1>2, <1>4, <1>5 DEF Phase

LEMMA BooksKept ==
    ASSUME Books, late' \subseteq late, UNCHANGED <<script, exits, log, refused>>
    PROVE  Books'
  <1>1. Behind' = Behind /\ Background' = Background
    BY DEF script, Behind, Background
  <1>2. \A n : Settled(n)' = Settled(n) /\ TakenUpTo(n)' = TakenUpTo(n) /\ Ran(n)' = Ran(n)
    BY DEF script, Settled, TakenUpTo, Ran
  <1> QED  BY <1>1, <1>2 DEF Books, script

\* Two sequences put together hold what each held.
HoldsBoth(t, s, w) ==
    /\ \A k \in DOMAIN t : \/ \E l \in DOMAIN s : t[k] = s[l]
                           \/ \E l \in DOMAIN w : t[k] = w[l]
    /\ \A l \in DOMAIN s : \E k \in DOMAIN t : t[k] = s[l]
    /\ \A l \in DOMAIN w : \E k \in DOMAIN t : t[k] = w[l]

LEMMA JoinHolds ==
    ASSUME NEW P, NEW s \in Seq(P), NEW w \in Seq(P)
    PROVE  HoldsBoth(s \o w, s, w)
  <1> DEFINE t == s \o w
  <1>1. /\ DOMAIN t = 1..(Len(s) + Len(w)) /\ Len(s) \in Nat /\ Len(w) \in Nat
        /\ DOMAIN s = 1..Len(s) /\ DOMAIN w = 1..Len(w)
        /\ \A k \in 1..Len(s) : t[k] = s[k]
        /\ \A k \in 1..Len(w) : t[Len(s) + k] = w[k]
        /\ \A k \in DOMAIN t : k > Len(s) => t[k] = w[k - Len(s)]
    BY Joined
  <1> HIDE DEF t
  <1>2. ASSUME NEW k \in DOMAIN t
        PROVE  (\E l \in DOMAIN s : t[k] = s[l]) \/ \E l \in DOMAIN w : t[k] = w[l]
    <2>1. CASE k <= Len(s)
      <3>1. k \in DOMAIN s /\ t[k] = s[k]
        BY <1>1, <2>1
      <3> QED  BY <3>1
    <2>2. CASE k > Len(s)
      <3>1. k - Len(s) \in DOMAIN w /\ t[k] = w[k - Len(s)]
        BY <1>1, <2>2
      <3> QED  BY <3>1
    <2> QED  BY <1>1, <2>1, <2>2
  <1>3. \A l \in DOMAIN s : \E k \in DOMAIN t : t[k] = s[l]
    BY <1>1
  <1>4. ASSUME NEW l \in DOMAIN w PROVE \E k \in DOMAIN t : t[k] = w[l]
    <2>1. Len(s) + l \in DOMAIN t /\ t[Len(s) + l] = w[l]
      BY <1>1
    <2> QED  BY <2>1
  <1>5. HoldsBoth(t, s, w)
    BY <1>2, <1>3, <1>4 DEF HoldsBoth
  <1> QED  BY <1>5 DEF t

\* What the guest starts to write is added to what waits.
LEMMA GuestText ==
    ASSUME Types, NEW w \in Seq(Pieces), writing = <<>>, writing' = w,
           buf' = buf, out' = out
    PROVE  HoldsBoth(Stream', Stream, w) /\ Stream' = Stream \o w
  BY GuestWrites, StreamFacts, JoinHolds

LEMMA SilentBoth ==
    ASSUME NEW t, NEW s, NEW w, HoldsBoth(t, s, w)
    PROVE  /\ \A V : Silent(s, V) /\ Silent(w, V) => Silent(t, V)
           /\ \A mark : Lacks(s, mark) /\ Lacks(w, mark) => Lacks(t, mark)
  <1>1. \A V : Silent(s, V) /\ Silent(w, V) => Silent(t, V)
    BY DEF Silent, HoldsBoth
  <1>2. \A mark : Lacks(s, mark) /\ Lacks(w, mark) => Lacks(t, mark)
    BY DEF Lacks, HoldsBoth
  <1> QED  BY <1>1, <1>2

\* The login prompt and the shell's are no output.
LEMMA PromptsAreSilent ==
    ASSUME NEW mark \in {"login", "prompt"}
    PROVE  /\ \A V : Silent(Mark(mark, 0), V)
           /\ \A m : m # mark => Lacks(Mark(mark, 0), m)
  <1> DEFINE s == Mark(mark, 0)
  <1>0. /\ s \in Seq({Half(mark, h, 0) : h \in {1, 2}}) /\ Len(s) = 2
        /\ s[1] = Half(mark, 1, 0) /\ s[2] = Half(mark, 2, 0)
    BY MarkHalves
  <1> HIDE DEF s
  <1>1. DOMAIN s = 1..2 /\ s[1] = Half(mark, 1, 0) /\ s[2] = Half(mark, 2, 0)
    BY <1>0, LenProperties
  <1>2. \A k \in DOMAIN s : s[k].what = mark
    BY <1>1 DEF Half
  <1>3. \A V : Silent(s, V)
    BY <1>2 DEF Silent, OutputOf, Shown
  <1>4. \A m : m # mark => Lacks(s, m)
    BY <1>2 DEF Lacks
  <1> QED  BY <1>3, <1>4 DEF s

\* What a command prints, and the prompt after it.
LEMMA CommandWrites ==
    ASSUME Types, NEW n \in DOMAIN steps, NEW V, Own(n) \subseteq V
    PROVE  LET w == Output(n) \o Mark("prompt", 0)
           IN  /\ w \in Seq(Pieces)
               /\ steps[n] # "prints" => Silent(w, V)
               /\ steps[n] = "cmd" => \E k \in DOMAIN w : w[k] = Line(n)
  <1> DEFINE o == Output(n)
             m == Mark("prompt", 0)
  <1>1. o \in Seq(Pieces) /\ m \in Seq(Pieces) /\ Silent(m, V)
    BY PiecesWritten, PromptsAreSilent
  <1>2. o \o m \in Seq(Pieces) /\ HoldsBoth(o \o m, o, m)
    <2> HIDE DEF o, m
    <2> QED  BY <1>1, Joined, JoinHolds
  <1> DEFINE a == <<Echo(n)>>
             b == Printed(n)
  <1>h. HoldsBoth(o, a, b)
    <2>1. a \in Seq(Pieces) /\ b \in Seq(Pieces) /\ o = a \o b
      BY PiecesWritten DEF Output
    <2> HIDE DEF a, b, o
    <2> QED  BY <2>1, JoinHolds
  <1>3. steps[n] # "prints" => Silent(o, V)
    <2>1. Silent(<<>>, V) /\ Silent(<<Ask>>, V)
      BY DEF Silent, OutputOf, Shown, Ask
    <2>2. \A e \in Own(n) : e.what # "done" /\ e \in V
      BY DEF Own, Line, Text, Like, Echo
    <2>3. \A e \in Own(n) : Silent(<<e>>, V)
      BY <2>2 DEF Silent, OutputOf
    <2>4. /\ Silent(<<Line(n)>>, V) /\ Silent(<<Text(n)>>, V)
          /\ Silent(<<Like(n)>>, V) /\ Silent(a, V)
      BY <2>3 DEF Own
    <2>5. steps[n] # "prints" => Silent(b, V)
      BY <2>1, <2>4, StepNumbers DEF Printed, Kinds
    <2> HIDE DEF a, b, o
    <2> QED  BY <1>h, <2>4, <2>5, SilentBoth
  <1>4. steps[n] = "cmd" => \E k \in DOMAIN o : o[k] = Line(n)
    <2>1. steps[n] = "cmd" => b = <<Line(n)>>
      BY DEF Printed
    <2> HIDE DEF a, b, o
    <2>2. steps[n] = "cmd" => 1 \in DOMAIN b /\ b[1] = Line(n)
      BY <2>1
    <2> QED  BY <1>h, <2>2 DEF HoldsBoth
  <1> HIDE DEF a, b
  <1> HIDE DEF o, m
  <1>5. steps[n] # "prints" => Silent(o \o m, V)
    BY <1>1, <1>2, <1>3, SilentBoth
  <1>6. steps[n] = "cmd" => \E k \in DOMAIN (o \o m) : (o \o m)[k] = Line(n)
    BY <1>2, <1>4 DEF HoldsBoth
  <1> QED  BY <1>2, <1>5, <1>6 DEF o, m

\* What is left after a match.
LEMMA RestKept ==
    ASSUME Types, Matched, buf' = Rest, out' = out, writing' = writing
    PROVE  /\ \A V : Silent(Stream, V) => Silent(Stream', V)
           /\ \A mark : Lacks(Stream, mark) => Lacks(Stream', mark)
  <1>1. PICK e \in 2..Len(buf) :
             /\ Stream' \in Seq(Pieces) /\ Len(Stream') = Len(Stream) - e
             /\ \A k \in 1..Len(Stream') : Stream'[k] = Stream[e + k]
    BY MatchTaken
  <1>2. DOMAIN Stream' = 1..Len(Stream') /\ DOMAIN Stream = 1..Len(Stream)
        /\ Len(Stream) \in Nat /\ Len(Stream') \in Nat /\ Len(buf) \in Nat
    BY <1>1, StreamFacts, LenProperties
  <1>3. \A k \in DOMAIN Stream' : e + k \in DOMAIN Stream
    BY <1>1, <1>2
  <1>4. \A k \in DOMAIN Stream' : \E l \in DOMAIN Stream : Stream'[k] = Stream[l]
    BY <1>1, <1>2, <1>3
  <1>5. \A V : Silent(Stream, V) => Silent(Stream', V)
    BY <1>4 DEF Silent
  <1>6. \A mark : Lacks(Stream, mark) => Lacks(Stream', mark)
    BY <1>4 DEF Lacks
  <1> QED  BY <1>5, <1>6

\* Nothing matches while no sentinel, and no mark, is there.
LEMMA MatchIsThere ==
    ASSUME Types, Matched
    PROVE  ~Lacks(Stream, Pattern)
  <1>1. PICK e \in 2..Len(buf) : buf[e].what = Pattern
    BY DEF Matched, MatchEnds
  <1>2. e \in DOMAIN Stream /\ Stream[e] = buf[e]
    BY StreamFacts
  <1> QED  BY <1>1, <1>2 DEF Lacks

LEMMA SilentLacks == ASSUME NEW s, NEW V, Silent(s, V) PROVE Lacks(s, "done")
  BY DEF Silent, Lacks

------------------------------------------------------------------------------
(* Script and guest keep in step: what expect does.                        *)

\* A script that gives up or is at its end waits for nothing.
LEMMA EndedPhase ==
    ASSUME Phase, at' = "ended", UNCHANGED <<buf, out, writing, shell>>
    PROVE  Phase'
  <1>1. Stream' = Stream
    BY DEF Stream
  <1> QED  BY <1>1 DEF Phase, Unwritten

LEMMA FailKeepsStep == ASSUME InStep, Fail PROVE InStep'
  <1>1. /\ at' = "ended" /\ rc' = 1
        /\ UNCHANGED <<steps, push, next, buf, got, reported, out, writing, shell,
                       late, exits, log>>
    BY DEF Fail, guest, history
  <1>2. Behind' = Behind /\ Background' = Background
    BY <1>1 DEF Behind, Background
  <1>3. \A n : Settled(n)' = Settled(n)
    BY <1>1 DEF Settled
  <1>4. Books'
    BY <1>1, <1>2, <1>3 DEF InStep, Books
  <1>5. Phase'
    BY <1>1, EndedPhase DEF InStep
  <1> QED  BY <1>4, <1>5 DEF InStep

LEMMA InStepExpect == ASSUME Types, InStep, Expect PROVE InStep'
  <1>1. ASSUME NEW c, MayRead(c), Stream' = Stream PROVE InStep'
    <2>1. UNCHANGED <<steps, push, at, next, got, reported, rc, typed, shell, late,
                      status, exits, log, refused>>
      BY <1>1 DEF MayRead, guest, history
    <2>2. TextKept
      BY <1>1, <2>1, SameText
    <2>3. Phase'
      BY <2>1, <2>2, PhaseKept DEF InStep
    <2>4. Behind' = Behind /\ Background' = Background
      BY <2>1 DEF Behind, Background
    <2>5. \A n : Settled(n)' = Settled(n) /\ TakenUpTo(n)' = TakenUpTo(n) /\ Ran(n)' = Ran(n)
      BY <2>1 DEF Settled, TakenUpTo, Ran
    <2>6. Books'
      BY <2>1, <2>4, <2>5 DEF InStep, Books
    <2> QED  BY <2>3, <2>6 DEF InStep
  <1>2. CASE Check \/ NothingToRead
    <2>1. buf' = buf /\ out' = out /\ \E c : MayRead(c)
      BY <1>2 DEF Check, NothingToRead
    <2>2. Stream' = Stream
      BY <2>1 DEF Stream, MayRead, guest
    <2> QED  BY <1>1, <2>1, <2>2
  <1>3. CASE Read
    BY <1>1, <1>3, ReadKeepsStream DEF Read
  <1> QED  BY <1>2, <1>3, FailKeepsStep DEF Expect, TimeOut, SeesExit, ConsoleClosed

------------------------------------------------------------------------------
(* Script and guest keep in step: what main does.                          *)

\* The script sees the login prompt.
LEMMA InStepLoginSeen == ASSUME Types, InStep, LoginSeen PROVE InStep'
  <1>1. /\ at = "boot" /\ Matched /\ buf' = Rest /\ at' = "login"
        /\ typed' = typed \o <<<<"root", 0>>>>
        /\ UNCHANGED <<steps, push, next, got, reported, rc, out, shell, writing, late,
                       status, exits, log, refused>>
    BY DEF LoginSeen, Type, history
  <1>2. shell = "getty" /\ typed = <<>>
    BY <1>1, GettyWaits DEF StepInv
  <1>3. /\ \A V : Silent(Stream, V) => Silent(Stream', V)
        /\ \A mark : Lacks(Stream, mark) => Lacks(Stream', mark)
    BY <1>1, RestKept
  <1>4. Behind' = Behind /\ Background' = Background
    BY <1>1 DEF Behind, Background
  <1>5. typed' = <<<<"root", 0>>>>
    BY <1>1, <1>2
  <1>6. Silent(Stream', Behind')
    BY <1>1, <1>3, <1>4 DEF InStep, Phase, Booting
  <1>7. Unwritten'
    BY <1>1, <1>2, <1>3 DEF InStep, Phase, Unwritten
  <1>8. LoggingIn'
    BY <1>1, <1>2, <1>5, <1>6 DEF LoggingIn
  <1>9. Phase'
    BY <1>1, <1>7, <1>8 DEF Phase
  <1>10. \A n : Settled(n)' = Settled(n) /\ TakenUpTo(n)' = TakenUpTo(n) /\ Ran(n)' = Ran(n)
    BY <1>1 DEF Settled, TakenUpTo, Ran
  <1>11. Books'
    BY <1>1, <1>4, <1>10 DEF InStep, Books
  <1> QED  BY <1>9, <1>11 DEF InStep

\* Only the command's sentinel ends the wait for it.
LEMMA SentinelIsDone ==
    ASSUME Types, InStep, at \in {"push", "wait"}, Matched, buf' = Rest,
           out' = out, writing' = writing
    PROVE  /\ Done(next - 1)
           /\ next - 1 \in Nat
           /\ \E s \in Statuses :
                 /\ Answered(Stream, Behind, next - 1, s)
                 /\ next - 1 > 0 => s = exits[next - 1]
           /\ \A V : Silent(Stream, V) => Silent(Stream', V)
           /\ Silent(Stream', Behind)
  <1> DEFINE n == next - 1
  <1>1. n \in Nat
    BY StepNumbers
  <1>2. Waiting(n) /\ ~Lacks(Stream, "done")
    BY MatchIsThere DEF InStep, Phase, Pattern
  <1> HIDE DEF n
  <1>3. Done(n)
    BY <1>2, SilentLacks DEF Waiting, Asked, Running, Robbed
  <1>4. PICK s \in Statuses : Answered(Stream, Behind, n, s) /\ (n > 0 => s = exits[n])
    BY <1>3 DEF Done
  <1>5. PICK e \in 2..Len(buf) :
               /\ buf[e-1].what = "done" /\ buf[e-1].half = 1
               /\ buf[e].what = "done" /\ buf[e].half = 2
               /\ Stream' \in Seq(Pieces)
               /\ Len(Stream') = Len(Stream) - e
               /\ \A k \in 1..Len(Stream') : Stream'[k] = Stream[e + k]
    BY MatchTaken DEF Pattern
  <1>6. e \in 2..Len(Stream) /\ Stream[e] = buf[e] /\ Stream[e-1] = buf[e-1]
        /\ Stream \in Seq(Pieces) /\ Len(Stream) \in Nat
    <2>1. Len(buf) \in Nat /\ Len(Stream) \in Nat /\ Len(buf) <= Len(Stream)
      BY StreamFacts
    <2>2. e \in 1..Len(buf) /\ e - 1 \in 1..Len(buf) /\ e \in 2..Len(Stream)
      BY <2>1
    <2> QED  BY <2>2, StreamFacts
  <1>7. \A k \in 1..Len(Stream) :
            k > e => Stream[k].what # "done" /\ OutputOf(Stream[k], Behind)
    <2>1. /\ Stream[e-1].what = "done" /\ Stream[e-1].half = 1
          /\ Stream[e].what = "done" /\ Stream[e].half = 2
      BY <1>5, <1>6
    <2>2. Taken(Stream, e, Behind, n, s)
      BY <1>1, <1>4, <1>6, <2>1, AnswerIsTaken
    <2> QED  BY <2>2 DEF Taken
  <1>8. Silent(Stream', Behind)
    <2>1. DOMAIN Stream' = 1..Len(Stream') /\ Len(Stream') \in Nat
      BY <1>5, LenProperties
    <2>2. \A k \in DOMAIN Stream' : e + k \in 1..Len(Stream) /\ e + k > e
      BY <1>5, <1>6, <2>1
    <2>3. \A k \in DOMAIN Stream' : Stream'[k] = Stream[e + k]
      BY <1>5, <2>1
    <2> QED  BY <1>7, <2>2, <2>3 DEF Silent
  <1>9. \A V : Silent(Stream, V) => Silent(Stream', V)
    BY RestKept
  <1> QED  BY <1>1, <1>3, <1>4, <1>8, <1>9 DEF n

\* The shell's prompt, or the sentinel of a push.
LEMMA InStepReady == ASSUME Types, InStep, Ready PROVE InStep'
  <1>1. /\ at \in {"login", "push"} /\ Matched /\ buf' = Rest /\ at' = "ready"
        /\ UNCHANGED <<steps, push, next, got, reported, rc, out, typed, shell, writing,
                       late, status, exits, log, refused>>
    BY DEF Ready, guest, history
  <1>2. /\ \A V : Silent(Stream, V) => Silent(Stream', V)
        /\ \A mark : Lacks(Stream, mark) => Lacks(Stream', mark)
    BY <1>1, RestKept
  <1>3. Behind' = Behind /\ Background' = Background
    BY <1>1 DEF Behind, Background
  <1>4. next = 1 /\ next - 1 = 0 /\ 1 - 1 = 0
    BY <1>1 DEF InStep, Books
  <1>5. shell = "shell" /\ typed = <<>> /\ Ran(0) /\ Silent(Stream', Behind)
    <2>1. CASE at = "login"
      <3>1. LoggingIn /\ Ran(0) /\ Unwritten
        BY <2>1 DEF InStep, Phase, Books
      <3>2. ~Lacks(Stream, "prompt")
        BY <1>1, <2>1, MatchIsThere DEF Pattern
      <3> QED  BY <1>2, <3>1, <3>2 DEF LoggingIn, Unwritten
    <2>2. CASE at = "push"
      <3>1. Done(next - 1) /\ Silent(Stream', Behind)
        BY <1>1, <2>2, SentinelIsDone
      <3>2. Waiting(next - 1)
        BY <2>2 DEF InStep, Phase
      <3> QED  BY <1>4, <3>1, <3>2 DEF Done, Waiting
    <2> QED  BY <1>1, <2>1, <2>2
  <1>6. \A n : Settled(n)' = Settled(n) /\ TakenUpTo(n)' = TakenUpTo(n) /\ Ran(n)' = Ran(n)
    BY <1>1 DEF Settled, TakenUpTo, Ran
  <1>7. AtRest'
    BY <1>1, <1>3, <1>4, <1>5, <1>6 DEF AtRest, Ran
  <1>8. Phase'
    BY <1>1, <1>5, <1>7 DEF Phase, Unwritten
  <1>9. Books'
    BY <1>1, <1>3, <1>6 DEF InStep, Books
  <1> QED  BY <1>8, <1>9 DEF InStep

\* What a match reports is the command's output and that of background commands.
LEMMA ReportIsOwn ==
    ASSUME Types, NEW c \in Seq(Pieces), NEW V, NEW n \in Nat,
           \A k \in 1..Len(c) : OutputOf(c[k], V \cup Own(n)),
           \A k \in 1..(Len(c) - 2) : c[k].what # "done",
           n > 0 /\ steps[n] = "cmd" => \E k \in 1..(Len(c) - 2) : c[k] = Line(n)
    PROVE  /\ OwnOutput(c, n) \subseteq V \cup Own(n)
           /\ n > 0 /\ steps[n] = "cmd" => Line(n) \in OwnOutput(c, n)
  <1>1. DOMAIN c = 1..Len(c) /\ Len(c) \in Nat
    BY LenProperties
  <1>2. OwnOutput(c, n) \subseteq V \cup Own(n)
    BY <1>1 DEF OwnOutput, OutputOf
  <1>3. ASSUME NEW k \in 1..(Len(c) - 2), c[k] = Line(n) PROVE Line(n) \in OwnOutput(c, n)
    <2>1. c[k].what = "line" /\ k \in DOMAIN c /\ EndsLine(c[k])
      BY <1>1, <1>3 DEF Line, EndsLine
    <2>2. ASSUME NEW j \in LineOf(c, k) PROVE c[j].what \notin {"done", "ask"}
      <3>1. j \in DOMAIN c /\ SameLine(c, j, k)
        BY <2>2 DEF LineOf
      <3>2. ~(k < j)
        BY <1>1, <2>1, <3>1 DEF SameLine
      <3>3. j < k => c[j].what # "ask"
        BY <1>1, <2>1, <3>1 DEF SameLine, EndsLine
      <3>4. j < k => c[j].what # "done"
        BY <1>1, <3>1
      <3>5. j < k \/ j = k \/ k < j
        BY <1>1, <3>1
      <3> QED  BY <2>1, <3>2, <3>3, <3>4, <3>5
    <2>3. ~(c[k] = Echo(n) \/ c[k].what = "like")
      BY <2>1 DEF Echo
    <2>4. ~Scaffolding(c, n, k)
      BY <2>2, <2>3 DEF Scaffolding
    <2> QED  BY <1>3, <2>1, <2>4 DEF OwnOutput, Shown
  <1> QED  BY <1>2, <1>3

\* The sentinel of a command: its status and its output are taken.
LEMMA InStepSentinelSeen == ASSUME Types, InStep, SentinelSeen PROVE InStep'
  <1> DEFINE n == next - 1
             s == Last(Consumed).val
             o == OwnOutput(Consumed, n)
  <1>1. /\ at = "wait" /\ Matched /\ buf' = Rest /\ at' = "ready"
        /\ got' = [got EXCEPT ![n] = s]
        /\ reported' = [reported EXCEPT ![n] = o]
        /\ rc' = Result(s)
        /\ UNCHANGED <<steps, push, next, out, typed, shell, writing, late, status,
                       exits, log, refused>>
    BY DEF SentinelSeen, guest, history
  <1>2. n \in DOMAIN steps /\ n \in Nat /\ n > 0 /\ next = n + 1
    <2>1. next >= 2
      BY <1>1 DEF Types
    <2> QED  BY <2>1, StepNumbers
  <1>3. /\ Done(n) /\ Silent(Stream', Behind)
        /\ \E v \in Statuses : Answered(Stream, Behind, n, v) /\ (n > 0 => v = exits[n])
    BY <1>1, SentinelIsDone
  <1>4. Behind' = Behind /\ Background' = Background
    BY <1>1 DEF Behind, Background
  <1> HIDE DEF n, s, o
  <1>5. PICK v \in Statuses : Answered(Stream, Behind, n, v) /\ v = exits[n]
    BY <1>2, <1>3
  <1>6. PICK e \in 2..Len(buf) :
             /\ buf[e-1].what = "done" /\ buf[e-1].half = 1
             /\ buf[e].what = "done" /\ buf[e].half = 2
             /\ Consumed \in Seq(Pieces) /\ Len(Consumed) = e
             /\ \A k \in 1..e : Consumed[k] = Stream[k]
    BY <1>1, MatchTaken DEF Pattern
  <1>7. e \in 2..Len(Stream) /\ Stream[e] = buf[e] /\ Stream[e-1] = buf[e-1]
        /\ Stream \in Seq(Pieces) /\ e \in Nat
    <2>1. Len(buf) \in Nat /\ Len(Stream) \in Nat /\ Len(buf) <= Len(Stream)
      BY StreamFacts
    <2>2. e \in 1..Len(buf) /\ e - 1 \in 1..Len(buf) /\ e \in 2..Len(Stream) /\ e \in Nat
      BY <2>1
    <2> QED  BY <2>2, StreamFacts
  <1>8. /\ Stream[e].val = v
        /\ \A k \in 1..e : OutputOf(Stream[k], Behind \cup Own(n))
        /\ \A k \in 1..(e - 2) : Stream[k].what # "done"
        /\ n > 0 /\ steps[n] = "cmd" => \E k \in 1..(e - 2) : Stream[k] = Line(n)
    <2>1. /\ Stream[e-1].what = "done" /\ Stream[e-1].half = 1
          /\ Stream[e].what = "done" /\ Stream[e].half = 2
      BY <1>6, <1>7
    <2>2. Taken(Stream, e, Behind, n, v)
      BY <1>2, <1>5, <1>7, <2>1, AnswerIsTaken
    <2> QED  BY <2>2 DEF Taken
  <1>9. s = v
    <2>1. Last(Consumed) = Consumed[e] /\ e \in 1..e
      BY <1>6, <1>7 DEF Last
    <2> QED  BY <1>6, <1>8, <2>1 DEF s
  <1>10. o \subseteq Behind \cup Own(n) /\ (steps[n] = "cmd" => Line(n) \in o)
    <2>0. \A k \in 1..(e - 2) : k \in 1..e
      BY <1>7
    <2>1. \A k \in 1..Len(Consumed) : OutputOf(Consumed[k], Behind \cup Own(n))
      BY <1>6, <1>8
    <2>2. /\ \A k \in 1..(Len(Consumed) - 2) : Consumed[k].what # "done"
          /\ n > 0 /\ steps[n] = "cmd"
                => \E k \in 1..(Len(Consumed) - 2) : Consumed[k] = Line(n)
      BY <1>6, <1>8, <2>0
    <2>3. Consumed \in Seq(Pieces)
      BY <1>6
    <2>4. OwnOutput(Consumed, n) \subseteq Behind \cup Own(n)
          /\ (n > 0 /\ steps[n] = "cmd" => Line(n) \in OwnOutput(Consumed, n))
      BY <1>2, <2>1, <2>2, <2>3, ReportIsOwn
    <2> QED  BY <1>2, <2>4 DEF o
  <1>11. /\ DOMAIN got = DOMAIN steps /\ DOMAIN reported = DOMAIN steps
         /\ DOMAIN steps \subseteq Nat
    BY StepNumbers DEF Types, TypeOK
  <1>12. /\ got'[n] = exits[n] /\ reported'[n] = o
         /\ \A m \in DOMAIN steps : m # n => got'[m] = got[m] /\ reported'[m] = reported[m]
    BY <1>1, <1>2, <1>5, <1>9, <1>11
  <1>13. \A m \in DOMAIN steps : Settled(m)'
    <2>1. ASSUME NEW m \in DOMAIN steps, m = n PROVE Settled(m)'
      <3>1. \A k \in Background : (k < n \/ k = n) /\ steps[k] = "bg"
        BY <1>2, StepNumbers DEF Background
      <3>a. \A p \in Own(n) : p.val = n
        BY DEF Own, Line, Text, Like, Echo
      <3>b. \A p \in Behind : \E k \in Background : p = Line(k) /\ p.val = k
        BY DEF Behind, Line
      <3>2. \A p \in o : p.val = n \/ (p = Line(p.val) /\ p.val < n /\ steps[p.val] = "bg")
        BY <1>10, <3>1, <3>a, <3>b
      <3> QED  BY <1>1, <1>10, <1>12, <2>1, <3>2 DEF Settled
    <2>2. ASSUME NEW m \in DOMAIN steps, m # n PROVE Settled(m)'
      <3>1. Settled(m)
        BY DEF InStep, Books
      <3> QED  BY <1>1, <1>12, <2>2, <3>1 DEF Settled
    <2> QED  BY <2>1, <2>2
  <1>14. TakenUpTo(next)'
    <2>1. TakenUpTo(n)
      BY <1>1 DEF InStep, Books, n
    <2>2. \A m \in DOMAIN steps : m >= next => m >= n /\ m # n
      BY <1>2, <1>11
    <2>3. \A m \in DOMAIN steps : m >= next' => got'[m] = None
      BY <1>1, <1>12, <2>1, <2>2 DEF TakenUpTo
    <2>4. rc' = 0 => rc = 0 /\ exits[n] = 0
      BY <1>1, <1>5, <1>9 DEF Result
    <2>5. \A m \in DOMAIN steps : m < next => m < n \/ m = n
      BY <1>2, <1>11
    <2>6. rc' = 0 => /\ ~refused'
                     /\ \A m \in DOMAIN steps' :
                            m < next' => steps'[m] = "key" \/ exits'[m] = 0
      BY <1>1, <2>1, <2>4, <2>5 DEF TakenUpTo
    <2> QED  BY <1>1, <2>3, <2>6 DEF TakenUpTo
  <1>15. \A m : Ran(m)' = Ran(m)
    BY <1>1 DEF Ran
  <1>16. shell = "shell"
    BY <1>1 DEF InStep, Phase, Waiting
  <1>17. Phase'
    <2>1. typed = <<>> /\ Ran(n)
      BY <1>3 DEF Done
    <2>2. AtRest'
      BY <1>1, <1>3, <1>4, <1>15, <1>16, <2>1 DEF AtRest, Ran, n
    <2> QED  BY <1>1, <1>16, <2>2 DEF Phase, Unwritten
  <1>18. Books'
    <2>1. next # 1
      BY <1>2
    <2>2. ~push
      BY <2>1 DEF InStep, Books
    <2> QED  BY <1>1, <1>4, <1>13, <1>14, <2>2 DEF InStep, Books
  <1> QED  BY <1>17, <1>18 DEF InStep

\* A push is asked for.
LEMMA InStepSendPush == ASSUME Types, InStep, SendPush PROVE InStep'
  <1>1. /\ at = "ready" /\ push /\ push' = FALSE /\ at' = "push"
        /\ typed' = typed \o <<<<"push", 0>>, <<"echo", 0>>>>
        /\ UNCHANGED <<steps, next, buf, got, reported, rc, out, shell, writing, late,
                       status, exits, log, refused>>
    BY DEF SendPush, Type, history
  <1>2. next = 1 /\ next - 1 = 0 /\ 0 - 1 = -1 /\ 1..0 = {} /\ 1..(-1) = {}
    BY <1>1 DEF InStep, Books
  <1>3. Behind' = Behind /\ Background' = Background /\ Stream' = Stream
    BY <1>1 DEF Behind, Background, Stream
  <1>4. AtRest
    BY <1>1 DEF InStep, Phase
  <1>5. \A n : Settled(n)' = Settled(n) /\ TakenUpTo(n)' = TakenUpTo(n) /\ Ran(n)' = Ran(n)
    BY <1>1 DEF Settled, TakenUpTo, Ran
  <1>6. Asked(0)'
    <2>1. typed' = <<<<"push", 0>>, <<"echo", 0>>>>
      BY <1>1, <1>4 DEF AtRest
    <2>2. log = [i \in 1..(0 - 1) |-> i]
      BY <1>2, <1>4 DEF AtRest, Ran
    <2> QED  BY <1>1, <1>3, <1>4, <2>1, <2>2 DEF AtRest, Asked, Ran
  <1>7. Waiting(next - 1)'
    <2>1. Waiting(0)'
      BY <1>1, <1>4, <1>6 DEF Waiting, AtRest
    <2> QED  BY <1>1, <1>2, <2>1
  <1>8. Phase'
    BY <1>1, <1>4, <1>7 DEF AtRest, Phase, Unwritten
  <1>9. Books'
    BY <1>1, <1>2, <1>3, <1>5 DEF InStep, Books
  <1> QED  BY <1>8, <1>9 DEF InStep

\* A command is typed, and the line that asks for its status.
LEMMA InStepSendCommand == ASSUME Types, InStep, SendCommand PROVE InStep'
  <1>1. /\ at = "ready" /\ ~push /\ next' = next + 1 /\ at' = "wait"
        /\ typed' = typed \o <<<<"step", next>>, <<"echo", 0>>>>
        /\ UNCHANGED <<steps, push, buf, got, reported, rc, out, shell, writing, late,
                       status, exits, log, refused>>
    BY DEF SendCommand, HasStep, AfterCommand, Type, history
  <1>2. next \in Nat /\ next >= 1 /\ next # 0 /\ next' - 1 = next
    BY <1>1, StepNumbers
  <1>3. Stream' = Stream
    BY <1>1 DEF Stream
  <1>4. Behind \subseteq Behind' /\ Background \subseteq Background'
    BY <1>1, <1>2 DEF Behind, Background
  <1>5. AtRest
    BY <1>1 DEF InStep, Phase
  <1>6. \A n : Settled(n)' = Settled(n) /\ TakenUpTo(n)' = TakenUpTo(n)
    BY <1>1 DEF Settled, TakenUpTo
  <1>7. Waiting(next - 1)'
    <2>1. typed' = <<<<"step", next>>, <<"echo", 0>>>>
      BY <1>1, <1>5 DEF AtRest
    <2>2. Silent(Stream', Behind')
      BY <1>3, <1>4, <1>5, SilentMore DEF AtRest
    <2>3. log' = [i \in 1..(next - 1) |-> i]
      BY <1>1, <1>5 DEF AtRest, Ran
    <2>4. shell' = "shell"
      BY <1>1, <1>5 DEF AtRest
    <2> QED  BY <1>2, <2>1, <2>2, <2>3, <2>4 DEF Waiting, Asked, Ran
  <1>8. Phase'
    BY <1>1, <1>5, <1>7 DEF AtRest, Phase, Unwritten
  <1>9. TakenUpTo(next)
    BY <1>1 DEF InStep, Books
  <1>10. TakenUpTo(next - 1)'
    BY <1>2, <1>6, <1>9
  <1>11. Books'
    BY <1>1, <1>4, <1>6, <1>10 DEF InStep, Books
  <1> QED  BY <1>8, <1>11 DEF InStep

\* One step more has reached the guest.
LEMMA RanOneMore ==
    ASSUME Types, NEW n \in DOMAIN steps, Ran(n - 1), log' = Append(log, n)
    PROVE  /\ Ran(n)'
           /\ \A k \in DOMAIN log' : log'[k] = k
           /\ DOMAIN log' = 1..n
  <1>1. n \in Nat /\ n >= 1 /\ log \in Seq(DOMAIN steps)
    BY StepNumbers DEF Types
  <1>2. DOMAIN log = 1..(n - 1) /\ \A k \in 1..(n - 1) : log[k] = k
    BY DEF Ran
  <1>3. Len(log) = n - 1
    <2>1. DOMAIN log = 1..Len(log) /\ Len(log) \in Nat
      BY <1>1, LenProperties
    <2> QED  BY <1>1, <1>2, <2>1
  <1>4. /\ log' \in Seq(DOMAIN steps) /\ Len(log') = n
        /\ \A k \in 1..(n - 1) : log'[k] = log[k]
        /\ log'[n] = n
    <2>1. /\ Append(log, n) \in Seq(DOMAIN steps) /\ Len(Append(log, n)) = Len(log) + 1
          /\ \A k \in 1..Len(log) : Append(log, n)[k] = log[k]
          /\ Append(log, n)[Len(log) + 1] = n
      BY <1>1, AppendProperties
    <2> QED  BY <1>1, <1>3, <2>1
  <1>5. DOMAIN log' = 1..n
    BY <1>4, LenProperties
  <1>6. \A k \in 1..n : log'[k] = k
    BY <1>1, <1>2, <1>4
  <1>7. log' = [k \in 1..n |-> log'[k]]
    BY <1>4, <1>5, LenProperties
  <1>8. log' = [k \in 1..n |-> k]
    BY <1>6, <1>7
  <1> QED  BY <1>5, <1>6, <1>8 DEF Ran

\* A key is pressed.
LEMMA InStepSendKey == ASSUME Types, InStep, SendKey PROVE InStep'
  <1>1. /\ at = "ready" /\ ~push /\ next <= Len(steps) /\ steps[next] = "key"
        /\ next' = next + 1 /\ log' = Append(log, next)
        /\ \E err \in BOOLEAN : /\ rc' = IF err THEN 1 ELSE rc
                                /\ refused' = (refused \/ err)
        /\ UNCHANGED <<steps, push, at, buf, got, reported, out, typed, shell, writing,
                       late, status, exits>>
    BY DEF SendKey, HasStep, guest
  <1>2. next \in DOMAIN steps /\ next \in Nat /\ next' - 1 = next /\ DOMAIN steps \subseteq Nat
    BY <1>1, StepNumbers
  <1>3. Stream' = Stream
    BY <1>1 DEF Stream
  <1>4. Behind \subseteq Behind' /\ Background \subseteq Background'
    BY <1>1, <1>2 DEF Behind, Background
  <1>5. AtRest
    BY <1>1 DEF InStep, Phase
  <1>6. \A n : Settled(n)' = Settled(n)
    BY <1>1 DEF Settled
  <1>7. log' = [k \in 1..next |-> k] /\ \A k \in DOMAIN log' : log'[k] = k
    <2>1. Ran(next - 1)
      BY <1>5 DEF AtRest
    <2> DEFINE n == next
    <2>2. n \in DOMAIN steps /\ Ran(n - 1) /\ log' = Append(log, n)
      BY <1>1, <1>2, <2>1
    <2> HIDE DEF n
    <2>3. \A m \in DOMAIN steps : Ran(m - 1) /\ log' = Append(log, m)
              => Ran(m)' /\ \A k \in DOMAIN log' : log'[k] = k
      BY RanOneMore
    <2>4. \A m \in DOMAIN steps : Ran(m - 1) /\ log' = Append(log, m)
              => log' = [k \in 1..m |-> k]
      BY <2>3 DEF Ran
    <2> QED  BY <2>2, <2>3, <2>4 DEF n
  <1>8. Ran(next - 1)'
    BY <1>2, <1>7 DEF Ran
  <1>9. Phase'
    <2>1. Silent(Stream', Behind')
      BY <1>3, <1>4, <1>5, SilentMore DEF AtRest
    <2>2. AtRest'
      BY <1>1, <1>5, <1>8, <2>1 DEF AtRest
    <2> QED  BY <1>1, <1>5, <2>2 DEF AtRest, Phase, Unwritten
  <1>10. TakenUpTo(next)'
    <2>1. TakenUpTo(next)
      BY <1>1 DEF InStep, Books
    <2>2. \A m \in DOMAIN steps : m >= next' => m >= next
      BY <1>1, <1>2
    <2>3. \A m \in DOMAIN steps : m < next' => m < next \/ m = next
      BY <1>1, <1>2
    <2>4. rc' = 0 => rc = 0 /\ (~refused => ~refused')
      <3>1. PICK err \in BOOLEAN : /\ rc' = IF err THEN 1 ELSE rc
                                   /\ refused' = (refused \/ err)
        BY <1>1
      <3>2. CASE err
        BY <3>1, <3>2
      <3>3. CASE ~err
        <4>1. rc' = rc
          BY <3>1, <3>3
        <4>2. ~refused => ~refused'
          BY <3>1, <3>3, Zenon
        <4> QED  BY <4>1, <4>2
      <3> QED  BY <3>2, <3>3
    <2>5. \A m \in DOMAIN steps : m >= next' => got[m] = None
      BY <2>1, <2>2 DEF TakenUpTo
    <2>6. rc' = 0 => /\ ~refused'
                     /\ \A m \in DOMAIN steps : m < next' => steps[m] = "key" \/ exits[m] = 0
      BY <1>1, <2>1, <2>3, <2>4 DEF TakenUpTo
    <2> QED  BY <1>1, <2>5, <2>6 DEF TakenUpTo
  <1>11. Books'
    BY <1>1, <1>4, <1>6, <1>7, <1>10 DEF InStep, Books
  <1> QED  BY <1>9, <1>11 DEF InStep

\* The last step has been taken.
LEMMA InStepFinish == ASSUME Types, InStep, Finish PROVE InStep'
  <1>1. /\ at = "ready" /\ ~push /\ next > Len(steps) /\ at' = "ended"
        /\ UNCHANGED <<steps, push, next, buf, got, reported, rc, out, typed, shell,
                       writing, late, status, exits, log, refused>>
    BY DEF Finish, guest, history
  <1>2. next = Len(steps) + 1 /\ next - 1 = Len(steps)
    BY <1>1, StepNumbers
  <1>3. TakenUpTo(next) /\ Ran(next - 1)
    BY <1>1 DEF InStep, Phase, Books, AtRest
  <1>4. Behind' = Behind /\ Background' = Background
    BY <1>1 DEF Behind, Background
  <1>5. \A n : Settled(n)' = Settled(n) /\ TakenUpTo(n)' = TakenUpTo(n) /\ Ran(n)' = Ran(n)
    BY <1>1 DEF Settled, TakenUpTo, Ran
  <1>6. Phase'
    BY <1>1, EndedPhase DEF InStep
  <1>7. Books'
    BY <1>1, <1>2, <1>3, <1>4, <1>5 DEF InStep, Books
  <1> QED  BY <1>6, <1>7 DEF InStep

LEMMA InStepMain == ASSUME Types, InStep, Main PROVE InStep'
  BY InStepLoginSeen, InStepReady, InStepSentinelSeen, InStepSendPush,
     InStepSendCommand, InStepSendKey, InStepFinish, FailKeepsStep DEF Main, Raises

------------------------------------------------------------------------------
(* Script and guest keep in step: what the guest does.                     *)

\* A guest that is not yet a shell is not asked for anything.
LEMMA ShellPhase ==
    ASSUME Types, Phase, at # "ended", typed # <<>>, shell = "shell"
    PROVE  /\ at \in {"push", "wait"}
           /\ Asked(next - 1) \/ Running(next - 1)
  <1>1. at \in {"boot", "login", "push", "ready", "wait", "ended"}
    BY DEF Types, TypeOK
  <1>2. at \in {"push", "wait"}
    BY <1>1 DEF Phase, Booting, LoggingIn, AtRest
  <1>3. Waiting(next - 1)
    BY <1>2 DEF Phase
  <1> QED  BY <1>2, <1>3 DEF Waiting, Done, Robbed

\* The machine is up and asks for a login.
LEMMA InStepBootUp == ASSUME Types, InStep, at # "ended", BootUp PROVE InStep'
  <1>1. /\ writing = <<>> /\ shell = "boot" /\ shell' = "getty"
        /\ writing' = Mark("login", 0)
        /\ UNCHANGED <<script, out, typed, late, status, exits, log, refused>>
    BY DEF BootUp, Idle, history
  <1>2. UNCHANGED <<steps, at, next, buf>>
    BY <1>1 DEF script
  <1>3. at = "boot"
    BY <1>1 DEF Types, TypeOK, InStep, Phase, LoggingIn, AtRest, Waiting
  <1>4. Mark("login", 0) \in Seq(Pieces)
    BY PiecesWritten
  <1>5. HoldsBoth(Stream', Stream, Mark("login", 0))
    BY <1>1, <1>2, <1>4, GuestText
  <1>6. Behind' = Behind /\ Background' = Background
    BY <1>2 DEF Behind, Background
  <1>7. Silent(Stream', Behind)
    BY <1>3, <1>5, SilentBoth, PromptsAreSilent DEF InStep, Phase, Booting
  <1>8. Lacks(Stream', "prompt")
    BY <1>1, <1>5, SilentBoth, PromptsAreSilent DEF InStep, Phase, Unwritten
  <1>9. Phase'
    BY <1>1, <1>2, <1>3, <1>6, <1>7, <1>8 DEF InStep, Phase, Booting, Unwritten
  <1>10. Books'
    BY <1>1, BooksKept DEF InStep
  <1> QED  BY <1>9, <1>10 DEF InStep

\* The name is read, and a shell starts.
LEMMA InStepLogIn == ASSUME Types, InStep, at # "ended", LogIn PROVE InStep'
  <1>1. /\ writing = <<>> /\ shell = "getty" /\ typed # <<>> /\ shell' = "shell"
        /\ typed' = Tail(typed) /\ writing' = Mark("prompt", 0)
        /\ UNCHANGED <<script, out, late, status, exits, log, refused>>
    BY DEF LogIn, Idle, history
  <1>2. UNCHANGED <<steps, at, next, buf>>
    BY <1>1 DEF script
  <1>3. at = "login" /\ typed = <<<<"root", 0>>>>
    BY <1>1 DEF Types, TypeOK, InStep, Phase, Booting, LoggingIn, AtRest, Waiting
  <1>4. Mark("prompt", 0) \in Seq(Pieces)
    BY PiecesWritten
  <1>5. HoldsBoth(Stream', Stream, Mark("prompt", 0))
    BY <1>1, <1>2, <1>4, GuestText
  <1>6. Behind' = Behind /\ Background' = Background
    BY <1>2 DEF Behind, Background
  <1>7. Silent(Stream', Behind)
    BY <1>3, <1>5, SilentBoth, PromptsAreSilent DEF InStep, Phase, LoggingIn
  <1>8. typed' = <<>>
    BY <1>1, <1>3
  <1>9. Phase'
    BY <1>1, <1>2, <1>3, <1>6, <1>7, <1>8 DEF InStep, Phase, LoggingIn, Unwritten
  <1>10. Books'
    BY <1>1, BooksKept DEF InStep
  <1> QED  BY <1>9, <1>10 DEF InStep

\* The pushed file is written.
LEMMA InStepWritePushed == ASSUME Types, InStep, at # "ended", WritePushed PROVE InStep'
  <1>1. /\ writing = <<>> /\ shell = "shell" /\ typed # <<>> /\ Head(typed)[1] = "push"
        /\ typed' = Tail(typed) /\ writing' = Mark("prompt", 0)
        /\ UNCHANGED <<script, out, shell, late, exits, log, refused>>
    BY DEF WritePushed, NextLine, Idle, history
  <1>2. UNCHANGED <<steps, at, next, buf>>
    BY <1>1 DEF script
  <1> DEFINE n == next - 1
  <1>3. at \in {"push", "wait"} /\ (Asked(n) \/ Running(n))
    BY <1>1, ShellPhase DEF InStep
  <1>4. n' = n
    BY <1>2
  <1> HIDE DEF n
  <1>5. Asked(n) /\ n = 0
    BY <1>1, <1>3 DEF Asked, Running
  <1>6. Mark("prompt", 0) \in Seq(Pieces)
    BY PiecesWritten
  <1>7. HoldsBoth(Stream', Stream, Mark("prompt", 0))
    BY <1>1, <1>2, <1>6, GuestText
  <1>8. Behind' = Behind /\ Background' = Background
    BY <1>2 DEF Behind, Background
  <1>9. Silent(Stream', Behind)
    BY <1>5, <1>7, SilentBoth, PromptsAreSilent DEF Asked
  <1>10. typed' = <<<<"echo", 0>>>>
    BY <1>1, <1>5 DEF Asked
  <1>11. Ran(0)'
    <2>1. 1..0 = 1..(0 - 1)
      OBVIOUS
    <2> QED  BY <1>1, <1>5, <2>1 DEF Asked, Ran
  <1>12. Running(0)'
    <2>1. Silent(Stream', Behind' \cup Own(0))
      BY <1>8, <1>9, SilentMore
    <2> QED  BY <1>10, <1>11, <2>1 DEF Running, Prints
  <1>13. Waiting(next - 1)'
    <2>1. next' - 1 = 0
      BY <1>4, <1>5 DEF n
    <2> QED  BY <1>1, <1>12, <2>1 DEF Waiting
  <1>14. Phase'
    BY <1>1, <1>2, <1>3, <1>13 DEF Phase, Unwritten
  <1>15. Books'
    BY <1>1, BooksKept DEF InStep
  <1> QED  BY <1>14, <1>15 DEF InStep

\* The status of the command before is written.
LEMMA InStepEcho == ASSUME Types, InStep, at # "ended", EchoSentinel PROVE InStep'
  <1> DEFINE n == next - 1
             m == Mark("done", status) \o Mark("prompt", 0)
             w == <<Ask>> \o Mark("done", status) \o Mark("prompt", 0)
  <1>1. /\ writing = <<>> /\ shell = "shell" /\ typed # <<>> /\ Head(typed)[1] = "echo"
        /\ typed' = Tail(typed) /\ writing' = w
        /\ UNCHANGED <<script, out, shell, late, exits, log, refused>>
    BY DEF EchoSentinel, NextLine, Idle, history
  <1>2. UNCHANGED <<steps, at, next, buf>>
    BY <1>1 DEF script
  <1>3. at \in {"push", "wait"} /\ (Asked(n) \/ Running(n))
    BY <1>1, ShellPhase DEF InStep
  <1>4. n' = n /\ n \in Nat
    BY <1>2, StepNumbers
  <1>5. /\ m \in Seq(Pieces) /\ w \in Seq(Pieces) /\ status \in Statuses
        /\ w = <<Ask>> \o m /\ <<Ask>> \in Seq(Pieces)
    BY SentinelWritten, PiecesWritten DEF Types
  <1>6. Running(n)
    <2> HIDE DEF n
    <2> QED  BY <1>1, <1>3 DEF Asked
  <1>7. Behind' = Behind /\ Background' = Background
    BY <1>2 DEF Behind, Background
  <1>8. Stream' = Stream \o w /\ Stream \in Seq(Pieces)
    <2> HIDE DEF w
    <2> QED  BY <1>1, <1>2, <1>5, GuestText, StreamFacts
  <1>9. Answered(Stream', Behind, n, status)
    <2> DEFINE s == Stream \o <<Ask>>
    <2>1. Silent(Stream, Behind \cup Own(n)) /\ Prints(Stream, n)
      BY <1>6 DEF Running
    <2>2. HoldsBoth(s, Stream, <<Ask>>) /\ s \in Seq(Pieces)
      BY <1>5, <1>8, JoinHolds, Joined
    <2>3. \A V : Silent(<<Ask>>, V)
      BY DEF Silent, OutputOf, Shown, Ask
    <2>4. Stream' = s \o m
      <3> HIDE DEF m, w
      <3> QED  BY <1>5, <1>8, JoinsAssociate, SMTT(30)
    <2> HIDE DEF n, s, w
    <2>5. Silent(s, Behind \cup Own(n))
      BY <2>1, <2>2, <2>3, SilentBoth
    <2>6. Prints(s, n)
      BY <2>1, <2>2 DEF Prints, HoldsBoth
    <2>7. m \in Seq(Pieces)
      BY <1>5
    <2> QED  BY <1>4, <2>2, <2>4, <2>5, <2>6, <2>7, EchoAnswers
  <1> HIDE DEF n, m, w
  <1>10. typed' = <<>>
    BY <1>1, <1>6 DEF Running
  <1>11. Ran(n)'
    BY <1>1, <1>4, <1>6 DEF Running, Ran
  <1>12. Done(n)'
    <2>1. n > 0 => status = exits'[n']
      BY <1>1, <1>4, <1>6 DEF Running
    <2> QED  BY <1>2, <1>4, <1>5, <1>7, <1>9, <1>10, <1>11, <2>1 DEF Done, Answered
  <1>13. Waiting(n)'
    BY <1>1, <1>12 DEF Waiting
  <1>14. Phase'
    BY <1>1, <1>2, <1>3, <1>13 DEF Phase, Unwritten, n
  <1>15. Books'
    BY <1>1, BooksKept DEF InStep
  <1> QED  BY <1>14, <1>15 DEF InStep

\* A command runs.  One that prints what looks like a sentinel puts script and
\* guest out of step.
LEMMA InStepRunCommand ==
    ASSUME Types, InStep, at # "ended", RunCommand
    PROVE  InStep' \/ \E p \in DOMAIN steps : OutOfStep(p)'
  <1>1. /\ writing = <<>> /\ shell = "shell" /\ typed # <<>> /\ Head(typed)[1] = "step"
        /\ UNCHANGED <<script, out, shell, refused>>
    BY DEF RunCommand, NextLine, Idle
  <1>2. UNCHANGED <<steps, push, at, next, buf, got, reported, rc>>
    BY <1>1 DEF script
  <1>3. /\ at \in {"push", "wait"}
        /\ Asked(next - 1) \/ Running(next - 1)
    BY <1>1, ShellPhase DEF InStep
  <1>4. Asked(next - 1) /\ next - 1 # 0
    BY <1>1, <1>3 DEF Asked, Running
  <1>5. next - 1 \in DOMAIN steps /\ next - 1 \in Nat /\ next - 1 > 0 /\ next # 1
        /\ 1..(next - 1) \subseteq DOMAIN steps
    BY <1>4, StepNumbers
  <1>6. at = "wait" /\ ~push
    BY <1>3, <1>5 DEF InStep, Books
  <1>7. PICK n \in DOMAIN steps : n = next - 1
    BY <1>5
  <1>8. /\ n \in Nat /\ n > 0 /\ next = n + 1 /\ next' - 1 = n /\ 1..n \subseteq DOMAIN steps
        /\ \A m \in DOMAIN steps : m \in Nat
    BY <1>2, <1>5, <1>7, StepNumbers
  <1>9. typed = <<<<"step", n>>, <<"echo", 0>>>> /\ Silent(Stream, Behind) /\ Ran(n - 1)
    BY <1>4, <1>7 DEF Asked
  <1> DEFINE w == Output(n) \o Mark("prompt", 0)
  <1>10. /\ \E s \in IF steps[n] = "bg" THEN {0} ELSE Statuses :
               status' = s /\ exits' = [exits EXCEPT ![n] = s]
         /\ typed' = SubSeq(typed, IF steps[n] = "reads" THEN 3 ELSE 2, Len(typed))
         /\ writing' = w
         /\ late' = late \cup (IF steps[n] = "bg" THEN {n} ELSE {})
         /\ log' = Append(log, n)
    <2>1. Head(typed)[2] = n
      BY <1>9
    <2> QED  BY <2>1 DEF RunCommand
  <1>11. status' = exits'[n]
         /\ \A m \in DOMAIN steps : m # n => exits'[m] = exits[m]
    BY <1>10 DEF Types
  <1>12. typed' = IF steps[n] = "reads" THEN <<>> ELSE <<<<"echo", 0>>>>
    <2>1. Len(typed) = 2
      BY <1>9
    <2>2. SubSeq(typed, 2, Len(typed)) = <<<<"echo", 0>>>>
      <3>1. typed \in Seq(TypedLines) /\ Tail(typed) = <<<<"echo", 0>>>>
        BY <1>9 DEF Types
      <3> QED  BY <1>1, <3>1, TailIsSubSeq
    <2>3. SubSeq(typed, 3, 2) = <<>>
      <3>1. typed \in Seq(TypedLines)
        BY DEF Types
      <3> QED  BY <3>1, SubSeqEmpty
    <2> QED  BY <1>10, <2>1, <2>2, <2>3
  <1>13. Ran(n)' /\ (\A k \in DOMAIN log' : log'[k] = k) /\ DOMAIN log' = 1..n
    BY <1>9, <1>10, RanOneMore
  <1>14. Behind' = Behind /\ Background' = Background
    BY <1>2 DEF Behind, Background
  <1>15. late' \subseteq Background'
    <2>1. steps[n] = "bg" => n \in Background
      BY <1>7, <1>8 DEF Background
    <2>2. late \subseteq Background
      BY DEF InStep, Books
    <2>3. Background' = Background
      BY <1>2 DEF Background
    <2> QED  BY <1>10, <2>1, <2>2, <2>3
  <1>16. TakenUpTo(n)
    BY <1>6, <1>7 DEF InStep, Books
  <1>17. \A m \in DOMAIN steps : Settled(m)'
    <2>1. ASSUME NEW m \in DOMAIN steps, m = n PROVE Settled(m)'
      <3>1. got[m] = None
        BY <1>8, <1>16, <2>1 DEF TakenUpTo
      <3> QED  BY <1>2, <3>1 DEF Settled
    <2>2. ASSUME NEW m \in DOMAIN steps, m # n PROVE Settled(m)'
      <3>1. Settled(m)
        BY DEF InStep, Books
      <3> QED  BY <1>2, <1>11, <2>2, <3>1 DEF Settled
    <2> QED  BY <2>1, <2>2
  <1>18. TakenUpTo(n)'
    <2>1. \A m \in DOMAIN steps : m < n => m # n
      BY <1>8
    <2> QED  BY <1>1, <1>2, <1>11, <1>16, <2>1 DEF TakenUpTo
  <1>19. Books'
    <2>1. TakenUpTo(next - 1)'
      BY <1>8, <1>18
    <2> QED  BY <1>2, <1>6, <1>13, <1>15, <1>17, <2>1 DEF InStep, Books
  <1>20. CASE steps[n] = "prints"
    <2>1. n <= Len(log') /\ (\A k \in 1..n : log'[k] = k)
      <3>1. log' \in Seq(DOMAIN steps)
        BY <1>10, AppendProperties DEF Types
      <3>2. DOMAIN log' = 1..Len(log') /\ Len(log') \in Nat
        BY <3>1, LenProperties
      <3>3. n \in 1..Len(log')
        BY <1>8, <1>13, <3>2
      <3> QED  BY <1>13, <3>3
    <2>2. \A k \in 1..(n - 1) : Settled(k)'
      <3>1. \A k \in 1..(n - 1) : k \in DOMAIN steps
        BY <1>8
      <3> QED  BY <1>17, <3>1
    <2>3. typed' = <<<<"echo", 0>>>>
      BY <1>12, <1>20
    <2>4. \A k \in DOMAIN typed' : typed'[k][1] # "step"
      BY <2>3
    <2>5. next' > n /\ next' - 1 >= n
      BY <1>2, <1>8
    <2>6. OutOfStep(n)'
      BY <1>1, <1>2, <1>6, <1>20, <2>1, <2>2, <2>4, <2>5 DEF OutOfStep
    <2> QED  BY <2>6
  <1>21. CASE steps[n] # "prints"
    <2>1. /\ w \in Seq(Pieces) /\ Silent(w, Behind \cup Own(n))
          /\ steps[n] = "cmd" => \E k \in DOMAIN w : w[k] = Line(n)
      BY <1>21, CommandWrites
    <2> HIDE DEF w
    <2>2. HoldsBoth(Stream', Stream, w)
      BY <1>1, <1>2, <1>10, <2>1, GuestText
    <2>3. Silent(Stream', Behind' \cup Own(n))
      BY <1>9, <1>14, <2>1, <2>2, SilentMore, SilentBoth
    <2>4. n > 0 /\ steps[n] = "cmd" => \E k \in DOMAIN Stream' : Stream'[k] = Line(n)
      BY <2>1, <2>2 DEF HoldsBoth
    <2>5. Waiting(n)'
      <3>1. CASE steps[n] = "reads"
        <4>1. Robbed(n)'
          BY <1>12, <1>13, <2>3, <3>1 DEF Robbed
        <4> QED  BY <1>1, <4>1 DEF Waiting
      <3>2. CASE steps[n] # "reads"
        <4>1. Running(n)'
          BY <1>2, <1>11, <1>12, <1>13, <2>3, <2>4, <3>2 DEF Running, Prints
        <4> QED  BY <1>1, <4>1 DEF Waiting
      <3> QED  BY <3>1, <3>2
    <2>6. Waiting(next - 1)'
      BY <1>8, <2>5
    <2>7. Phase'
      BY <1>1, <1>2, <1>6, <2>6 DEF Phase, Unwritten
    <2> QED  BY <1>19, <2>7 DEF InStep
  <1> QED  BY <1>20, <1>21

LEMMA InStepGuest ==
    ASSUME Types, InStep, at # "ended", Guest
    PROVE  InStep' \/ \E p \in DOMAIN steps : OutOfStep(p)'
  <1>1. ASSUME TextKept, late' \subseteq late,
               UNCHANGED <<script, typed, shell, status, exits, log, refused>>
        PROVE  InStep'
    <2>1. Phase'
      BY <1>1, PhaseKept DEF InStep, script
    <2>2. Books'
      BY <1>1, BooksKept DEF InStep
    <2> QED  BY <2>1, <2>2 DEF InStep
  <1>2. CASE Emit
    <2>1. Stream' = Stream /\ late' \subseteq late
          /\ UNCHANGED <<script, typed, shell, status, exits, log, refused>>
      BY <1>2, EmitKeepsStream DEF Emit, history
    <2>2. TextKept
      BY <2>1, SameText DEF script
    <2> QED  BY <1>1, <2>1, <2>2
  <1>3. CASE QemuExits
    <2>1. Stream' = Stream /\ late' \subseteq late
          /\ UNCHANGED <<script, typed, shell, status, exits, log, refused>>
      BY <1>3 DEF QemuExits, guest, history, Stream, script
    <2>2. TextKept
      BY <2>1, SameText DEF script
    <2> QED  BY <1>1, <2>1, <2>2
  <1>4. CASE \E n \in late : PrintLate(n)
    <2>1. PICK n \in late : PrintLate(n)
      BY <1>4
    <2>2. /\ out' = Append(out, Line(n)) /\ late' \subseteq late
          /\ UNCHANGED <<script, typed, shell, writing, status, exits, log, refused>>
      BY <2>1 DEF PrintLate, history
    <2>3. Line(n) \in Behind /\ n \in DOMAIN steps
      BY DEF InStep, Books, Types, TypeOK, Behind
    <2>4. Line(n) \in Pieces
      BY <2>3, PiecesWritten
    <2>5. Line(n).what = "line" /\ OutputOf(Line(n), Behind)
      BY <2>3 DEF Line, OutputOf
    <2>6. UNCHANGED <<steps, next, buf, writing>>
      BY <2>2 DEF script
    <2>7. TextKept
      BY <2>2, <2>4, <2>5, <2>6, OthersKeepText
    <2> QED  BY <1>1, <2>2, <2>7
  <1>5. CASE KernelMessage
    <2>1. /\ out' = Append(out, Message) /\ late' \subseteq late
          /\ UNCHANGED <<script, typed, shell, writing, status, exits, log, refused>>
      BY <1>5 DEF KernelMessage
    <2>2. Message \in Pieces
      BY PiecesWritten
    <2>3. Message.what = "kernel" /\ OutputOf(Message, Behind)
      BY DEF Message, OutputOf, Shown
    <2>4. UNCHANGED <<steps, next, buf, writing>>
      BY <2>1 DEF script
    <2>5. TextKept
      BY <2>1, <2>2, <2>3, <2>4, OthersKeepText
    <2> QED  BY <1>1, <2>1, <2>5
  <1> QED  BY <1>2, <1>3, <1>4, <1>5, InStepBootUp, InStepLogIn, InStepWritePushed,
              InStepEcho, InStepRunCommand DEF Guest

------------------------------------------------------------------------------
(* Out of step: what was settled stays.                                    *)

LEMMA OutKept ==
    ASSUME NEW p, OutOfStep(p), at' \in {at, "ended"},
           UNCHANGED <<steps, push, next, got, reported, typed, shell, exits, log>>
    PROVE  OutOfStep(p)'
  <1>1. \A n : Settled(n)' = Settled(n)
    BY DEF Settled
  <1> QED  BY <1>1 DEF OutOfStep

\* The lines that are left are among those that were there.
LEMMA LinesLeft ==
    ASSUME Types, typed # <<>>, NEW p \in Nat, NEW k \in {2, 3},
           \A i \in DOMAIN typed : typed[i][1] = "step" => typed[i][2] > p,
           typed' = SubSeq(typed, k, Len(typed))
    PROVE  \A i \in DOMAIN typed' : typed'[i][1] = "step" => typed'[i][2] > p
  <1> DEFINE S == {l \in TypedLines : l[1] = "step" => l[2] > p}
  <1>1. typed \in Seq(TypedLines) /\ Len(typed) \in Nat /\ DOMAIN typed = 1..Len(typed)
    BY LenProperties DEF Types
  <1>2. \A i \in k..Len(typed) : typed[i] \in S
    <2> SUFFICES ASSUME NEW i \in k..Len(typed) PROVE typed[i] \in S
      OBVIOUS
    <2>1. i \in 1..Len(typed)
      BY <1>1
    <2>2. typed[i] \in TypedLines
      BY <1>1, <2>1, ElementOfSeq
    <2> QED  BY <1>1, <2>1, <2>2
  <1> HIDE DEF S
  <1>3. typed' \in Seq(S)
    BY <1>1, <1>2, SubSeqProperties
  <1>4. \A i \in DOMAIN typed' : typed'[i] \in S
    BY <1>3, ElementOfSeq, LenProperties
  <1> QED  BY <1>4 DEF S

\* The next command is typed.
LEMMA OutSendCommand ==
    ASSUME Types, NEW p \in DOMAIN steps, OutOfStep(p), SendCommand
    PROVE  OutOfStep(p)'
  <1> DEFINE b == <<<<"step", next>>, <<"echo", 0>>>>
  <1>1. /\ at = "ready" /\ ~push /\ next' = next + 1 /\ at' = "wait"
        /\ typed' = typed \o b
        /\ UNCHANGED <<steps, push, got, reported, shell, exits, log>>
    BY DEF SendCommand, HasStep, AfterCommand, Type, history
  <1>2. next \in Nat /\ p \in Nat /\ next > p /\ next' > p /\ next' - 1 >= p
    BY <1>1, StepNumbers DEF OutOfStep
  <1>3. \A n : Settled(n)' = Settled(n)
    BY <1>1 DEF Settled
  <1>4. \A k \in DOMAIN typed' : typed'[k][1] = "step" => typed'[k][2] > p
    <2> DEFINE P == TypedLines \cup {<<"step", next>>}
    <2>1. typed \in Seq(P) /\ b \in Seq(P)
      <3>1. typed \in Seq(TypedLines) /\ <<"echo", 0>> \in TypedLines
        BY TypedStays DEF Types
      <3>2. TypedLines \subseteq P /\ <<"step", next>> \in P
        OBVIOUS
      <3> HIDE DEF P
      <3> QED  BY <3>1, <3>2, SeqMonotonic
    <2>2. \A k \in DOMAIN b : b[k][1] = "step" => b[k][2] > p
      BY <1>2
    <2>3. \A k \in DOMAIN typed : typed[k][1] = "step" => typed[k][2] > p
      BY DEF OutOfStep
    <2> HIDE DEF b, P
    <2>4. HoldsBoth(typed', typed, b)
      BY <1>1, <2>1, JoinHolds
    <2> QED  BY <2>2, <2>3, <2>4 DEF HoldsBoth
  <1> HIDE DEF b
  <1> QED  BY <1>1, <1>2, <1>3, <1>4 DEF OutOfStep

\* What reaches the guest does so after p.
LEMMA LogLonger ==
    ASSUME Types, NEW p \in Nat, NEW n \in DOMAIN steps, log' = Append(log, n),
           p <= Len(log), \A k \in 1..p : log[k] = k
    PROVE  p <= Len(log') /\ \A k \in 1..p : log'[k] = k
  <1>1. log \in Seq(DOMAIN steps) /\ Len(log) \in Nat
    BY LenProperties DEF Types
  <1>2. Len(log') = Len(log) + 1 /\ \A k \in 1..Len(log) : log'[k] = log[k]
    BY <1>1, AppendProperties
  <1> QED  BY <1>1, <1>2

LEMMA OutSendKey ==
    ASSUME Types, NEW p \in DOMAIN steps, OutOfStep(p), SendKey
    PROVE  OutOfStep(p)'
  <1>1. /\ at = "ready" /\ next <= Len(steps) /\ next' = next + 1 /\ log' = Append(log, next)
        /\ UNCHANGED <<steps, push, at, got, reported, typed, shell, exits>>
    BY DEF SendKey, HasStep, guest
  <1>2. next \in DOMAIN steps /\ next \in Nat /\ p \in Nat /\ next' > p
    BY <1>1, StepNumbers DEF OutOfStep
  <1>3. \A n : Settled(n)' = Settled(n)
    BY <1>1 DEF Settled
  <1>4. p <= Len(log') /\ \A k \in 1..p : log'[k] = k
    BY <1>1, <1>2, LogLonger DEF OutOfStep
  <1> QED  BY <1>1, <1>2, <1>3, <1>4 DEF OutOfStep

\* A sentinel is taken for p or for a command after it.
LEMMA OutSentinelSeen ==
    ASSUME Types, NEW p \in DOMAIN steps, OutOfStep(p), SentinelSeen
    PROVE  OutOfStep(p)'
  <1> DEFINE n == next - 1
  <1>1. /\ at = "wait" /\ at' = "ready"
        /\ \E s : got' = [got EXCEPT ![n] = s]
        /\ \E o : reported' = [reported EXCEPT ![n] = o]
        /\ UNCHANGED <<steps, push, next, typed, shell, exits, log>>
    BY DEF SentinelSeen, guest, history
  <1>2. n >= p /\ n \in Nat /\ p \in Nat
    BY <1>1, StepNumbers DEF OutOfStep
  <1> HIDE DEF n
  <1>3. ASSUME NEW k \in 1..(p - 1) PROVE Settled(k)'
    <2>1. k # n /\ k \in DOMAIN steps
      BY <1>2, StepNumbers
    <2>2. got'[k] = got[k] /\ reported'[k] = reported[k]
      BY <1>1, <2>1 DEF Types, TypeOK
    <2>3. Settled(k)
      BY DEF OutOfStep
    <2> QED  BY <1>1, <2>2, <2>3 DEF Settled
  <1> QED  BY <1>1, <1>3 DEF OutOfStep

\* A command after p runs.
LEMMA OutRunCommand ==
    ASSUME Types, NEW p \in DOMAIN steps, OutOfStep(p), RunCommand
    PROVE  OutOfStep(p)'
  <1> DEFINE n == Head(typed)[2]
  <1>1. /\ typed # <<>> /\ Head(typed)[1] = "step"
        /\ \E s : exits' = [exits EXCEPT ![n] = s]
        /\ \E k \in {2, 3} : typed' = SubSeq(typed, k, Len(typed))
        /\ log' = Append(log, n)
        /\ UNCHANGED <<steps, push, at, next, got, reported, shell>>
    BY DEF RunCommand, NextLine, Idle, script
  <1>2. n \in DOMAIN steps /\ n \in Nat /\ p \in Nat
    BY <1>1, LinesRead, StepNumbers
  <1>3. n > p
    <2>1. typed \in Seq(TypedLines) /\ Len(typed) \in Nat /\ Len(typed) >= 1
      BY <1>1, LinesRead DEF Types
    <2>2. 1 \in DOMAIN typed /\ Head(typed) = typed[1]
      BY <2>1, LenProperties
    <2> QED  BY <1>1, <2>2 DEF OutOfStep
  <1> HIDE DEF n
  <1>4. \A k \in DOMAIN typed' : typed'[k][1] = "step" => typed'[k][2] > p
    BY <1>1, <1>2, LinesLeft DEF OutOfStep
  <1>5. p <= Len(log') /\ \A k \in 1..p : log'[k] = k
    BY <1>1, <1>2, LogLonger DEF OutOfStep
  <1>6. ASSUME NEW k \in 1..(p - 1) PROVE Settled(k)'
    <2>1. k # n /\ k \in DOMAIN steps
      BY <1>2, <1>3, StepNumbers
    <2>2. exits'[k] = exits[k]
      BY <1>1, <2>1 DEF Types
    <2>3. Settled(k)
      BY DEF OutOfStep
    <2> QED  BY <1>1, <2>2, <2>3 DEF Settled
  <1> QED  BY <1>1, <1>4, <1>5, <1>6 DEF OutOfStep

\* The line of a push, or the one that asks for a status, is read.
LEMMA OutLineRead ==
    ASSUME Types, NEW p \in DOMAIN steps, OutOfStep(p), WritePushed \/ EchoSentinel
    PROVE  OutOfStep(p)'
  <1>1. /\ typed # <<>> /\ typed' = Tail(typed)
        /\ UNCHANGED <<steps, push, at, next, got, reported, shell, exits, log>>
    BY DEF WritePushed, EchoSentinel, NextLine, Idle, script, history
  <1>2. typed' = SubSeq(typed, 2, Len(typed)) /\ p \in Nat
    BY <1>1, TailIsSubSeq, StepNumbers DEF Types
  <1>3. \A k \in DOMAIN typed' : typed'[k][1] = "step" => typed'[k][2] > p
    BY <1>1, <1>2, LinesLeft DEF OutOfStep
  <1>4. \A n : Settled(n)' = Settled(n)
    BY <1>1 DEF Settled
  <1> QED  BY <1>1, <1>3, <1>4 DEF OutOfStep

LEMMA OutOfStepNext ==
    ASSUME Types, NEW p \in DOMAIN steps, OutOfStep(p), [Next]_vars
    PROVE  OutOfStep(p)'
  <1>1. ASSUME UNCHANGED vars PROVE OutOfStep(p)'
    BY <1>1, OutKept DEF vars, script, guest, history
  <1>2. CASE Expect
    BY <1>2, OutKept DEF Expect, TimeOut, SeesExit, ConsoleClosed, Fail, Check, Read,
                         NothingToRead, MayRead, guest, history
  <1>3. CASE LoginSeen \/ Ready \/ SendPush
    BY <1>3 DEF LoginSeen, Ready, SendPush, OutOfStep
  <1>4. CASE Raises \/ Finish
    BY <1>4, OutKept DEF Raises, Fail, Finish, guest, history
  <1>5. CASE BootUp \/ LogIn
    BY <1>5 DEF BootUp, LogIn, OutOfStep
  <1>6. CASE Emit \/ (\E n \in late : PrintLate(n)) \/ KernelMessage \/ QemuExits
    BY <1>6, OutKept DEF Emit, PrintLate, KernelMessage, QemuExits, script, guest, history
  <1> QED
    BY <1>1, <1>2, <1>3, <1>4, <1>5, <1>6, OutSendCommand, OutSendKey,
       OutSentinelSeen, OutRunCommand, OutLineRead DEF Next, Main, Guest

------------------------------------------------------------------------------
(* The theorems.                                                           *)

\* Both invariants hold of every state that is reached.
IInv == Types /\ StepInv /\ AnswerInv

LEMMA StepInit == Init => StepInv
  <1> SUFFICES ASSUME Init PROVE InStep
    BY DEF StepInv
  <1>1. steps \in Seq(Kinds)
    BY ScriptAssumption DEF Init
  <1>2. DOMAIN steps = 1..Len(steps) /\ Len(steps) \in Nat
    BY <1>1, LenProperties
  <1>3. Stream = <<>>
    BY DEF Init, Stream
  <1>4. (\A V : Silent(Stream, V)) /\ (\A mark : Lacks(Stream, mark))
    BY <1>3 DEF Silent, Lacks
  <1>5. Phase
    BY <1>4 DEF Init, Phase, Unwritten, Booting
  <1>6. log = [i \in 1..0 |-> i]
    BY DEF Init
  <1>7. Books
    BY <1>2, <1>6 DEF Init, Books, Settled, TakenUpTo, Ran
  <1> QED  BY <1>5, <1>7 DEF InStep

\* The list of steps is never changed.
LEMMA StepsStay == ASSUME [Next]_vars PROVE steps' = steps
  BY DEF Next, vars, script, Expect, TimeOut, SeesExit, ConsoleClosed, Fail, Check,
         Read, NothingToRead, MayRead, Main, LoginSeen, Ready, SentinelSeen, SendPush,
         SendCommand, SendKey, Raises, Finish, Guest, BootUp, LogIn, RunCommand,
         WritePushed, EchoSentinel, Emit, PrintLate, KernelMessage, QemuExits

LEMMA StepNext == ASSUME Types, StepInv, [Next]_vars PROVE StepInv'
  <1>1. ASSUME InStep PROVE StepInv'
    <2>1. CASE UNCHANGED vars
      <3>1. /\ late' \subseteq late
            /\ UNCHANGED <<script, typed, shell, status, exits, log, refused, out, writing>>
        BY <2>1 DEF vars, guest, history
      <3>2. UNCHANGED <<steps, next, at, buf>>
        BY <3>1 DEF script
      <3>3. Stream' = Stream
        BY <3>1, <3>2 DEF Stream
      <3>4. TextKept
        BY <3>2, <3>3, SameText
      <3>5. Phase' /\ Books'
        BY <1>1, <3>1, <3>2, <3>4, PhaseKept, BooksKept DEF InStep
      <3> QED  BY <3>5 DEF StepInv, InStep
    <2>2. CASE Expect
      BY <1>1, <2>2, InStepExpect DEF StepInv
    <2>3. CASE Main
      BY <1>1, <2>3, InStepMain DEF StepInv
    <2>4. CASE at # "ended" /\ Guest
      <3>1. InStep' \/ \E p \in DOMAIN steps : OutOfStep(p)'
        BY <1>1, <2>4, InStepGuest
      <3> QED  BY <3>1, StepsStay DEF StepInv
    <2> QED  BY <2>1, <2>2, <2>3, <2>4 DEF Next
  <1>2. ASSUME NEW p \in DOMAIN steps, OutOfStep(p) PROVE StepInv'
    <2>1. OutOfStep(p)'
      BY <1>2, OutOfStepNext
    <2> QED  BY <2>1, StepsStay DEF StepInv
  <1> QED  BY <1>1, <1>2 DEF StepInv

LEMMA Invariant == Spec => []IInv
  <1>1. Init => IInv
    BY TypesInit, StepInit, AnswerInit DEF IInv
  <1>2. IInv /\ [Next]_vars => IInv'
    BY TypesNext, StepNext, AnswerNext DEF IInv
  <1> QED  BY <1>1, <1>2, PTL DEF Spec

\* While the commands up to n print nothing like a sentinel, n is settled.
LEMMA TrustedIsSettled ==
    ASSUME IInv, NEW n \in DOMAIN steps, Trusted(n)
    PROVE  Settled(n)
  <1>1. CASE InStep
    BY <1>1 DEF InStep, Books
  <1>2. ASSUME NEW p \in DOMAIN steps, OutOfStep(p) PROVE Settled(n)
    <2>1. p \in Nat /\ p >= 1 /\ n \in Nat /\ n >= 1
      BY StepNumbers DEF IInv
    <2>2. p \notin 1..n
      BY <1>2 DEF Trusted, OutOfStep
    <2>3. n \in 1..(p - 1)
      BY <2>1, <2>2
    <2> QED  BY <1>2, <2>3 DEF OutOfStep
  <1> QED  BY <1>1, <1>2 DEF IInv, StepInv

\* "A sentinel makes the end of each command unambiguous": the status taken for
\* a command is the one with which that command ended, however the text was cut
\* up, whatever came in between, and whichever commands ran before it, as long
\* as neither it nor they printed text in the form of a sentinel.
THEOREM AutobootStatus == Spec => []StatusIsItsOwn
  <1>1. IInv => StatusIsItsOwn
    BY TrustedIsSettled DEF StatusIsItsOwn, Settled
  <1> QED  BY <1>1, Invariant, PTL

\* What is reported with a command is its own or a line of a background command
\* before it; the line that a command printed is never left out, unless it is
\* blank, the command's own text or like a prompt.
THEOREM AutobootOutput == Spec => []OutputIsItsOwn
  <1>1. IInv => OutputIsItsOwn
    BY TrustedIsSettled DEF OutputIsItsOwn, Settled
  <1> QED  BY <1>1, Invariant, PTL

\* "Ordering with -c is preserved": commands and keys reach the guest one by one
\* in the order given, also the step of which the output is not to be trusted.
THEOREM AutobootOrder == Spec => []OrderIsKept
  <1>1. ASSUME IInv, NEW n \in DOMAIN log, Trusted(n - 1) PROVE log[n] = n
    <2>1. CASE InStep
      BY <2>1 DEF InStep, Books
    <2>2. ASSUME NEW p \in DOMAIN steps, OutOfStep(p) PROVE log[n] = n
      <3>1. p \in Nat /\ p >= 1
        BY <1>1, StepNumbers DEF IInv
      <3>2. n \in Nat /\ n >= 1
        BY <1>1, LenProperties DEF IInv, Types
      <3>3. p \notin 1..(n - 1)
        BY <1>1, <2>2 DEF Trusted, OutOfStep
      <3>4. n \in 1..p
        BY <3>1, <3>2, <3>3
      <3> QED  BY <2>2, <3>4 DEF OutOfStep
    <2> QED  BY <1>1, <2>1, <2>2 DEF IInv, StepInv
  <1>2. IInv => OrderIsKept
    BY <1>1 DEF OrderIsKept
  <1> QED  BY <1>2, Invariant, PTL

\* An answer that the guest has written to the end matches what expect waits
\* for, whatever the chunks in which it was read.
THEOREM AutobootAnswer == Spec => []AnswerIsSeen
  <1>1. ASSUME IInv, Expecting, shell # "boot", writing = <<>>, typed = <<>>, out = <<>>,
               ~split, \A n \in DOMAIN log : steps[log[n]] # "reads"
        PROVE  Matched
    <2>1. AnswerInv /\ NoneReads
      BY <1>1 DEF IInv, NoneReads
    <2>2. HasMark(Stream, Pattern)
      <3>1. ~\E n \in DOMAIN typed : typed[n] = <<"echo", 0>>
        BY <1>1
      <3>2. CASE at = "boot"
        BY <1>1, <2>1, <3>2 DEF AnswerInv, Pattern
      <3>3. CASE at = "login"
        BY <1>1, <2>1, <3>3 DEF AnswerInv, Pattern
      <3>4. CASE at \in {"push", "wait"}
        BY <1>1, <2>1, <3>1, <3>4 DEF AnswerInv, Pattern
      <3> QED  BY <1>1, <3>2, <3>3, <3>4 DEF Expecting
    <2>3. Stream = buf
      <3>1. buf \in Seq(Pieces)
        BY <1>1 DEF IInv, Types
      <3>2. buf \o <<>> = buf
        BY <3>1, ConcatEmptySeq
      <3> QED  BY <1>1, <3>2 DEF Stream
    <2> QED  BY <2>2, <2>3 DEF HasMark, Matched, MatchEnds
  <1>2. IInv => AnswerIsSeen
    BY <1>1 DEF AnswerIsSeen
  <1> QED  BY <1>2, Invariant, PTL

\* The script exits with 0 only if every command ran and ended with 0 and every
\* key was accepted.
THEOREM AutobootSuccess == Spec => []SuccessIsReal
  <1>1. ASSUME IInv, at = "ended", rc = 0, Trusted(Len(steps))
        PROVE  /\ Len(log) = Len(steps) /\ ~refused
               /\ \A n \in DOMAIN steps : steps[n] = "key" \/ exits[n] = 0
    <2>1. DOMAIN steps = 1..Len(steps) /\ Len(steps) \in Nat
      BY <1>1, StepNumbers DEF IInv
    <2>2. \A p \in DOMAIN steps : ~OutOfStep(p)
      BY <1>1, <2>1 DEF Trusted, OutOfStep
    <2>3. InStep
      BY <1>1, <2>2 DEF IInv, StepInv
    <2>4. next = Len(steps) + 1 /\ TakenUpTo(next) /\ Ran(Len(steps))
      BY <1>1, <2>3 DEF InStep, Books
    <2>5. Len(log) = Len(steps)
      <3>1. DOMAIN log = 1..Len(steps)
        BY <2>4 DEF Ran
      <3>2. DOMAIN log = 1..Len(log) /\ Len(log) \in Nat
        BY <1>1, LenProperties DEF IInv, Types
      <3> QED  BY <2>1, <3>1, <3>2
    <2>6. \A n \in DOMAIN steps : n < next
      BY <2>1, <2>4
    <2> QED  BY <1>1, <2>4, <2>5, <2>6 DEF TakenUpTo
  <1>2. IInv => SuccessIsReal
    BY <1>1 DEF SuccessIsReal
  <1> QED  BY <1>2, Invariant, PTL
=============================================================================
