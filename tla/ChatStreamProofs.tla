--------------------------- MODULE ChatStreamProofs ---------------------------
(***************************************************************************)
(* Proofs about ChatStream, for every set of workers and instances, every  *)
(* number of messages and of mishaps, and every capacity of the ring       *)
(* buffers.                                                                *)
(***************************************************************************)
EXTENDS ChatStream, SequenceTheorems, WellFoundedInduction, TLAPS

-----------------------------------------------------------------------------
(* Replay.  Since is recursive, so what it returns is proved by induction;  *)
(* the library's induction theorems take the predicate as a parameter,     *)
(* here it is a set.                                                       *)

(* A set of naturals that is not empty has a least element.                 *)
LEMMA LeastElement ==
  ASSUME NEW T \in SUBSET Nat, T # {}
  PROVE  \E n \in T : \A m \in T : n <= m
<1> DEFINE R == OpToRel(<, Nat)
<1>1. IsWellFoundedOn(R, Nat)
  BY NatLessThanWellFounded
<1>2. \A x, y \in Nat : <<y, x>> \in R <=> y < x
  BY DEF OpToRel
<1> HIDE DEF R
<1>3. \E x \in T : \A y \in T : ~ (<<y, x>> \in R)
  BY <1>1, WFMin
<1>4. PICK n \in T : \A m \in T : ~ (<<m, n>> \in R)
  BY <1>3
<1>5. ASSUME NEW m \in T PROVE n <= m
  <2>1. ~ (m < n)
    BY <1>2, <1>4
  <2> QED BY <2>1
<1> QED BY <1>5

(* A set that has 0, and k + 1 with every k, has all numbers up to n.       *)
LEMMA SetInduction ==
  ASSUME NEW S, NEW n \in Nat, 0 \in S,
         \A k \in 0 .. n - 1 : k \in S => k + 1 \in S
  PROVE  \A k \in 0 .. n : k \in S
<1> DEFINE T == {k \in 0 .. n : k \notin S}
<1> SUFFICES ASSUME T # {} PROVE FALSE
  OBVIOUS
<1>1. T \in SUBSET Nat
  OBVIOUS
<1>2. PICK m \in T : \A k \in T : m <= k
  <2> HIDE DEF T
  <2> QED BY <1>1, LeastElement
<1>3. m # 0 /\ m \in 0 .. n /\ m \notin S
  OBVIOUS
<1>4. m - 1 \in 0 .. n - 1 /\ m - 1 \notin T
  BY <1>2, <1>3
<1> QED BY <1>3, <1>4

(* The step of the recursion.                                               *)
KeptAt(b, last, f, n) ==
    IF n = 0 THEN << >>
    ELSE IF b[n].seq > last THEN Append(f[n - 1], b[n]) ELSE f[n - 1]

(* f is the function Since computes, as far as n.                          *)
KeptUpTo(b, last, f, n) == f = [k \in 0 .. n |-> KeptAt(b, last, f, k)]

(* There is such a function, so the CHOOSE in Since finds it.               *)
LEMMA KeptExists ==
  ASSUME NEW b, NEW last, NEW n \in Nat
  PROVE  \E f : KeptUpTo(b, last, f, n)
<1> DEFINE S == {k \in Nat : \E f : KeptUpTo(b, last, f, k)}
<1>1. 0 \in S
  <2> DEFINE f == [k \in 0 .. 0 |-> << >>]
  <2>1. KeptUpTo(b, last, f, 0)
    BY DEF KeptUpTo, KeptAt
  <2> QED BY <2>1
<1>2. ASSUME NEW k \in 0 .. n - 1, k \in S
      PROVE  k + 1 \in S
  <2>1. PICK g : KeptUpTo(b, last, g, k)
    BY <1>2
  <2> DEFINE f == [i \in 0 .. k + 1 |-> IF i <= k THEN g[i] ELSE KeptAt(b, last, g, k + 1)]
  <2>2. ASSUME NEW i \in 0 .. k + 1 PROVE f[i] = KeptAt(b, last, f, i)
    <3>1. CASE i <= k
      <4>1. f[i] = g[i] /\ g[i] = KeptAt(b, last, g, i)
        BY <2>1, <3>1 DEF KeptUpTo
      <4>2. i # 0 => f[i - 1] = g[i - 1]
        BY <3>1
      <4> QED BY <4>1, <4>2 DEF KeptAt
    <3>2. CASE i = k + 1
      <4>1. f[i] = KeptAt(b, last, g, k + 1) /\ f[i - 1] = g[i - 1]
        BY <3>2
      <4> QED BY <3>2, <4>1 DEF KeptAt
    <3> QED BY <3>1, <3>2
  <2>3. f = [i \in 0 .. k + 1 |-> KeptAt(b, last, f, i)]
    <3>1. f = [i \in 0 .. k + 1 |-> f[i]]
      OBVIOUS
    <3> HIDE DEF f
    <3> QED BY <2>2, <3>1
  <2>4. KeptUpTo(b, last, f, k + 1)
    BY <2>3 DEF KeptUpTo
  <2> QED BY <2>4
<1>3. \A k \in 0 .. n : k \in S
  <2> HIDE DEF S
  <2> QED BY <1>1, <1>2, SetInduction
<1> QED BY <1>3

(* Since is the last value of such a function.                              *)
LEMMA SinceUnfolds ==
  ASSUME NEW E, NEW b \in Seq(E), NEW last
  PROVE  \E f : KeptUpTo(b, last, f, Len(b)) /\ Since(b, last) = f[Len(b)]
<1> DEFINE f == CHOOSE g : KeptUpTo(b, last, g, Len(b))
<1>1. KeptUpTo(b, last, f, Len(b))
  <2>1. Len(b) \in Nat
    OBVIOUS
  <2> QED BY <2>1, KeptExists
<1>2. Since(b, last) = f[Len(b)]
  BY Zenon DEF Since, KeptUpTo, KeptAt
<1> QED BY <1>1, <1>2

(* m is the subsequence of the first n events of b that come after last:    *)
(* at[k] is the place in b of the k-th event of m.                          *)
Selects(b, last, n, m, at) ==
    /\ at \in [1 .. Len(m) -> 1 .. n]
    /\ \A h, k \in 1 .. Len(m) : h < k => at[h] < at[k]
    /\ \A k \in 1 .. Len(m) : m[k] = b[at[k]]
    /\ \A j \in 1 .. n : b[j].seq > last <=> \E k \in 1 .. Len(m) : at[k] = j

(* One more event after last.                                               *)
LEMMA SelectsStep ==
  ASSUME NEW E, NEW b \in Seq(E), NEW last, NEW n \in 0 .. Len(b) - 1,
         NEW m \in Seq(E), NEW at, Selects(b, last, n, m, at),
         b[n + 1].seq > last
  PROVE  \E new : Selects(b, last, n + 1, Append(m, b[n + 1]), new)
<1> DEFINE mm == Append(m, b[n + 1])
           new == [k \in 1 .. Len(m) + 1 |-> IF k <= Len(m) THEN at[k] ELSE n + 1]
<1>1. Len(m) \in Nat /\ n + 1 \in 1 .. Len(b) /\ b[n + 1] \in E
  OBVIOUS
<1>2. /\ Len(mm) = Len(m) + 1
      /\ \A k \in 1 .. Len(m) : mm[k] = m[k]
      /\ mm[Len(m) + 1] = b[n + 1]
  BY <1>1
<1> HIDE DEF mm
<1>3. new \in [1 .. Len(mm) -> 1 .. n + 1]
  BY <1>1, <1>2 DEF Selects
<1>4. \A h, k \in 1 .. Len(mm) : h < k => new[h] < new[k]
  BY <1>1, <1>2 DEF Selects
<1>5. \A k \in 1 .. Len(mm) : mm[k] = b[new[k]]
  BY <1>1, <1>2 DEF Selects
<1>6. ASSUME NEW j \in 1 .. n + 1
      PROVE  b[j].seq > last <=> \E k \in 1 .. Len(mm) : new[k] = j
  <2>1. CASE j = n + 1
    <3>1. Len(m) + 1 \in 1 .. Len(mm) /\ new[Len(m) + 1] = n + 1
      BY <1>1, <1>2
    <3> QED BY <2>1, <3>1
  <2>2. CASE j # n + 1
    <3>1. j \in 1 .. n
      BY <2>2
    <3>2. \A k \in 1 .. Len(m) : k \in 1 .. Len(mm) /\ new[k] = at[k]
      BY <1>1, <1>2
    <3>3. \A k \in 1 .. Len(mm) : new[k] = j => k \in 1 .. Len(m)
      BY <1>1, <1>2, <2>2
    <3> HIDE DEF new
    <3> QED BY <3>1, <3>2, <3>3 DEF Selects
  <2> QED BY <2>1, <2>2
<1>7. Selects(b, last, n + 1, mm, new)
  BY <1>3, <1>4, <1>5, <1>6 DEF Selects
<1> QED BY <1>7 DEF mm

(* What is replayed is all the buffer has after the last number, each event *)
(* once, in the order of the buffer (getEventsSince, sse-buffer.ts:52-60).  *)
THEOREM ReplayInOrder ==
  ASSUME NEW E, NEW b \in Seq(E), NEW last
  PROVE  /\ Since(b, last) \in Seq(E)
         /\ \E at : Selects(b, last, Len(b), Since(b, last), at)
<1>1. PICK f : KeptUpTo(b, last, f, Len(b)) /\ Since(b, last) = f[Len(b)]
  BY SinceUnfolds
<1>2. Len(b) \in Nat
  OBVIOUS
<1> DEFINE S == {n \in Nat : f[n] \in Seq(E) /\ \E at : Selects(b, last, n, f[n], at)}
<1>3. 0 \in S
  <2>1. f[0] = << >>
    BY <1>1, <1>2 DEF KeptUpTo, KeptAt
  <2> DEFINE at == [k \in 1 .. 0 |-> 1]
  <2>2. Selects(b, last, 0, << >>, at)
    BY DEF Selects
  <2>3. << >> \in Seq(E)
    OBVIOUS
  <2> QED BY <2>1, <2>2, <2>3
<1>4. ASSUME NEW n \in 0 .. Len(b) - 1, n \in S
      PROVE  n + 1 \in S
  <2>1. f[n + 1] = IF b[n + 1].seq > last THEN Append(f[n], b[n + 1]) ELSE f[n]
    <3>1. n + 1 \in 0 .. Len(b) /\ n + 1 # 0 /\ (n + 1) - 1 = n
      BY <1>2
    <3>2. f[n + 1] = KeptAt(b, last, f, n + 1)
      BY <1>1, <3>1 DEF KeptUpTo
    <3> QED BY <3>1, <3>2 DEF KeptAt
  <2>2. PICK at : Selects(b, last, n, f[n], at)
    BY <1>4
  <2>3. f[n] \in Seq(E) /\ n + 1 \in Nat /\ b[n + 1] \in E
    BY <1>4
  <2>4. CASE b[n + 1].seq > last
    <3>1. \E new : Selects(b, last, n + 1, Append(f[n], b[n + 1]), new)
      BY <2>2, <2>3, <2>4, SelectsStep
    <3>2. Append(f[n], b[n + 1]) \in Seq(E)
      BY <2>3
    <3> QED BY <2>1, <2>3, <2>4, <3>1, <3>2
  <2>5. CASE ~ (b[n + 1].seq > last)
    <3>1. Selects(b, last, n + 1, f[n], at)
      <4>1. Len(f[n]) \in Nat /\ \A j \in 1 .. n + 1 : j \in 1 .. n \/ j = n + 1
        BY <2>3
      <4>2. at \in [1 .. Len(f[n]) -> 1 .. n + 1]
        BY <2>2 DEF Selects
      <4>3. \A k \in 1 .. Len(f[n]) : at[k] \in 1 .. n /\ at[k] # n + 1
        BY <2>2 DEF Selects
      <4>4. \A j \in 1 .. n + 1 :
              b[j].seq > last <=> \E k \in 1 .. Len(f[n]) : at[k] = j
        BY <2>2, <2>5, <4>1, <4>3 DEF Selects
      <4> QED BY <2>2, <4>2, <4>4 DEF Selects
    <3> QED BY <2>1, <2>3, <2>5, <3>1
  <2> QED BY <2>4, <2>5
<1>5. \A n \in 0 .. Len(b) : n \in S
  <2> HIDE DEF S
  <2> QED BY <1>2, <1>3, <1>4, SetInduction
<1>6. Len(b) \in S
  <2> HIDE DEF S
  <2> QED BY <1>2, <1>5
<1> QED BY <1>1, <1>6

-----------------------------------------------------------------------------
(* What the model's operators do to sequences of events.                    *)

(* Either a text and `done`, or, when the agent had none, `done` alone;     *)
(* numbered on from seq.                                                    *)
OfOnePoll(e, seq, t, w) ==
    /\ e \in Seq(Event)
    /\ Len(e) \in {1, 2}
    /\ Len(e) = 1 => t \in mute
    /\ e[1].kind = "token" <=> Len(e) = 2
    /\ e[Len(e)].kind = "done"
    /\ \A k \in 1 .. Len(e) : /\ e[k].seq = seq + k
                              /\ e[k].of = t /\ e[k].by = w
                              /\ e[k].during = turn

LEMMA EventsShape ==
  ASSUME StreamTypeOK, NEW seq \in Nat, NEW t \in 0 .. MaxTurns,
         NEW w \in Workers \cup {None}
  PROVE  OfOnePoll(Events(seq, t, w), seq, t, w)
<1> DEFINE ev(kind, n) == [seq |-> seq + n, kind |-> kind, of |-> t, by |-> w,
                           during |-> turn]
           e == Events(seq, t, w)
<1>1. \A kind \in {"token", "done"} : \A n \in Nat : ev(kind, n) \in Event
  BY DEF StreamTypeOK, Event
<1>2. CASE t \in mute
  <2>1. e = <<ev("done", 1)>>
    BY <1>2 DEF Events
  <2> DEFINE done == ev("done", 1)
  <2>2. /\ done \in Event /\ done.seq = seq + 1 /\ done.kind = "done"
        /\ done.of = t /\ done.by = w /\ done.during = turn
    BY <1>1
  <2>3. e = <<done>>
    BY <2>1
  <2> HIDE DEF e, done
  <2>4. /\ e \in Seq(Event) /\ Len(e) = 1 /\ e[1] = done
    BY <2>2, <2>3
  <2>5. OfOnePoll(e, seq, t, w)
    BY <1>2, <2>2, <2>4 DEF OfOnePoll
  <2> QED BY <2>5 DEF e
<1>3. CASE t \notin mute
  <2> DEFINE kinds == <<"token", "done">>
  <2>2. e = [k \in DOMAIN kinds |-> ev(kinds[k], k)]
    BY <1>3, Zenon DEF Events
  <2>3. DOMAIN kinds = 1 .. 2 /\ kinds[1] = "token" /\ kinds[2] = "done"
    OBVIOUS
  <2> HIDE DEF kinds
  <2>4. e = [k \in 1 .. 2 |-> ev(kinds[k], k)]
    BY <2>2, <2>3
  <2>5. e \in Seq(Event) /\ Len(e) = 2
    BY <1>1, <2>3, <2>4
  <2>6. \A k \in 1 .. 2 : e[k] = ev(kinds[k], k)
    BY <2>4
  <2>7. e[1].kind = "token" /\ e[2].kind = "done"
    BY <2>3, <2>6
  <2>8. \A k \in 1 .. 2 : /\ e[k].seq = seq + k
                          /\ e[k].of = t /\ e[k].by = w /\ e[k].during = turn
    BY <2>6
  <2> HIDE DEF e
  <2>9. OfOnePoll(e, seq, t, w)
    BY <2>5, <2>7, <2>8 DEF OfOnePoll
  <2> QED BY <2>9 DEF e
<1> QED BY <1>2, <1>3
(* What a poll pushes, late or not, numbered on from seq: if it tells of    *)
(* anything it tells of the reply to t at w; it begins with `done` only     *)
(* when the agent had no text; and unless it was late then, every text but  *)
(* the first event comes after a `done` that is not the first event.        *)
OfOnePush(e, seq, t, w, late) ==
    /\ e \in Seq(Event) /\ Len(e) # 0
    /\ e[1].kind = "done" => t \in mute
    /\ \A k \in 1 .. Len(e) : /\ e[k].seq = seq + k
                              /\ e[k].of # 0 => e[k].of = t /\ e[k].by = w
                              /\ e[k].during = turn
    /\ ~ (late /\ t \in mute) =>
         \A k \in 1 .. Len(e) : e[k].kind = "token" /\ k # 1 =>
            \E j \in 2 .. k - 1 : e[j].kind = "done"

LEMMA PushedShape ==
  ASSUME StreamTypeOK, NEW seq \in Nat, NEW t \in 0 .. MaxTurns,
         NEW w \in Workers \cup {None}, NEW late \in BOOLEAN
  PROVE  OfOnePush(Pushed(seq, t, w, late), seq, t, w, late)
<1> DEFINE e == Events(seq, t, w)
           n == e[Len(e)].seq
           x == Events(n, 0, None)
           all == e \o x
<1>1. OfOnePoll(e, seq, t, w)
  BY EventsShape
<1>2. Pushed(seq, t, w, late) = IF late THEN all ELSE e
  BY Zenon DEF Pushed
<1> HIDE DEF e
<1>3. n = seq + Len(e) /\ n \in Nat /\ Len(e) \in {1, 2}
  BY <1>1 DEF OfOnePoll
<1>4. OfOnePoll(x, n, 0, None)
  <2> HIDE DEF n
  <2>1. 0 \in 0 .. MaxTurns
    BY BoundsAssumption
  <2> QED BY <1>3, <2>1, EventsShape
<1> HIDE DEF n, x
<1>5. 0 \notin mute
  BY DEF StreamTypeOK, Turns
<1>6. Len(x) = 2 /\ x[1].kind = "token" /\ x[2].kind = "done"
  BY <1>4, <1>5 DEF OfOnePoll
<1>7. /\ e \in Seq(Event) /\ e[Len(e)].kind = "done"
      /\ Len(e) = 1 => t \in mute
      /\ e[1].kind = "token" <=> Len(e) = 2
      /\ \A k \in 1 .. Len(e) : /\ e[k].seq = seq + k /\ e[k].of = t
                                /\ e[k].by = w /\ e[k].during = turn
  BY <1>1 DEF OfOnePoll
<1>8. /\ x \in Seq(Event)
      /\ \A k \in 1 .. 2 : x[k].seq = n + k /\ x[k].of = 0 /\ x[k].during = turn
  BY <1>4, <1>6 DEF OfOnePoll
<1>9. /\ all \in Seq(Event) /\ Len(all) = Len(e) + 2
      /\ \A k \in 1 .. Len(all) : all[k] = IF k <= Len(e) THEN e[k] ELSE x[k - Len(e)]
  <2>1. e \in Seq(Event) /\ x \in Seq(Event)
    BY <1>7, <1>8
  <2>2. /\ all \in Seq(Event) /\ Len(all) = Len(e) + Len(x)
        /\ \A k \in 1 .. Len(e) + Len(x) :
             all[k] = IF k <= Len(e) THEN e[k] ELSE x[k - Len(e)]
    BY <2>1, ConcatProperties
  <2> HIDE DEF all
  <2> QED BY <1>6, <2>2
<1> HIDE DEF all
<1>10. OfOnePush(e, seq, t, w, FALSE)
  BY <1>3, <1>7 DEF OfOnePush
<1>11. OfOnePush(all, seq, t, w, TRUE)
  <2>1. \A k \in 1 .. Len(e) : k \in 1 .. Len(all) /\ all[k] = e[k]
    BY <1>3, <1>9
  <2>2. \A k \in 1 .. Len(all) : k \in 1 .. Len(e) \/ k - Len(e) \in 1 .. 2
    BY <1>3, <1>9
  <2>3. \A k \in 1 .. Len(all) : k \notin 1 .. Len(e) => all[k] = x[k - Len(e)]
    BY <1>3, <1>9
  <2>4. all[1] = e[1]
    BY <1>3, <2>1
  <2>5. \A k \in 1 .. Len(all) : /\ all[k].seq = seq + k
                                 /\ all[k].of # 0 => all[k].of = t /\ all[k].by = w
                                 /\ all[k].during = turn
    <3> SUFFICES ASSUME NEW k \in 1 .. Len(all)
                 PROVE  /\ all[k].seq = seq + k
                        /\ all[k].of # 0 => all[k].of = t /\ all[k].by = w
                        /\ all[k].during = turn
      OBVIOUS
    <3>1. CASE k \in 1 .. Len(e)
      BY <1>7, <2>1, <3>1
    <3>2. CASE k \notin 1 .. Len(e)
      <4>1. all[k] = x[k - Len(e)] /\ k - Len(e) \in 1 .. 2
        BY <2>2, <2>3, <3>2
      <4>2. n + (k - Len(e)) = seq + k
        BY <1>3, <1>9
      <4> QED BY <1>8, <4>1, <4>2
    <3> QED BY <3>1, <3>2
  <2>6. ASSUME t \notin mute, NEW k \in 1 .. Len(all), all[k].kind = "token", k # 1
        PROVE  2 \in 2 .. k - 1 /\ all[2].kind = "done"
    <3>1. Len(e) = 2
      BY <1>3, <1>7, <2>6
    <3>2. all[2].kind = "done"
      BY <1>7, <2>1, <3>1
    <3>3. k # 2 /\ k \in Nat
      BY <2>6, <3>2, <1>9
    <3> QED BY <2>6, <3>2, <3>3
  <2>7. ~ (TRUE /\ t \in mute) =>
          \A k \in 1 .. Len(all) : all[k].kind = "token" /\ k # 1 =>
             \E j \in 2 .. k - 1 : all[j].kind = "done"
    BY <2>6
  <2>8. all[1].kind = "done" => t \in mute
    <3>1. CASE Len(e) = 1
      BY <1>7, <3>1
    <3>2. CASE Len(e) = 2
      BY <1>7, <2>4, <3>2
    <3> QED BY <1>3, <3>1, <3>2
  <2>9. all \in Seq(Event) /\ Len(all) # 0
    BY <1>3, <1>9
  <2> QED BY <2>5, <2>7, <2>8, <2>9, Zenon DEF OfOnePush
<1>12. CASE late
  BY <1>2, <1>11, <1>12
<1>13. CASE ~late
  BY <1>2, <1>10, <1>13
<1> QED BY <1>12, <1>13


(* A buffer with room takes all events; a full one keeps the end of it all. *)
LEMMA BufferedShape ==
  ASSUME NEW b \in Seq(Event), NEW e \in Seq(Event)
  PROVE  LET s == Buffered(b, e) IN
         /\ s \in Seq(Event)
         /\ Len(b) + Len(e) <= MaxSize => s = b \o e
         /\ \A k \in 1 .. Len(s) : \/ \E j \in 1 .. Len(b) : s[k] = b[j]
                                   \/ \E j \in 1 .. Len(e) : s[k] = e[j]
<1> DEFINE all == b \o e
           from == IF Len(all) > MaxSize THEN Len(all) - MaxSize + 1 ELSE 1
           s == SubSeq(all, from, Len(all))
<1>1. /\ all \in Seq(Event) /\ Len(all) = Len(b) + Len(e)
      /\ \A k \in 1 .. Len(all) : all[k] = IF k <= Len(b) THEN b[k] ELSE e[k - Len(b)]
  BY ConcatProperties
<1>2. MaxSize \in Nat /\ MaxSize # 0 /\ Len(b) \in Nat /\ Len(e) \in Nat
  BY BoundsAssumption
<1>3. from \in 1 .. Len(all) + 1
  BY <1>1, <1>2
<1> HIDE DEF all
<1>4. /\ s \in Seq(Event) /\ Len(s) = Len(all) + 1 - from
      /\ \A k \in 1 .. Len(s) : s[k] = all[from + k - 1]
  <2> HIDE DEF from
  <2>1. Len(all) \in Nat
    BY <1>1
  <2> DEFINE n == Len(all)
  <2>2. n \in Nat /\ from \in 1 .. n + 1
    BY <1>3, <2>1
  <2> HIDE DEF n
  <2>3. n \in 0 .. n
    BY <2>2
  <2>4. from \in 1 .. Len(all) + 1 /\ Len(all) \in 0 .. Len(all)
    BY <2>2, <2>3 DEF n
  <2>5. /\ s \in Seq(Event)
        /\ Len(s) = IF from <= Len(all) THEN Len(all) - from + 1 ELSE 0
        /\ \A k \in 1 .. Len(all) - from + 1 : s[k] = all[from + k - 1]
    <3>1. \A k \in from .. Len(all) : all[k] \in Event
      BY <1>1, <2>4
    <3>2. from \in Int /\ Len(all) \in Int
      BY <2>4
    <3> QED BY <3>1, <3>2, SubSeqProperties
  <2> HIDE DEF s
  <2>6. Len(s) = Len(all) + 1 - from
    BY <2>1, <2>4, <2>5
  <2> QED BY <2>1, <2>4, <2>5, <2>6
<1>5. Len(b) + Len(e) <= MaxSize => s = all
  <2> SUFFICES ASSUME Len(b) + Len(e) <= MaxSize PROVE s = all
    OBVIOUS
  <2>1. from = 1
    BY <1>1, <1>2
  <2> QED BY <1>1, <2>1, SubSeqFull
<1>6. ASSUME NEW k \in 1 .. Len(s)
      PROVE  \/ \E j \in 1 .. Len(b) : s[k] = b[j]
             \/ \E j \in 1 .. Len(e) : s[k] = e[j]
  <2> DEFINE h == from + k - 1
  <2>1. h \in 1 .. Len(all) /\ s[k] = all[h]
    BY <1>1, <1>2, <1>3, <1>4
  <2> HIDE DEF h, s
  <2>2. CASE h <= Len(b)
    BY <1>1, <1>2, <2>1, <2>2
  <2>3. CASE h > Len(b)
    <3>1. h - Len(b) \in 1 .. Len(e) /\ s[k] = e[h - Len(b)]
      BY <1>1, <1>2, <2>1, <2>3
    <3> QED BY <3>1
  <2> QED BY <1>2, <2>1, <2>2, <2>3
<1>7. Buffered(b, e) = s
  BY Zenon DEF Buffered, all
<1>8. Len(b) + Len(e) <= MaxSize => s = b \o e
  BY <1>5 DEF all
<1> HIDE DEF s
<1> QED BY <1>4, <1>6, <1>7, <1>8

(* Nothing is replayed to a browser that has seen nothing; to another one,  *)
(* events of the buffer with numbers after the last it has seen.            *)
LEMMA MissedShape ==
  ASSUME NEW b \in Seq(Event), NEW last \in Nat
  PROVE  LET m == Missed(b, last) IN
         /\ m \in Seq(Event)
         /\ last = 0 => m = << >>
         /\ last > 0 => \E at : Selects(b, last, Len(b), m, at)
<1>1. << >> \in Seq(Event)
  OBVIOUS
<1> DEFINE m == Missed(b, last)
           since == Since(b, last)
<1>2. since \in Seq(Event)
  BY ReplayInOrder
<1>3. \E at : Selects(b, last, Len(b), since, at)
  BY ReplayInOrder
<1>4. m = IF last > 0 THEN since ELSE << >>
  BY Zenon DEF Missed
<1> HIDE DEF m, since
<1>5. m \in Seq(Event) /\ (last = 0 => m = << >>)
  BY <1>1, <1>2, <1>4
<1>6. ASSUME last > 0 PROVE \E at : Selects(b, last, Len(b), m, at)
  <2>1. m = since
    BY <1>4, <1>6
  <2> QED BY <1>3, <2>1, Zenon
<1>7. last > 0 => \E at : Selects(b, last, Len(b), m, at)
  BY <1>6
<1> QED BY <1>5, <1>7, Zenon DEF m


-----------------------------------------------------------------------------
(* Types.                                                                   *)

(* The connection that is left, if it polls, is a stray one.                *)
LEMMA LeaveShape ==
  ASSUME StreamTypeOK, Leave
  PROVE  /\ stray' \in SUBSET [at : Instances, seq : Nat]
         /\ stray \subseteq stray'
         /\ \A s \in stray' :
              s \in stray \/ (conn.polling /\ s.at = conn.at /\ s.seq = conn.seq)
<1>1. /\ stray \in SUBSET [at : Instances, seq : Nat]
      /\ conn.at \in Instances /\ conn.seq \in Nat
  BY DEF StreamTypeOK
<1>2. CASE conn.polling
  <2>1. stray' = stray \cup {[at |-> conn.at, seq |-> conn.seq]}
    BY <1>2 DEF Leave
  <2> QED BY <1>1, <1>2, <2>1
<1>3. CASE ~conn.polling
  BY <1>1, <1>3 DEF Leave
<1> QED BY <1>2, <1>3

LEMMA OpenTyped ==
  ASSUME StreamTypeOK, NEW i \in Instances, NEW b \in Seq(Event),
         NEW last \in Nat, Open(i, b, last)
  PROVE  /\ conn' \in [at : Instances, seq : Nat, polling : BOOLEAN, wire : Seq(Event)]
         /\ stray' \in SUBSET [at : Instances, seq : Nat]
<1> DEFINE m == Missed(b, last)
<1>1. m \in Seq(Event)
  BY MissedShape
<1> HIDE DEF m
<1>2. (IF m = << >> THEN 0 ELSE m[Len(m)].seq) \in Nat
  <2>1. m # << >> => m[Len(m)] \in Event
    BY <1>1
  <2> QED BY <2>1 DEF Event
<1>3. conn' = [at |-> i, polling |-> TRUE, wire |-> m,
               seq |-> IF m = << >> THEN 0 ELSE m[Len(m)].seq]
  BY DEF Open, m
<1>4. stray' \in SUBSET [at : Instances, seq : Nat]
  BY LeaveShape DEF Open
<1> QED BY <1>1, <1>2, <1>3, <1>4

LEMMA StoreTyped ==
  ASSUME StreamTypeOK, NEW i \in Instances, NEW e \in Seq(Event), Store(i, e)
  PROVE  /\ buffer' \in [Instances -> Seq(Event)]
         /\ torn' \in BOOLEAN
<1>1. Buffered(buffer[i], e) \in Seq(Event)
  BY BufferedShape DEF StreamTypeOK
<1> QED BY <1>1 DEF Store, StreamTypeOK

LEMMA MishapTyped ==
  ASSUME StreamTypeOK, Mishap
  PROVE  mishaps' \in 0 .. MaxMishaps
BY BoundsAssumption DEF StreamTypeOK, Mishap

LEMMA LateTyped ==
  ASSUME StreamTypeOK, NEW late \in BOOLEAN, NEW t, Late(late, t)
  PROVE  mishaps' \in 0 .. MaxMishaps /\ overrun' \in BOOLEAN
<1>1. overrun' \in BOOLEAN
  BY DEF Late
<1>2. CASE late
  BY <1>1, <1>2, MishapTyped DEF Late
<1>3. CASE ~late
  BY <1>1, <1>3 DEF Late, StreamTypeOK
<1> QED BY <1>2, <1>3

(* A source and a connection that are closed.                               *)
LEMMA ClosedShape ==
  ASSUME NEW c, c \in {Closed, [Closed EXCEPT !.refused = TRUE]}
  PROVE  /\ c \in [open : BOOLEAN, refused : BOOLEAN, lastSeq : Nat, lastId : Nat,
                    texts : Nat]
         /\ c.open = FALSE /\ c.lastSeq = 0 /\ c.lastId = 0 /\ c.texts = 0
         /\ NoConn \in [at : Instances, seq : Nat, polling : BOOLEAN, wire : Seq(Event)]
         /\ NoConn.polling = FALSE /\ NoConn.wire = << >> /\ NoConn.seq = 0
<1>1. (CHOOSE i \in Instances : TRUE) \in Instances
  BY InstanceAssumption
<1>2. << >> \in Seq(Event)
  OBVIOUS
<1>3. FreshSource \in [open : BOOLEAN, refused : BOOLEAN, lastSeq : Nat, lastId : Nat,
                       texts : Nat]
  BY DEF FreshSource
<1>4. FreshSource.lastSeq = 0 /\ FreshSource.lastId = 0 /\ FreshSource.texts = 0
  BY DEF FreshSource
<1>5. /\ Closed \in [open : BOOLEAN, refused : BOOLEAN, lastSeq : Nat, lastId : Nat,
                     texts : Nat]
      /\ Closed.open = FALSE /\ Closed.lastSeq = 0 /\ Closed.lastId = 0
      /\ Closed.texts = 0
  BY <1>3, <1>4 DEF Closed
<1>6. /\ NoConn \in [at : Instances, seq : Nat, polling : BOOLEAN, wire : Seq(Event)]
      /\ NoConn.polling = FALSE /\ NoConn.wire = << >> /\ NoConn.seq = 0
  BY <1>1, <1>2 DEF NoConn
<1> QED BY <1>5, <1>6

(* The spinner stops, and the turn it was for has ended.                    *)
LEMMA EndShape ==
  ASSUME StreamTypeOK, NEW how \in {"done", "error"}, End(how)
  PROVE  /\ outcome' \in [Turns -> {"open", "done", "error"}]
         /\ streaming' = FALSE
         /\ \A t \in Turns : outcome'[t] = IF t = turn /\ streaming THEN how
                                           ELSE outcome[t]
<1>1. outcome \in [Turns -> {"open", "done", "error"}]
  BY DEF StreamTypeOK
<1>2. CASE streaming
  <2>1. outcome' = [outcome EXCEPT ![turn] = how] /\ streaming' = FALSE
    BY <1>2 DEF End
  <2> QED BY <1>1, <1>2, <2>1
<1>3. CASE ~streaming
  <2>1. outcome' = outcome /\ streaming' = FALSE
    BY <1>3 DEF End
  <2> QED BY <1>1, <1>3, <2>1
<1> QED BY <1>2, <1>3

(* The connection has the events on its wire, the buffer has them too, and  *)
(* the connection is done.                                                  *)
LEMMA PushShape ==
  ASSUME StreamTypeOK, NEW t \in 0 .. MaxTurns, NEW w \in Workers \cup {None},
         NEW late \in BOOLEAN, Push(t, w, late)
  PROVE  \E e : /\ OfOnePush(e, conn.seq, t, w, late)
                /\ conn'.at = conn.at /\ conn'.polling = FALSE
                /\ conn'.wire = conn.wire \o e
                /\ conn' \in [at : Instances, seq : Nat, polling : BOOLEAN,
                              wire : Seq(Event)]
                /\ Store(conn.at, e)
                /\ overrun' = (overrun \/ (late /\ t \in mute))
                /\ mishaps' \in 0 .. MaxMishaps /\ overrun' \in BOOLEAN
<1> DEFINE e == Pushed(conn.seq, t, w, late)
<1>1. conn.seq \in Nat
  BY DEF StreamTypeOK
<1>2. OfOnePush(e, conn.seq, t, w, late)
  BY <1>1, PushedShape
<1>3. /\ conn' = [conn EXCEPT !.wire = @ \o e, !.polling = FALSE, !.seq = e[Len(e)].seq]
      /\ Store(conn.at, e) /\ Late(late, t)
  BY Zenon DEF Push
<1> HIDE DEF e
<1>4. e \in Seq(Event) /\ e[Len(e)].seq \in Nat
  <2>1. e \in Seq(Event) /\ Len(e) # 0
    BY <1>2 DEF OfOnePush
  <2>2. e[Len(e)] \in Event
    BY <2>1
  <2> QED BY <2>1, <2>2 DEF Event
<1>5. conn.wire \o e \in Seq(Event)
  BY <1>4 DEF StreamTypeOK
<1>6. conn \in [at : Instances, seq : Nat, polling : BOOLEAN, wire : Seq(Event)]
  BY DEF StreamTypeOK
<1>7. /\ conn'.at = conn.at /\ conn'.polling = FALSE /\ conn'.wire = conn.wire \o e
      /\ conn' \in [at : Instances, seq : Nat, polling : BOOLEAN, wire : Seq(Event)]
  BY <1>3, <1>4, <1>5, <1>6
<1>8. mishaps' \in 0 .. MaxMishaps /\ overrun' \in BOOLEAN
  BY <1>3, LateTyped
<1>9. overrun' = (overrun \/ (late /\ t \in mute))
  BY <1>3 DEF Late
<1> QED BY <1>2, <1>3, <1>7, <1>8, <1>9

(* A connection that was left pushes into the buffer alone.                 *)
LEMMA StrayPushShape ==
  ASSUME StreamTypeOK, NEW s \in stray, NEW t \in 0 .. MaxTurns,
         NEW w \in Workers \cup {None}, NEW late \in BOOLEAN,
         Store(s.at, Pushed(s.seq, t, w, late))
  PROVE  \E e : OfOnePush(e, s.seq, t, w, late) /\ Store(s.at, e)
<1>1. s.seq \in Nat
  BY DEF StreamTypeOK
<1>2. OfOnePush(Pushed(s.seq, t, w, late), s.seq, t, w, late)
  BY <1>1, PushedShape
<1> QED BY <1>2

LEMMA TypeStep ==
  ASSUME StreamTypeOK, [ChatNext]_chatVars
  PROVE  StreamTypeOK'
(* The types a step can disturb, by themselves for the provers.             *)
<1>0. /\ outcome \in [Turns -> {"open", "done", "error"}]
      /\ shown \in [Turns -> Seq(Event)]
      /\ stray \in SUBSET [at : Instances, seq : Nat]
      /\ conn \in [at : Instances, seq : Nat, polling : BOOLEAN, wire : Seq(Event)]
      /\ source \in [open : BOOLEAN, refused : BOOLEAN, lastSeq : Nat, lastId : Nat,
                     texts : Nat]
  BY DEF StreamTypeOK
<1>16. ASSUME NEW i \in Instances, Open(i, buffer[i], 0)
      PROVE  /\ conn' \in [at : Instances, seq : Nat, polling : BOOLEAN, wire : Seq(Event)]
             /\ stray' \in SUBSET [at : Instances, seq : Nat]
  <2>1. buffer[i] \in Seq(Event) /\ 0 \in Nat
    BY DEF StreamTypeOK
  <2> QED BY <1>16, <2>1, OpenTyped
<1>13. CASE ReceiveText
  <2> DEFINE e == Head(conn.wire)
  <2>1. e \in Event /\ Tail(conn.wire) \in Seq(Event) /\ e.seq \in Nat
    <3>1. conn.wire \in Seq(Event) /\ conn.wire # << >>
      BY <1>0, <1>13 DEF ReceiveText
    <3>2. e \in Event /\ Tail(conn.wire) \in Seq(Event)
      BY <3>1, HeadTailProperties
    <3> QED BY <3>2 DEF Event
  <2>2. conn' \in [at : Instances, seq : Nat, polling : BOOLEAN, wire : Seq(Event)]
    BY <1>0, <1>13, <2>1 DEF ReceiveText
  <2>3. \A t \in Turns : Append(shown[t], e) \in Seq(Event)
    BY <1>0, <2>1
  <2>4. \/ /\ source' = [source EXCEPT !.lastSeq = e.seq, !.lastId = e.seq,
                                       !.texts = @ + 1]
           /\ shown' = [shown EXCEPT ![turn] = Append(@, e)]
        \/ /\ source' = [source EXCEPT !.lastId = e.seq]
           /\ shown' = shown
    BY <1>13 DEF ReceiveText
  <2> HIDE DEF e
  <2>5. source' \in [open : BOOLEAN, refused : BOOLEAN, lastSeq : Nat, lastId : Nat,
                     texts : Nat]
    <3>1. source.texts + 1 \in Nat
      BY <1>0
    <3> QED BY <1>0, <2>1, <2>4, <3>1
  <2>6. shown' \in [Turns -> Seq(Event)]
    <3>1. CASE turn \in Turns
      <4> DEFINE text == Append(shown[turn], e)
      <4>1. text \in Seq(Event)
        BY <2>3, <3>1
      <4>2. shown' = [shown EXCEPT ![turn] = text] \/ shown' = shown
        BY <2>4
      <4>3. shown \in [Turns -> Seq(Event)]
        BY <1>0
      <4> HIDE DEF Turns, text
      <4> QED BY <4>1, <4>2, <4>3
    <3>2. CASE turn \notin Turns
      BY <1>0, <2>4, <3>2
    <3> QED BY <3>1, <3>2
  <2> QED BY <1>13, <2>2, <2>5, <2>6 DEF ReceiveText, gatewayVars, StreamTypeOK
<1>14. CASE ReceiveDone
  <2>1. /\ source' = Closed /\ conn' = NoConn /\ End("done") /\ Leave
        /\ UNCHANGED <<turn, waiting, shown, tokenDue, revived, gatewayVars, buffer,
                       mishaps, torn, overrun>>
    BY <1>14 DEF ReceiveDone
  <2>2. outcome' \in [Turns -> {"open", "done", "error"}] /\ streaming' \in BOOLEAN
    BY <2>1, EndShape
  <2>3. stray' \in SUBSET [at : Instances, seq : Nat]
    BY <2>1, LeaveShape
  <2>4. /\ source' \in [open : BOOLEAN, refused : BOOLEAN, lastSeq : Nat, lastId : Nat,
                        texts : Nat]
        /\ conn' \in [at : Instances, seq : Nat, polling : BOOLEAN, wire : Seq(Event)]
    BY <2>1, ClosedShape
  <2> QED BY <2>1, <2>2, <2>3, <2>4 DEF gatewayVars, StreamTypeOK
<1>18. CASE Refuse
  <2>1. /\ source' = [Closed EXCEPT !.refused = TRUE] /\ conn' = NoConn /\ Leave /\ Mishap
        /\ UNCHANGED <<turn, waiting, streaming, outcome, shown, tokenDue, revived,
                       gatewayVars, buffer, torn, overrun>>
    BY <1>18 DEF Refuse
  <2>2. stray' \in SUBSET [at : Instances, seq : Nat] /\ mishaps' \in 0 .. MaxMishaps
    BY <2>1, LeaveShape, MishapTyped
  <2>3. /\ source' \in [open : BOOLEAN, refused : BOOLEAN, lastSeq : Nat, lastId : Nat,
                        texts : Nat]
        /\ conn' \in [at : Instances, seq : Nat, polling : BOOLEAN, wire : Seq(Event)]
    BY <2>1, ClosedShape
  <2> QED BY <2>1, <2>2, <2>3 DEF gatewayVars, StreamTypeOK
<1>6. ASSUME NEW t \in 0 .. MaxTurns, NEW w \in Workers \cup {None},
             NEW late \in BOOLEAN, Push(t, w, late),
             UNCHANGED <<browserVars, gatewayVars, stray>>
      PROVE  StreamTypeOK'
  <2>1. PICK e : /\ OfOnePush(e, conn.seq, t, w, late) /\ Store(conn.at, e)
                 /\ conn' \in [at : Instances, seq : Nat, polling : BOOLEAN,
                               wire : Seq(Event)]
                 /\ mishaps' \in 0 .. MaxMishaps /\ overrun' \in BOOLEAN
    BY <1>6, PushShape
  <2>2. buffer' \in [Instances -> Seq(Event)] /\ torn' \in BOOLEAN
    <3>1. e \in Seq(Event) /\ conn.at \in Instances
      BY <1>0, <2>1 DEF OfOnePush
    <3> QED BY <2>1, <3>1, StoreTyped
  <2> QED BY <1>6, <2>1, <2>2 DEF gatewayVars, browserVars, StreamTypeOK
<1>20. ASSUME NEW s \in stray, NEW t \in 0 .. MaxTurns, NEW w \in Workers \cup {None},
              NEW late \in BOOLEAN, Store(s.at, Pushed(s.seq, t, w, late))
       PROVE  buffer' \in [Instances -> Seq(Event)] /\ torn' \in BOOLEAN
  <2>1. PICK e : OfOnePush(e, s.seq, t, w, late) /\ Store(s.at, e)
    BY <1>20, StrayPushShape
  <2>2. e \in Seq(Event) /\ s.at \in Instances
    BY <2>1 DEF OfOnePush, StreamTypeOK
  <2> QED BY <2>1, <2>2, StoreTyped
<1>17. /\ 0 \in 0 .. MaxTurns
       /\ FreshSource \in [open : BOOLEAN, refused : BOOLEAN, lastSeq : Nat,
                           lastId : Nat, texts : Nat]
  BY BoundsAssumption DEF FreshSource
<1> USE <1>17 DEF StreamTypeOK
<1>1. ASSUME NEW w \in Workers, Send(w) PROVE StreamTypeOK'
  <2>1. turn + 1 \in Turns /\ turn + 1 \in 0 .. MaxTurns
    BY <1>1, BoundsAssumption DEF Send, Turns
  <2>2. /\ server' \in [Turns -> Workers \cup {None}]
        /\ pending' \in SUBSET Turns /\ waiting' \in SUBSET Turns
    BY <1>1, <2>1 DEF Send
  <2> QED BY <1>1, <2>1, <2>2 DEF Send, streamVars
<1>2. ASSUME NEW t \in Turns, NEW i \in Instances, Answer(t, i) PROVE StreamTypeOK'
  <2>1. cache' \in [Workers -> 0 .. MaxTurns]
    <3>1. t \in 0 .. MaxTurns
      BY BoundsAssumption DEF Turns
    <3> QED BY <1>2, <3>1 DEF Answer, Cached
  <2>2. /\ pending' \in SUBSET Turns /\ mute' \in SUBSET Turns
        /\ waiting' \in SUBSET Turns
    BY <1>2 DEF Answer
  <2>3. CASE t \in waiting
    <3>1. Open(i, buffer[i], 0)
      BY <1>2, <2>3 DEF Answer
    <3>2. /\ conn' \in [at : Instances, seq : Nat, polling : BOOLEAN, wire : Seq(Event)]
          /\ stray' \in SUBSET [at : Instances, seq : Nat]
      BY <1>16, <3>1
    <3> QED BY <1>2, <2>1, <2>2, <2>3, <3>2 DEF Answer
  <2>4. CASE t \notin waiting
    BY <1>2, <2>1, <2>2, <2>4 DEF Answer
  <2> QED BY <2>3, <2>4
<1>3. ASSUME NEW t \in Turns, AnswerFails(t) PROVE StreamTypeOK'
  <2>1. /\ waiting' \in SUBSET Turns /\ pending' \in SUBSET Turns
        /\ End("error") \/ UNCHANGED <<streaming, outcome>>
    BY <1>3 DEF AnswerFails
  <2>2. outcome' \in [Turns -> {"open", "done", "error"}] /\ streaming' \in BOOLEAN
    <3>1. CASE End("error")
      BY <3>1, EndShape
    <3>2. CASE UNCHANGED <<streaming, outcome>>
      BY <3>2
    <3> QED BY <2>1, <3>1, <3>2
  <2> QED BY <1>3, <2>1, <2>2 DEF AnswerFails, streamVars
<1>4. ASSUME NEW t \in Turns, PostLost(t) PROVE StreamTypeOK'
  <2>1. End("error") /\ waiting' \in SUBSET Turns
    BY <1>4 DEF PostLost
  <2>2. outcome' \in [Turns -> {"open", "done", "error"}] /\ streaming' = FALSE
    BY <2>1, EndShape
  <2> QED BY <1>4, <2>1, <2>2 DEF PostLost, streamVars, gatewayVars
<1>5. ASSUME NEW i \in Instances, TokenArrives(i) PROVE StreamTypeOK'
  <2>1. /\ conn' \in [at : Instances, seq : Nat, polling : BOOLEAN, wire : Seq(Event)]
        /\ stray' \in SUBSET [at : Instances, seq : Nat]
    BY <1>5, <1>16 DEF TokenArrives
  <2>2. mishaps' \in 0 .. MaxMishaps
    BY <1>5, MishapTyped DEF TokenArrives
  <2>3. revived' \in BOOLEAN
    BY <1>5 DEF TokenArrives
  <2> QED BY <1>5, <2>1, <2>2, <2>3 DEF TokenArrives, gatewayVars
<1>7. ASSUME NEW w \in Workers, Poll(w) PROVE StreamTypeOK'
  <2>1. cache[w] \in 0 .. MaxTurns
    OBVIOUS
  <2>2. PICK late \in BOOLEAN : Push(cache[w], w, late)
    BY <1>7 DEF Poll
  <2>3. UNCHANGED <<browserVars, gatewayVars, stray>>
    BY <1>7 DEF Poll
  <2> QED BY <1>6, <2>1, <2>2, <2>3
<1>8. CASE TimeUp
  BY <1>6, <1>8 DEF TimeUp
<1>9. ASSUME NEW w \in Workers, StrayPoll(w) PROVE StreamTypeOK'
  <2>1. PICK s \in stray, late \in BOOLEAN :
          /\ Store(s.at, Pushed(s.seq, cache[w], w, late))
          /\ stray' = stray \ {s} /\ Late(late, cache[w])
    BY <1>9 DEF StrayPoll
  <2>2. mishaps' \in 0 .. MaxMishaps /\ overrun' \in BOOLEAN
    BY <2>1, LateTyped
  <2>3. buffer' \in [Instances -> Seq(Event)] /\ torn' \in BOOLEAN
    BY <1>20, <2>1
  <2> QED BY <1>9, <2>1, <2>2, <2>3 DEF StrayPoll, browserVars, gatewayVars
<1>21. CASE StrayTimeUp
  <2>1. PICK s \in stray :
          /\ Store(s.at, Pushed(s.seq, 0, None, FALSE)) /\ stray' = stray \ {s}
    BY <1>21 DEF StrayTimeUp
  <2>2. buffer' \in [Instances -> Seq(Event)] /\ torn' \in BOOLEAN
    BY <1>20, <2>1
  <2> QED BY <1>21, <2>1, <2>2 DEF StrayTimeUp, browserVars, gatewayVars
<1>10. CASE StrayAborts
  BY <1>10 DEF StrayAborts, browserVars, gatewayVars
<1>11. ASSUME NEW i \in Instances, Expire(i) PROVE StreamTypeOK'
  BY <1>11 DEF Expire, browserVars, gatewayVars
<1>12. ASSUME NEW i \in Instances, Reconnect(i) PROVE StreamTypeOK'
  <2>1. PICK n \in 0 .. Len(buffer[i]) :
          LET young == SubSeq(buffer[i], n + 1, Len(buffer[i])) IN
          /\ buffer' = [buffer EXCEPT ![i] = young]
          /\ Open(i, young, source.lastId)
          /\ torn' = (torn \/ n > 0)
    BY <1>12 DEF Reconnect
  <2> DEFINE young == SubSeq(buffer[i], n + 1, Len(buffer[i]))
  <2>2. young \in Seq(Event)
    OBVIOUS
  <2> HIDE DEF young
  <2>3. /\ conn' \in [at : Instances, seq : Nat, polling : BOOLEAN, wire : Seq(Event)]
        /\ stray' \in SUBSET [at : Instances, seq : Nat]
    <3>1. Open(i, young, source.lastId)
      BY <2>1 DEF young
    <3> QED BY <2>2, <3>1, OpenTyped
  <2>4. buffer' \in [Instances -> Seq(Event)] /\ torn' \in BOOLEAN
    <3>1. buffer' = [buffer EXCEPT ![i] = young]
      BY <2>1 DEF young
    <3>2. buffer' \in [Instances -> Seq(Event)]
      BY <2>2, <3>1
    <3>3. torn' \in BOOLEAN
      BY <2>1
    <3> QED BY <3>2, <3>3
  <2>5. mishaps' \in 0 .. MaxMishaps /\ UNCHANGED <<browserVars, gatewayVars, overrun>>
    BY <1>12, MishapTyped DEF Reconnect
  <2> QED BY <2>3, <2>4, <2>5 DEF browserVars, gatewayVars
<1>19. CASE UNCHANGED chatVars
  BY <1>19 DEF chatVars, browserVars, gatewayVars, streamVars
<1> QED
  BY <1>1, <1>2, <1>3, <1>4, <1>5, <1>7, <1>8, <1>9, <1>10, <1>11, <1>12, <1>13,
     <1>14, <1>18, <1>19, <1>21 DEF ChatNext

LEMMA TypeInit == ChatInit => StreamTypeOK
<1> SUFFICES ASSUME ChatInit PROVE StreamTypeOK
  OBVIOUS
<1>2. << >> \in Seq(Event)
  OBVIOUS
<1>3. /\ conn \in [at : Instances, seq : Nat, polling : BOOLEAN, wire : Seq(Event)]
      /\ source \in [open : BOOLEAN, refused : BOOLEAN, lastSeq : Nat, lastId : Nat,
                     texts : Nat]
  BY ClosedShape DEF ChatInit
<1>4. /\ shown \in [Turns -> Seq(Event)]
      /\ buffer \in [Instances -> Seq(Event)]
  BY <1>2 DEF ChatInit
<1>5. 0 \in 0 .. MaxTurns /\ 0 \in 0 .. MaxMishaps
  BY BoundsAssumption
<1> QED BY <1>3, <1>4, <1>5 DEF ChatInit, StreamTypeOK

(* Every variable keeps its type.                                           *)
THEOREM StreamTypes == ChatSpec => []StreamTypeOK
BY TypeInit, TypeStep, PTL DEF ChatSpec

-----------------------------------------------------------------------------
(* Turns: what there is belongs to messages that have been sent.            *)
TurnsInv ==
    /\ streaming \/ source.open \/ tokenDue => turn # 0
    /\ conn.polling => source.open
    /\ waiting \subseteq 1 .. turn
    /\ pending \subseteq 1 .. turn
    /\ mute \subseteq 1 .. turn
    /\ \A w \in Workers : cache[w] <= turn
    /\ \A t \in 1 .. turn : server[t] \in Workers
    /\ \A t \in Turns : t > turn => shown[t] = << >> /\ outcome[t] = "open"

(* Until a stream is revived, the browser waits for the answer to the last  *)
(* message, or streams it, or the input is free.  Once it has the answer,   *)
(* the worker that served the message has it too, and no answer that is     *)
(* still to come can replace it.                                            *)
PromptInv ==
    ~revived =>
        /\ waiting # {} => streaming /\ waiting = {turn}
        /\ source.open => streaming /\ waiting = {}
        /\ streaming /\ waiting = {} => pending = {} /\ cache[server[turn]] = turn

LEMMA TurnsStep ==
  ASSUME StreamTypeOK, TurnsInv, [ChatNext]_chatVars
  PROVE  TurnsInv'
<1>0. /\ turn \in Nat /\ turn <= MaxTurns
      /\ Turns = 1 .. MaxTurns /\ MaxTurns \in Nat
      /\ server \in [Turns -> Workers \cup {None}]
      /\ cache \in [Workers -> 0 .. MaxTurns]
      /\ outcome \in [Turns -> {"open", "done", "error"}]
      /\ shown \in [Turns -> Seq(Event)]
  BY BoundsAssumption DEF StreamTypeOK, Turns
<1>20. /\ streaming \/ source.open \/ tokenDue => turn # 0
       /\ conn.polling => source.open
       /\ waiting \subseteq 1 .. turn
       /\ pending \subseteq 1 .. turn
       /\ mute \subseteq 1 .. turn
       /\ \A w \in Workers : cache[w] <= turn
       /\ \A t \in 1 .. turn : server[t] \in Workers
       /\ \A t \in Turns : t > turn => shown[t] = << >> /\ outcome[t] = "open"
  BY Zenon DEF TurnsInv
<1>21. ASSUME NEW how \in {"done", "error"}, End(how)
       PROVE  /\ streaming' = FALSE
              /\ \A t \in Turns : t > turn => outcome'[t] = "open"
  <2>1. /\ streaming' = FALSE
        /\ \A t \in Turns : outcome'[t] = IF t = turn /\ streaming THEN how ELSE outcome[t]
    BY <1>21, EndShape
  <2>2. \A t \in Turns : t > turn => t # turn
    BY <1>0
  <2> QED BY <1>20, <2>1, <2>2
<1>1. ASSUME NEW w \in Workers, Send(w) PROVE TurnsInv'
  <2>1. turn' = turn + 1 /\ turn + 1 \in Turns /\ turn + 1 # 0
    <3>1. turn' = turn + 1 /\ turn < MaxTurns
      BY <1>1 DEF Send
    <3>2. turn + 1 \in 1 .. MaxTurns
      BY <1>0, <3>1
    <3> QED BY <1>0, <3>1, <3>2
  <2>2. /\ source' = source /\ conn' = conn /\ mute' = mute /\ cache' = cache
        /\ outcome' = outcome /\ shown' = shown
        /\ waiting' = waiting \cup {turn + 1}
        /\ pending' = pending \cup {turn + 1}
    BY <1>1 DEF Send, streamVars
  <2>3. \A t \in 1 .. turn + 1 : server'[t] \in Workers
    <3>1. server' = [server EXCEPT ![turn + 1] = w]
      BY <1>1 DEF Send
    <3>2. server'[turn + 1] = w /\ \A t \in Turns : t # turn + 1 => server'[t] = server[t]
      BY <1>0, <2>1, <3>1
    <3>3. \A t \in 1 .. turn : server[t] \in Workers /\ t \in Turns /\ t # turn + 1
      BY <1>0, <1>20
    <3>4. \A t \in 1 .. turn + 1 : t = turn + 1 \/ t \in 1 .. turn
      BY <1>0
    <3> QED BY <3>2, <3>3, <3>4
  <2>4. \A v \in Workers : cache[v] <= turn + 1
    <3> TAKE v \in Workers
    <3>1. cache[v] \in Nat /\ turn \in Nat /\ cache[v] <= turn
      BY <1>0, <1>20
    <3> QED BY <3>1
  <2>5. /\ pending' \subseteq 1 .. turn + 1 /\ mute' \subseteq 1 .. turn + 1
        /\ waiting' \subseteq 1 .. turn + 1
    <3>1. 1 .. turn \subseteq 1 .. turn + 1 /\ turn + 1 \in 1 .. turn + 1
      BY <1>0
    <3> QED BY <1>20, <2>2, <3>1
  <2>7. \A t \in Turns : t > turn + 1 => shown[t] = << >> /\ outcome[t] = "open"
    <3>1. \A t \in Turns : t > turn + 1 => t > turn
      BY <1>0
    <3> QED BY <1>20, <3>1, Zenon
  <2>6. conn'.polling => source'.open
    BY <1>20, <2>2
  <2> QED BY <2>1, <2>2, <2>3, <2>4, <2>5, <2>6, <2>7 DEF TurnsInv
<1>2. ASSUME NEW t \in Turns, NEW i \in Instances, Answer(t, i) PROVE TurnsInv'
  <2>1. t \in 1 .. turn /\ server[t] \in Workers /\ turn # 0
    BY <1>0, <1>2, <1>20 DEF Answer
  <2>2. /\ turn' = turn /\ streaming' = streaming /\ outcome' = outcome
        /\ shown' = shown /\ server' = server
        /\ pending' = pending \ {t} /\ waiting' = waiting \ {t}
        /\ cache' = [cache EXCEPT ![server[t]] = t]
        /\ mute' \subseteq mute \cup {t}
    BY <1>2 DEF Answer, Cached
  <2>3. \A w \in Workers : cache'[w] <= turn
    BY <1>0, <1>20, <2>1, <2>2
  <2>4. /\ pending' \subseteq 1 .. turn /\ mute' \subseteq 1 .. turn
        /\ waiting' \subseteq 1 .. turn
    BY <1>20, <2>1, <2>2
  <2>5. conn'.polling => source'.open
    <3>1. CASE t \in waiting
      <4>1. source' = FreshSource
        BY <1>2, <3>1 DEF Answer
      <4> QED BY <4>1 DEF FreshSource
    <3>2. CASE t \notin waiting
      BY <1>2, <1>20, <3>2 DEF Answer
    <3> QED BY <3>1, <3>2
  <2> QED BY <1>20, <2>1, <2>2, <2>3, <2>4, <2>5 DEF TurnsInv
<1>22. ASSUME End("error") \/ UNCHANGED <<streaming, outcome>>,
              waiting' \subseteq waiting, pending' \subseteq pending,
              UNCHANGED <<turn, shown, source, tokenDue, server, mute, cache, conn>>
       PROVE  TurnsInv'
  <2>1. \A t \in Turns : t > turn => outcome'[t] = "open"
    BY <1>20, <1>21, <1>22
  <2>2. streaming' => streaming
    BY <1>21, <1>22
  <2>3. waiting' \subseteq 1 .. turn /\ pending' \subseteq 1 .. turn
    BY <1>20, <1>22
  <2> QED BY <1>20, <1>22, <2>1, <2>2, <2>3 DEF TurnsInv
<1>3. ASSUME NEW t \in Turns, AnswerFails(t) PROVE TurnsInv'
  BY <1>3, <1>22 DEF AnswerFails, streamVars
<1>4. ASSUME NEW t \in Turns, PostLost(t) PROVE TurnsInv'
  BY <1>4, <1>22 DEF PostLost, streamVars, gatewayVars
<1>5. ASSUME source'.open => turn # 0, conn'.polling => source'.open,
             tokenDue' => tokenDue,
             UNCHANGED <<turn, waiting, streaming, outcome, shown, gatewayVars>>
      PROVE  TurnsInv'
  BY <1>5, <1>20 DEF TurnsInv, gatewayVars
<1>6. ASSUME NEW i \in Instances, TokenArrives(i) PROVE TurnsInv'
  BY <1>5, <1>6, <1>20 DEF TokenArrives, FreshSource
<1>7. ASSUME NEW t, NEW w, NEW late, Push(t, w, late),
             UNCHANGED <<browserVars, gatewayVars, stray>>
      PROVE  TurnsInv'
  <2>1. conn'.polling = FALSE
    BY <1>7 DEF Push, StreamTypeOK
  <2> QED BY <1>5, <1>7, <1>20, <2>1 DEF browserVars
<1>8. ASSUME NEW w \in Workers, Poll(w) PROVE TurnsInv'
  BY <1>7, <1>8 DEF Poll
<1>9. CASE TimeUp
  BY <1>7, <1>9 DEF TimeUp
<1>10. ASSUME UNCHANGED <<browserVars, gatewayVars, conn>> PROVE TurnsInv'
  BY <1>5, <1>10, <1>20 DEF browserVars
<1>11. ASSUME NEW i \in Instances, Reconnect(i) PROVE TurnsInv'
  <2>1. source.open /\ UNCHANGED <<browserVars, gatewayVars>>
    BY <1>11 DEF Reconnect
  <2> QED BY <1>5, <1>20, <2>1 DEF browserVars
<1>12. CASE ReceiveText
  <2>1. /\ source'.open = source.open /\ conn'.polling = conn.polling
        /\ UNCHANGED <<turn, waiting, streaming, outcome, tokenDue, gatewayVars>>
    BY <1>12 DEF ReceiveText, StreamTypeOK
  <2>2. turn \in Turns
    BY <1>0, <1>12, <1>20 DEF ReceiveText
  <2>3. \A t \in Turns : t > turn => shown'[t] = shown[t]
    BY <1>0, <1>12 DEF ReceiveText
  <2> QED BY <1>20, <2>1, <2>3 DEF TurnsInv, gatewayVars
<1>13. CASE ReceiveDone
  <2>1. /\ source' = Closed /\ conn' = NoConn /\ End("done")
        /\ UNCHANGED <<turn, waiting, shown, tokenDue, server, pending, mute, cache>>
    BY <1>13 DEF ReceiveDone, gatewayVars
  <2>2. conn'.polling = FALSE /\ source'.open = FALSE
    BY <2>1, ClosedShape
  <2>3. /\ streaming' = FALSE
        /\ \A t \in Turns : t > turn => outcome'[t] = "open"
    BY <1>21, <2>1
  <2> QED BY <1>20, <2>1, <2>2, <2>3 DEF TurnsInv
<1>15. CASE Refuse
  <2>1. /\ source' = [Closed EXCEPT !.refused = TRUE] /\ conn' = NoConn
        /\ UNCHANGED <<turn, waiting, streaming, outcome, shown, tokenDue, gatewayVars>>
    BY <1>15 DEF Refuse
  <2>2. conn'.polling = FALSE /\ source'.open = FALSE
    BY <2>1, ClosedShape
  <2> QED BY <1>5, <2>1, <2>2
<1>14. CASE UNCHANGED chatVars
  BY <1>10, <1>14 DEF chatVars, streamVars
<1> QED
  BY <1>1, <1>2, <1>3, <1>4, <1>6, <1>8, <1>9, <1>10, <1>11, <1>12, <1>13, <1>14, <1>15
     DEF ChatNext, StrayPoll, StrayTimeUp, StrayAborts, Expire

LEMMA PromptStep ==
  ASSUME StreamTypeOK, TurnsInv, PromptInv, [ChatNext]_chatVars
  PROVE  PromptInv'
<1>0. /\ turn \in Nat /\ Turns = 1 .. MaxTurns /\ MaxTurns \in Nat
      /\ server \in [Turns -> Workers \cup {None}]
      /\ cache \in [Workers -> 0 .. MaxTurns]
      /\ revived \in BOOLEAN /\ streaming \in BOOLEAN
      /\ pending \subseteq 1 .. turn
      /\ \A t \in 1 .. turn : server[t] \in Workers
  BY BoundsAssumption DEF StreamTypeOK, TurnsInv, Turns
<1>1. ASSUME revived PROVE PromptInv'
  <2>1. revived'
    BY <1>1 DEF ChatNext, Send, Answer, AnswerFails, PostLost, TokenArrives, Poll,
       TimeUp, StrayPoll, StrayTimeUp, StrayAborts, Expire, Reconnect, Refuse,
       ReceiveText, ReceiveDone, browserVars, chatVars
  <2> QED BY <2>1 DEF PromptInv
<1> SUFFICES ASSUME ~revived PROVE PromptInv'
  BY <1>1
<1>2. /\ waiting # {} => streaming /\ waiting = {turn}
      /\ source.open => streaming /\ waiting = {}
      /\ streaming /\ waiting = {} => pending = {} /\ cache[server[turn]] = turn
  BY DEF PromptInv
<1>3. ASSUME NEW w \in Workers, Send(w) PROVE PromptInv'
  <2>1. /\ ~streaming /\ turn' = turn + 1 /\ waiting' = waiting \cup {turn + 1}
        /\ streaming' = TRUE /\ source' = source
    BY <1>3 DEF Send
  <2>2. waiting' = {turn'} /\ ~source'.open
    BY <1>2, <2>1
  <2> QED BY <2>1, <2>2 DEF PromptInv
<1>4. ASSUME NEW t \in Turns, NEW i \in Instances, Answer(t, i) PROVE PromptInv'
  <2>1. /\ t \in pending /\ \A u \in pending : t <= u
        /\ pending' = pending \ {t} /\ waiting' = waiting \ {t}
        /\ cache' = [cache EXCEPT ![server[t]] = t]
        /\ UNCHANGED <<turn, streaming, server>>
    BY <1>4 DEF Answer, Cached
  <2>2. ~ (streaming /\ waiting = {}) /\ ~source.open
    BY <1>2, <2>1
  <2>3. CASE t \in waiting
    <3>1. t = turn /\ streaming /\ waiting = {turn}
      BY <1>2, <2>3
    <3>2. waiting' = {}
      BY <2>1, <3>1
    <3>3. pending' = {}
      <4>1. \A u \in pending : u \in 1 .. turn /\ turn <= u
        BY <1>0, <2>1, <3>1
      <4>2. \A u \in pending : u = t
        BY <1>0, <3>1, <4>1
      <4> QED BY <2>1, <4>2
    <3>4. cache'[server'[turn']] = turn'
      <4>1. server[t] \in Workers
        BY <1>0, <2>1
      <4> QED BY <1>0, <2>1, <3>1, <4>1
    <3> QED BY <2>1, <3>1, <3>2, <3>3, <3>4 DEF PromptInv
  <2>4. CASE t \notin waiting
    <3>1. waiting' = waiting /\ source' = source
      BY <1>4, <2>1, <2>4 DEF Answer
    <3> QED BY <1>2, <2>1, <2>2, <3>1 DEF PromptInv
  <2> QED BY <2>3, <2>4
<1>5. ASSUME NEW t \in Turns, AnswerFails(t) PROVE PromptInv'
  <2>1. /\ t \in pending /\ waiting' = waiting \ {t} /\ pending' = pending \ {t}
        /\ IF t \in waiting THEN End("error") ELSE UNCHANGED <<streaming, outcome>>
        /\ UNCHANGED <<turn, source, server, cache>>
    BY <1>5 DEF AnswerFails
  <2>2. ~ (streaming /\ waiting = {}) /\ ~source.open
    BY <1>2, <2>1
  <2>3. CASE t \in waiting
    <3>1. waiting' = {}
      BY <1>2, <2>1, <2>3
    <3>2. streaming' = FALSE
      BY <2>1, <2>3 DEF End
    <3> QED BY <2>1, <2>2, <3>1, <3>2 DEF PromptInv
  <2>4. CASE t \notin waiting
    <3>1. waiting' = waiting /\ streaming' = streaming
      BY <2>1, <2>4
    <3> QED BY <1>2, <2>1, <2>2, <3>1 DEF PromptInv
  <2> QED BY <2>3, <2>4
<1>6. ASSUME NEW t \in Turns, PostLost(t) PROVE PromptInv'
  <2>1. /\ t \in waiting /\ waiting' = waiting \ {t} /\ streaming' = FALSE
        /\ source' = source
    BY <1>6 DEF PostLost, End
  <2>2. ~source.open /\ waiting' = {}
    BY <1>2, <2>1
  <2> QED BY <2>1, <2>2 DEF PromptInv
<1>7. ASSUME source'.open => source.open,
             UNCHANGED <<turn, waiting, streaming, gatewayVars>>
      PROVE  PromptInv'
  BY <1>2, <1>7 DEF PromptInv, gatewayVars
<1>8. ASSUME NEW i \in Instances, TokenArrives(i) PROVE PromptInv'
  <2>1. /\ revived' = (revived \/ ~streaming \/ waiting # {})
        /\ UNCHANGED <<turn, waiting, streaming, gatewayVars>>
    BY <1>8 DEF TokenArrives
  <2> QED BY <1>2, <2>1 DEF PromptInv, gatewayVars
<1>9. ASSUME UNCHANGED <<browserVars, gatewayVars>> PROVE PromptInv'
  BY <1>7, <1>9 DEF browserVars
<1>10. CASE ReceiveText
  <2>1. source'.open = source.open
    BY <1>10 DEF ReceiveText, StreamTypeOK
  <2> QED BY <1>7, <1>10, <2>1 DEF ReceiveText
<1>11. CASE ReceiveDone
  <2>1. source' = Closed /\ streaming' = FALSE /\ waiting' = waiting /\ source.open
    BY <1>11 DEF ReceiveDone, End
  <2>2. source'.open = FALSE
    BY <2>1, ClosedShape
  <2>3. waiting = {}
    BY <1>2, <2>1
  <2> QED BY <2>1, <2>2, <2>3 DEF PromptInv
<1>12. CASE Refuse
  <2>1. source' = [Closed EXCEPT !.refused = TRUE]
        /\ UNCHANGED <<turn, waiting, streaming, gatewayVars>>
    BY <1>12 DEF Refuse
  <2>2. source'.open = FALSE
    BY <2>1, ClosedShape
  <2> QED BY <1>7, <2>1, <2>2
<1>13. CASE UNCHANGED chatVars
  BY <1>9, <1>13 DEF chatVars
<1> QED
  BY <1>3, <1>4, <1>5, <1>6, <1>8, <1>9, <1>10, <1>11, <1>12, <1>13
     DEF ChatNext, Poll, TimeUp, StrayPoll, StrayTimeUp, StrayAborts, Expire, Reconnect

-----------------------------------------------------------------------------
(* Numbers.  0 is the number of no event, so it says that a source has seen *)
(* none; and no event answers a message that is still to be sent.           *)
Plausible(s, n) == \A k \in 1 .. Len(s) : s[k].seq > 0 /\ s[k].of <= n

NumbersInv ==
    /\ source.lastId = 0 <=> source.lastSeq = 0
    /\ Plausible(conn.wire, turn)
    /\ \A i \in Instances : Plausible(buffer[i], turn)

LEMMA PlausibleSequences ==
  ASSUME NEW n \in Nat, NEW s \in Seq(Event), Plausible(s, n)
  PROVE  /\ \A e \in Seq(Event) :
              Plausible(e, n) => Plausible(s \o e, n) /\ Plausible(Buffered(s, e), n)
         /\ \A h \in 0 .. Len(s) : Plausible(SubSeq(s, h + 1, Len(s)), n)
         /\ \A last \in Nat : Plausible(Missed(s, last), n)
         /\ s # << >> => Plausible(Tail(s), n) /\ Head(s).seq > 0 /\ Head(s).of <= n
<1>1. ASSUME NEW e \in Seq(Event), Plausible(e, n)
      PROVE  Plausible(s \o e, n) /\ Plausible(Buffered(s, e), n)
  <2>1. Plausible(s \o e, n)
    <3>1. /\ Len(s \o e) = Len(s) + Len(e)
          /\ \A k \in 1 .. Len(s) + Len(e) :
               (s \o e)[k] = IF k <= Len(s) THEN s[k] ELSE e[k - Len(s)]
      BY ConcatProperties
    <3>2. Len(s) \in Nat /\ Len(e) \in Nat
      OBVIOUS
    <3>3. ASSUME NEW k \in 1 .. Len(s) + Len(e) PROVE (s \o e)[k].seq > 0 /\ (s \o e)[k].of <= n
      <4>1. CASE k <= Len(s)
        BY <3>1, <3>2, <4>1 DEF Plausible
      <4>2. CASE k > Len(s)
        <5>1. k - Len(s) \in 1 .. Len(e)
          BY <3>2, <4>2
        <5> QED BY <1>1, <3>1, <3>2, <4>2, <5>1 DEF Plausible
      <4> QED BY <3>2, <4>1, <4>2
    <3> QED BY <3>1, <3>3 DEF Plausible
  <2>2. Plausible(Buffered(s, e), n)
    <3> DEFINE b == Buffered(s, e)
    <3>1. \A k \in 1 .. Len(b) : \/ \E j \in 1 .. Len(s) : b[k] = s[j]
                                 \/ \E j \in 1 .. Len(e) : b[k] = e[j]
      BY BufferedShape
    <3> HIDE DEF b
    <3>2. Plausible(b, n)
      BY <1>1, <3>1 DEF Plausible
    <3> QED BY <3>2 DEF b
  <2> QED BY <2>1, <2>2
<1>2. ASSUME NEW h \in 0 .. Len(s) PROVE Plausible(SubSeq(s, h + 1, Len(s)), n)
  <2> DEFINE r == SubSeq(s, h + 1, Len(s))
  <2>1. Len(s) \in Nat
    OBVIOUS
  <2>2. \A k \in (h + 1) .. Len(s) : s[k] \in Event
    OBVIOUS
  <2>3. /\ Len(r) = IF h + 1 <= Len(s) THEN Len(s) - (h + 1) + 1 ELSE 0
        /\ \A k \in 1 .. Len(s) - (h + 1) + 1 : r[k] = s[(h + 1) + k - 1]
    BY <2>1, <2>2, SubSeqProperties
  <2> HIDE DEF r
  <2>4. \A k \in 1 .. Len(r) : h + k \in 1 .. Len(s) /\ r[k] = s[h + k]
    BY <2>1, <2>3
  <2>5. Plausible(r, n)
    BY <2>4 DEF Plausible
  <2> QED BY <2>5 DEF r
<1>3. ASSUME NEW last \in Nat PROVE Plausible(Missed(s, last), n)
  <2> DEFINE m == Missed(s, last)
  <2>1. m = << >> \/ \E at : Selects(s, last, Len(s), m, at)
    BY MissedShape
  <2> HIDE DEF m
  <2>2. CASE m = << >>
    BY <2>2 DEF Plausible, m
  <2>3. CASE \E at : Selects(s, last, Len(s), m, at)
    <3>1. \A k \in 1 .. Len(m) : \E j \in 1 .. Len(s) : m[k] = s[j]
      BY <2>3 DEF Selects
    <3>2. Plausible(m, n)
      BY <3>1 DEF Plausible
    <3> QED BY <3>2 DEF m
  <2> QED BY <2>1, <2>2, <2>3
<1>4. ASSUME s # << >> PROVE Plausible(Tail(s), n) /\ Head(s).seq > 0 /\ Head(s).of <= n
  <2>1. /\ Len(Tail(s)) = Len(s) - 1
        /\ \A k \in 1 .. Len(Tail(s)) : Tail(s)[k] = s[k + 1]
    BY <1>4, HeadTailProperties
  <2>2. Len(s) \in Nat /\ Len(s) # 0 /\ Head(s) = s[1]
    BY <1>4
  <2> QED BY <2>1, <2>2 DEF Plausible
<1> QED BY <1>1, <1>2, <1>3, <1>4

(* How a GET of the stream route leaves the connections.                    *)
LEMMA OpenShape ==
  ASSUME StreamTypeOK, NEW i, NEW b, NEW last, Open(i, b, last)
  PROVE  LET m == Missed(b, last) IN
         /\ conn'.at = i /\ conn'.polling = TRUE /\ conn'.wire = m
         /\ m = << >> => conn'.seq = 0
         /\ m # << >> => conn'.seq = m[Len(m)].seq
         /\ stray \subseteq stray'
         /\ \A s \in stray' : s \in stray \/ (conn.polling /\ s.at = conn.at /\ s.seq = conn.seq)
<1> DEFINE m == Missed(b, last)
<1>1. /\ conn' = [at |-> i, polling |-> TRUE, wire |-> m,
                  seq |-> IF m = << >> THEN 0 ELSE m[Len(m)].seq]
      /\ Leave
  BY DEF Open
<1>2. Missed(b, last) = m
  OBVIOUS
<1> HIDE DEF m
<1>3. /\ conn'.at = i /\ conn'.polling = TRUE /\ conn'.wire = m
      /\ m = << >> => conn'.seq = 0
      /\ m # << >> => conn'.seq = m[Len(m)].seq
  BY <1>1
<1>4. /\ stray \subseteq stray'
      /\ \A s \in stray' : s \in stray \/ (conn.polling /\ s.at = conn.at /\ s.seq = conn.seq)
  BY <1>1, LeaveShape
<1> QED BY <1>2, <1>3, <1>4

(* Nothing is on the wire of a new source's connection.                     *)
LEMMA OpenFresh ==
  ASSUME StreamTypeOK, NEW i \in Instances, NEW b \in Seq(Event), Open(i, b, 0)
  PROVE  conn'.wire = << >> /\ conn'.seq = 0
<1> DEFINE m == Missed(b, 0)
<1>1. m = << >>
  BY MissedShape
<1>2. conn'.wire = m /\ (m = << >> => conn'.seq = 0)
  BY OpenShape
<1> QED BY <1>1, <1>2

LEMMA NumbersStep ==
  ASSUME StreamTypeOK, TurnsInv, NumbersInv, [ChatNext]_chatVars
  PROVE  NumbersInv'
<1>0. /\ conn.wire \in Seq(Event) /\ \A i \in Instances : buffer[i] \in Seq(Event)
      /\ buffer \in [Instances -> Seq(Event)]
      /\ source \in [open : BOOLEAN, refused : BOOLEAN, lastSeq : Nat, lastId : Nat,
                     texts : Nat]
      /\ conn \in [at : Instances, seq : Nat, polling : BOOLEAN, wire : Seq(Event)]
      /\ turn \in Nat
  BY DEF StreamTypeOK
<1>1. \A s : s = << >> => Plausible(s, turn)
  BY DEF Plausible
<1>2. ASSUME NEW seq \in Nat, NEW t \in 0 .. MaxTurns, NEW w, NEW late, NEW e,
             t <= turn, OfOnePush(e, seq, t, w, late)
      PROVE  e \in Seq(Event) /\ Plausible(e, turn)
  <2>1. /\ e \in Seq(Event)
        /\ \A k \in 1 .. Len(e) : e[k].seq = seq + k /\ (e[k].of # 0 => e[k].of = t)
    BY <1>2 DEF OfOnePush
  <2>2. ASSUME NEW k \in 1 .. Len(e) PROVE e[k].seq > 0 /\ e[k].of <= turn
    <3>1. e[k].seq = seq + k /\ (e[k].of = 0 \/ e[k].of = t) /\ k \in Nat /\ k > 0
      BY <2>1
    <3>2. e[k].of <= turn
      BY <1>0, <1>2, <3>1
    <3> QED BY <3>1, <3>2
  <2> QED BY <2>1, <2>2 DEF Plausible
<1>3. ASSUME NEW i \in Instances, NEW e \in Seq(Event), Plausible(e, turn), Store(i, e)
      PROVE  \A j \in Instances : Plausible(buffer'[j], turn)
  <2>1. Plausible(Buffered(buffer[i], e), turn)
    BY <1>0, <1>3, PlausibleSequences DEF NumbersInv
  <2> QED BY <1>0, <1>3, <2>1 DEF Store, NumbersInv
<1>4. ASSUME UNCHANGED <<source, conn, buffer, turn>> PROVE NumbersInv'
  BY <1>4 DEF NumbersInv
<1>5. ASSUME NEW t \in Turns, NEW i \in Instances, Answer(t, i) PROVE NumbersInv'
  <2>1. CASE t \in waiting
    <3>1. Open(i, buffer[i], 0) /\ source' = FreshSource /\ UNCHANGED <<turn, buffer>>
      BY <1>5, <2>1 DEF Answer
    <3>2. conn'.wire = << >>
      BY <1>0, <3>1, OpenFresh
    <3> QED BY <1>1, <3>1, <3>2 DEF NumbersInv, FreshSource
  <2>2. CASE t \notin waiting
    BY <1>4, <1>5, <2>2 DEF Answer
  <2> QED BY <2>1, <2>2
<1>6. ASSUME NEW i \in Instances, TokenArrives(i) PROVE NumbersInv'
  <2>1. Open(i, buffer[i], 0) /\ source' = FreshSource /\ UNCHANGED <<turn, buffer>>
    BY <1>6 DEF TokenArrives
  <2>2. conn'.wire = << >>
    BY <1>0, <2>1, OpenFresh
  <2> QED BY <1>1, <2>1, <2>2 DEF NumbersInv, FreshSource
<1>7. ASSUME NEW t \in 0 .. MaxTurns, NEW w \in Workers \cup {None},
             NEW late \in BOOLEAN, Push(t, w, late),
             t <= turn, UNCHANGED <<source, turn>>
      PROVE  NumbersInv'
  <2>1. PICK e : /\ OfOnePush(e, conn.seq, t, w, late)
                 /\ conn'.wire = conn.wire \o e /\ Store(conn.at, e)
    BY <1>7, PushShape
  <2>2. e \in Seq(Event) /\ Plausible(e, turn)
    BY <1>0, <1>2, <1>7, <2>1
  <2>3. Plausible(conn'.wire, turn)
    BY <1>0, <2>1, <2>2, PlausibleSequences DEF NumbersInv
  <2>4. \A j \in Instances : Plausible(buffer'[j], turn)
    BY <1>0, <1>3, <2>1, <2>2
  <2> QED BY <1>7, <2>3, <2>4 DEF NumbersInv
<1>8. ASSUME NEW w \in Workers, Poll(w) PROVE NumbersInv'
  <2>1. PICK late \in BOOLEAN : Push(cache[w], w, late)
    BY <1>8 DEF Poll
  <2>2. cache[w] \in 0 .. MaxTurns /\ cache[w] <= turn
    BY DEF StreamTypeOK, TurnsInv
  <2>3. UNCHANGED <<source, turn>>
    BY <1>8 DEF Poll, browserVars
  <2> QED BY <1>7, <2>1, <2>2, <2>3
<1>9. CASE TimeUp
  <2>1. Push(0, None, FALSE) /\ UNCHANGED <<source, turn>>
    BY <1>9 DEF TimeUp, browserVars
  <2>2. 0 \in 0 .. MaxTurns /\ 0 <= turn
    BY <1>0, BoundsAssumption
  <2> QED BY <1>7, <2>1, <2>2
<1>17. ASSUME NEW s \in stray, NEW t \in 0 .. MaxTurns, NEW w \in Workers \cup {None},
              NEW late \in BOOLEAN, Store(s.at, Pushed(s.seq, t, w, late)),
              t <= turn, UNCHANGED <<source, turn, conn>>
       PROVE  NumbersInv'
  <2>1. PICK e : OfOnePush(e, s.seq, t, w, late) /\ Store(s.at, e)
    BY <1>17, StrayPushShape
  <2>2. s.seq \in Nat /\ s.at \in Instances
    BY DEF StreamTypeOK
  <2>3. e \in Seq(Event) /\ Plausible(e, turn)
    BY <1>2, <1>17, <2>1, <2>2
  <2>4. \A j \in Instances : Plausible(buffer'[j], turn)
    BY <1>3, <2>1, <2>2, <2>3
  <2> QED BY <1>17, <2>4 DEF NumbersInv
<1>10. ASSUME NEW w \in Workers, StrayPoll(w) PROVE NumbersInv'
  <2>1. PICK s \in stray, late \in BOOLEAN : Store(s.at, Pushed(s.seq, cache[w], w, late))
    BY <1>10 DEF StrayPoll
  <2>2. cache[w] \in 0 .. MaxTurns /\ cache[w] <= turn
    BY DEF StreamTypeOK, TurnsInv
  <2>3. UNCHANGED <<source, turn, conn>>
    BY <1>10 DEF StrayPoll, browserVars
  <2> QED BY <1>17, <2>1, <2>2, <2>3
<1>18. CASE StrayTimeUp
  <2>1. PICK s \in stray : Store(s.at, Pushed(s.seq, 0, None, FALSE))
    BY <1>18 DEF StrayTimeUp
  <2>2. 0 \in 0 .. MaxTurns /\ 0 <= turn
    BY <1>0, BoundsAssumption
  <2>3. UNCHANGED <<source, turn, conn>>
    BY <1>18 DEF StrayTimeUp, browserVars
  <2> QED BY <1>17, <2>1, <2>2, <2>3
<1>11. ASSUME NEW i \in Instances, Expire(i) PROVE NumbersInv'
  <2>1. buffer' = [buffer EXCEPT ![i] = << >>]
    BY <1>11 DEF Expire
  <2>2. \A j \in Instances : Plausible(buffer'[j], turn)
    BY <1>0, <1>1, <2>1 DEF NumbersInv
  <2> QED BY <1>11, <2>2 DEF Expire, NumbersInv, browserVars
<1>12. ASSUME NEW i \in Instances, Reconnect(i) PROVE NumbersInv'
  <2>1. PICK n \in 0 .. Len(buffer[i]) :
          /\ buffer' = [buffer EXCEPT ![i] = SubSeq(buffer[i], n + 1, Len(buffer[i]))]
          /\ Open(i, SubSeq(buffer[i], n + 1, Len(buffer[i])), source.lastId)
    BY <1>12 DEF Reconnect
  <2> DEFINE young == SubSeq(buffer[i], n + 1, Len(buffer[i]))
  <2>2. young \in Seq(Event) /\ Plausible(young, turn)
    BY <1>0, PlausibleSequences DEF NumbersInv
  <2> HIDE DEF young
  <2>3. buffer' = [buffer EXCEPT ![i] = young] /\ Open(i, young, source.lastId)
    BY <2>1 DEF young
  <2>4. \A j \in Instances : Plausible(buffer'[j], turn)
    BY <1>0, <2>2, <2>3 DEF NumbersInv
  <2>5. conn'.wire = Missed(young, source.lastId)
    BY <2>3, OpenShape
  <2>6. Plausible(conn'.wire, turn)
    <3>1. source.lastId \in Nat
      BY <1>0
    <3>2. Plausible(Missed(young, source.lastId), turn)
      BY <1>0, <2>2, <3>1, PlausibleSequences
    <3> QED BY <2>5, <3>2
  <2> QED BY <1>12, <2>4, <2>6 DEF Reconnect, NumbersInv, browserVars
<1>13. CASE ReceiveText
  <2> DEFINE e == Head(conn.wire)
  <2>1. conn.wire # << >> /\ UNCHANGED <<turn, buffer>>
    BY <1>13 DEF ReceiveText
  <2>2. Plausible(Tail(conn.wire), turn) /\ e.seq > 0
    BY <1>0, <2>1, PlausibleSequences DEF NumbersInv
  <2>3. e.seq \in Nat
    <3>1. e \in Event
      BY <1>0, <2>1, HeadTailProperties
    <3> QED BY <3>1 DEF Event
  <2>4. conn'.wire = Tail(conn.wire)
    BY <1>0, <1>13 DEF ReceiveText
  <2>5. \/ e.seq > source.lastSeq /\ source'.lastSeq = e.seq /\ source'.lastId = e.seq
        \/ ~(e.seq > source.lastSeq) /\ source'.lastSeq = source.lastSeq /\ source'.lastId = e.seq
    BY <1>0, <1>13 DEF ReceiveText, Unseen
  <2> HIDE DEF e
  <2>6. source'.lastId = 0 <=> source'.lastSeq = 0
    BY <1>0, <2>2, <2>3, <2>5
  <2> QED BY <2>1, <2>2, <2>4, <2>6 DEF NumbersInv
<1>14. ASSUME NEW c \in {Closed, [Closed EXCEPT !.refused = TRUE]},
              source' = c, conn' = NoConn, UNCHANGED <<turn, buffer>>
       PROVE  NumbersInv'
  <2>1. conn'.wire = << >> /\ source'.lastId = 0 /\ source'.lastSeq = 0
    BY <1>14, ClosedShape
  <2> QED BY <1>1, <1>14, <2>1 DEF NumbersInv
<1>19. CASE ReceiveDone
  BY <1>14, <1>19 DEF ReceiveDone
<1>20. CASE Refuse
  BY <1>14, <1>20 DEF Refuse
<1>15. CASE UNCHANGED chatVars
  BY <1>4, <1>15 DEF chatVars, browserVars, streamVars
<1>16. ASSUME NEW w \in Workers, Send(w) PROVE NumbersInv'
  <2>1. turn' = turn + 1 /\ UNCHANGED <<source, conn, buffer>>
    BY <1>16 DEF Send, streamVars
  <2>2. \A k \in 1 .. Len(conn.wire) : conn.wire[k].of \in Nat
    <3>1. \A k \in 1 .. Len(conn.wire) : conn.wire[k] \in Event
      BY <1>0
    <3> QED BY <3>1 DEF Event
  <2>3. \A i \in Instances : \A k \in 1 .. Len(buffer[i]) : buffer[i][k].of \in Nat
    <3>1. \A i \in Instances : \A k \in 1 .. Len(buffer[i]) : buffer[i][k] \in Event
      BY <1>0
    <3> QED BY <3>1 DEF Event
  <2>4. Plausible(conn.wire, turn + 1)
    BY <1>0, <2>2 DEF NumbersInv, Plausible
  <2>5. \A i \in Instances : Plausible(buffer[i], turn + 1)
    BY <1>0, <2>3 DEF NumbersInv, Plausible
  <2> QED BY <2>1, <2>4, <2>5 DEF NumbersInv
<1> QED
  BY <1>4, <1>5, <1>6, <1>8, <1>9, <1>10, <1>11, <1>12, <1>13, <1>15, <1>16, <1>18,
     <1>19, <1>20
     DEF ChatNext, AnswerFails, PostLost, StrayAborts, browserVars, streamVars

-----------------------------------------------------------------------------
(* What a turn shows.  Own events tell of the current turn, unless they     *)
(* came from another worker than the one that served its message.           *)
Own(e) ==
    /\ e.during = turn
    /\ e.of # 0 => (e.of = turn \/ e.by # server[turn])

(* A source that has seen no number shows what its own connection polls,    *)
(* until it is revived.                                                     *)
FirstInv ==
    ~revived /\ source.open /\ source.lastSeq = 0 =>
        /\ conn.polling => (conn.seq = 0 /\ conn.wire = << >>)
        /\ \A k \in 1 .. Len(conn.wire) : Own(conn.wire[k])
        /\ conn.wire # << >> /\ conn.wire[1].kind = "done" => mute # {}

(* Once it has seen one, a text of this turn has been shown.                *)
SeenInv ==
    ~revived /\ source.open /\ source.lastSeq # 0 =>
        \/ mute # {}
        \/ \E k \in DOMAIN shown[turn] : shown[turn][k].during = turn

(* A text is shown, and is the last number seen, or neither.                *)
LEMMA TextShape ==
  ASSUME StreamTypeOK, TurnsInv, NumbersInv, ReceiveText
  PROVE  LET e == Head(conn.wire) IN
         /\ turn \in Turns /\ source.open /\ conn.wire # << >>
         /\ e \in Event /\ e = conn.wire[1] /\ e.kind = "token" /\ e.seq > 0
         /\ conn'.wire = Tail(conn.wire) /\ conn'.at = conn.at
         /\ conn'.polling = conn.polling /\ conn'.seq = conn.seq
         /\ source'.open /\ source'.lastId = e.seq
         /\ \/ /\ e.seq > source.lastSeq /\ source'.lastSeq = e.seq
               /\ source'.texts = source.texts + 1
               /\ shown' = [shown EXCEPT ![turn] = Append(@, e)]
            \/ /\ ~ (e.seq > source.lastSeq) /\ source'.lastSeq = source.lastSeq
               /\ source'.texts = source.texts /\ shown' = shown
         /\ UNCHANGED <<turn, waiting, streaming, outcome, tokenDue, revived,
                        gatewayVars, buffer, stray, mishaps, torn, overrun>>
<1> DEFINE e == Head(conn.wire)
<1>0. /\ source \in [open : BOOLEAN, refused : BOOLEAN, lastSeq : Nat, lastId : Nat,
                     texts : Nat]
      /\ conn \in [at : Instances, seq : Nat, polling : BOOLEAN, wire : Seq(Event)]
      /\ turn \in 0 .. MaxTurns
  BY DEF StreamTypeOK
<1>1. turn \in Turns /\ source.open /\ conn.wire # << >>
  BY <1>0 DEF ReceiveText, TurnsInv, Turns
<1>2. e \in Event /\ e = conn.wire[1] /\ e.seq > 0
  <2>1. conn.wire \in Seq(Event) /\ Plausible(conn.wire, turn) /\ turn \in Nat
    BY <1>0 DEF NumbersInv
  <2>2. e.seq > 0
    BY <1>1, <2>1, PlausibleSequences
  <2> QED BY <1>1, <2>1, <2>2, HeadTailProperties
<1>3. /\ e.kind = "token" /\ conn' = [conn EXCEPT !.wire = Tail(@)]
      /\ \/ /\ e.seq > source.lastSeq
            /\ source' = [source EXCEPT !.lastSeq = e.seq, !.lastId = e.seq, !.texts = @ + 1]
            /\ shown' = [shown EXCEPT ![turn] = Append(@, e)]
         \/ /\ ~ (e.seq > source.lastSeq)
            /\ source' = [source EXCEPT !.lastId = e.seq] /\ shown' = shown
      /\ UNCHANGED <<turn, waiting, streaming, outcome, tokenDue, revived,
                     gatewayVars, buffer, stray, mishaps, torn, overrun>>
  BY DEF ReceiveText, Unseen
<1>4. Head(conn.wire) = e
  OBVIOUS
<1> HIDE DEF e
<1>5. /\ conn'.wire = Tail(conn.wire) /\ conn'.at = conn.at
      /\ conn'.polling = conn.polling /\ conn'.seq = conn.seq
  BY <1>0, <1>3
<1>6. /\ source'.open /\ source'.lastId = e.seq
      /\ \/ /\ e.seq > source.lastSeq /\ source'.lastSeq = e.seq
            /\ source'.texts = source.texts + 1
            /\ shown' = [shown EXCEPT ![turn] = Append(@, e)]
         \/ /\ ~ (e.seq > source.lastSeq) /\ source'.lastSeq = source.lastSeq
            /\ source'.texts = source.texts /\ shown' = shown
  BY <1>0, <1>1, <1>3
<1> QED BY <1>1, <1>2, <1>3, <1>4, <1>5, <1>6

(* What is shown stays shown, and only the head of the wire is added.       *)
LEMMA ShownKept ==
  ASSUME StreamTypeOK, TurnsInv, NumbersInv, ReceiveText, NEW t \in Turns
  PROVE  /\ \A k \in DOMAIN shown[t] :
              k \in DOMAIN shown'[t] /\ shown'[t][k] = shown[t][k]
         /\ \A k \in DOMAIN shown'[t] :
              \/ k \in DOMAIN shown[t]
              \/ /\ t = turn /\ Head(conn.wire).seq > source.lastSeq
                 /\ shown'[t][k] = Head(conn.wire)
         /\ Head(conn.wire).seq > source.lastSeq =>
              \E k \in DOMAIN shown'[turn] : shown'[turn][k] = Head(conn.wire)
<1> DEFINE e == Head(conn.wire)
<1>1. /\ turn \in Turns /\ e \in Event
      /\ \/ e.seq > source.lastSeq /\ shown' = [shown EXCEPT ![turn] = Append(@, e)]
         \/ ~ (e.seq > source.lastSeq) /\ shown' = shown
  BY TextShape
<1>2. shown \in [Turns -> Seq(Event)]
  BY DEF StreamTypeOK
<1>3. Head(conn.wire) = e
  OBVIOUS
<1> HIDE DEF e
<1>4. CASE ~ (e.seq > source.lastSeq) /\ shown' = shown
  BY <1>3, <1>4
<1>5. CASE e.seq > source.lastSeq /\ shown' = [shown EXCEPT ![turn] = Append(@, e)]
  <2> DEFINE old == shown[turn]
             new == Append(old, e)
  <2>1. shown'[turn] = new /\ (t # turn => shown'[t] = shown[t])
    BY <1>1, <1>2, <1>5
  <2>2. old \in Seq(Event)
    BY <1>1, <1>2
  <2>3. shown[turn] = old
    OBVIOUS
  <2> HIDE DEF old
  <2>4. /\ Len(old) \in Nat /\ Len(new) = Len(old) + 1
        /\ DOMAIN old = 1 .. Len(old) /\ DOMAIN new = 1 .. Len(old) + 1
        /\ \A k \in 1 .. Len(old) : new[k] = old[k]
        /\ new[Len(old) + 1] = e
    BY <1>1, <2>2
  <2> HIDE DEF new
  <2>5. /\ \A k \in DOMAIN old : k \in DOMAIN new /\ new[k] = old[k]
        /\ \A k \in DOMAIN new : k \in DOMAIN old \/ new[k] = e
        /\ \E k \in DOMAIN new : new[k] = e
    BY <2>4
  <2> QED BY <1>3, <1>5, <2>1, <2>3, <2>5
<1> QED BY <1>1, <1>4, <1>5

(* A source that opens knows nothing yet.                                   *)
LEMMA FreshOpens ==
  ASSUME StreamTypeOK, NEW i \in Instances, Open(i, buffer[i], 0), source' = FreshSource
  PROVE  FirstInv' /\ SeenInv'
<1>1. conn'.wire = << >> /\ conn'.seq = 0
  BY OpenFresh DEF StreamTypeOK
<1>2. Len(conn'.wire) = 0
  BY <1>1
<1> QED BY <1>1, <1>2 DEF FirstInv, SeenInv, FreshSource

(* What a poll pushes.                                                      *)
LEMMA PushOwn ==
  ASSUME StreamTypeOK, TurnsInv, PromptInv, FirstInv, SeenInv,
         NEW t \in 0 .. MaxTurns, NEW w \in Workers \cup {None}, NEW late \in BOOLEAN,
         conn.polling, Push(t, w, late), t # 0 => (w \in Workers /\ t = cache[w]),
         UNCHANGED <<browserVars, gatewayVars>>
  PROVE  FirstInv' /\ SeenInv'
<1>0. UNCHANGED <<source, turn, server, mute, shown, revived>>
  BY DEF browserVars, gatewayVars
<1>1. SeenInv'
  BY <1>0 DEF SeenInv
<1>2. ASSUME ~revived, source.open, source.lastSeq = 0
      PROVE  /\ conn'.polling = FALSE
             /\ \A k \in 1 .. Len(conn'.wire) : Own(conn'.wire[k])
             /\ conn'.wire # << >> /\ conn'.wire[1].kind = "done" => mute # {}
  <2>1. PICK e : /\ OfOnePush(e, conn.seq, t, w, late)
                 /\ conn'.polling = FALSE /\ conn'.wire = conn.wire \o e
    BY PushShape
  <2>2. /\ e \in Seq(Event)
        /\ e[1].kind = "done" => t \in mute
        /\ \A k \in 1 .. Len(e) : /\ e[k].of # 0 => e[k].of = t /\ e[k].by = w
                                  /\ e[k].during = turn
    BY <2>1 DEF OfOnePush
  <2>4. conn'.wire = e
    <3>1. conn.wire = << >>
      BY <1>2 DEF FirstInv
    <3> QED BY <2>1, <2>2, <3>1
  <2>5. t # 0 => (t = turn \/ w # server[turn])
    BY <1>2 DEF PromptInv
  <2>6. \A k \in 1 .. Len(e) : Own(e[k])
    BY <2>2, <2>5 DEF Own
  <2> QED BY <2>1, <2>2, <2>4, <2>6
<1>3. FirstInv'
  BY <1>0, <1>2 DEF FirstInv, Own
<1> QED BY <1>1, <1>3

LEMMA FirstStep ==
  ASSUME StreamTypeOK, TurnsInv, PromptInv, NumbersInv, FirstInv, SeenInv,
         [ChatNext]_chatVars
  PROVE  FirstInv' /\ SeenInv'
<1>0. /\ source \in [open : BOOLEAN, refused : BOOLEAN, lastSeq : Nat, lastId : Nat,
                     texts : Nat]
      /\ conn \in [at : Instances, seq : Nat, polling : BOOLEAN, wire : Seq(Event)]
      /\ cache \in [Workers -> 0 .. MaxTurns]
      /\ buffer \in [Instances -> Seq(Event)]
  BY DEF StreamTypeOK
<1>20. ASSUME revived PROVE FirstInv' /\ SeenInv'
  <2>1. revived'
    BY <1>20 DEF ChatNext, Send, Answer, AnswerFails, PostLost, TokenArrives, Poll,
       TimeUp, StrayPoll, StrayTimeUp, StrayAborts, Expire, Reconnect, Refuse,
       ReceiveText, ReceiveDone, browserVars, chatVars
  <2> QED BY <2>1 DEF FirstInv, SeenInv
<1> SUFFICES ASSUME ~revived PROVE FirstInv' /\ SeenInv'
  BY <1>20
<1>21. /\ waiting # {} => streaming /\ waiting = {turn}
       /\ source.open => streaming /\ waiting = {}
       /\ streaming /\ waiting = {} => pending = {}
  BY DEF PromptInv
<1>1. ASSUME ~source'.open PROVE FirstInv' /\ SeenInv'
  BY <1>1 DEF FirstInv, SeenInv
<1>2. ASSUME UNCHANGED <<turn, server, mute, shown, source, conn, revived>>
      PROVE  FirstInv' /\ SeenInv'
  BY <1>2 DEF FirstInv, SeenInv, Own
<1>3. ASSUME NEW w \in Workers, Send(w) PROVE FirstInv' /\ SeenInv'
  <2>1. ~streaming /\ source' = source
    BY <1>3 DEF Send
  <2> QED BY <1>1, <1>21, <2>1
<1>4. ASSUME NEW t \in Turns, NEW i \in Instances, Answer(t, i)
      PROVE  FirstInv' /\ SeenInv'
  <2>1. CASE t \in waiting
    BY <1>4, <2>1, FreshOpens DEF Answer
  <2>2. CASE t \notin waiting
    <3>1. t \in pending /\ source' = source
      BY <1>4, <2>2 DEF Answer
    <3> QED BY <1>1, <1>21, <3>1
  <2> QED BY <2>1, <2>2
<1>5. ASSUME NEW t \in Turns, AnswerFails(t) PROVE FirstInv' /\ SeenInv'
  <2>1. t \in pending /\ source' = source
    BY <1>5 DEF AnswerFails
  <2> QED BY <1>1, <1>21, <2>1
<1>6. ASSUME NEW t \in Turns, PostLost(t) PROVE FirstInv' /\ SeenInv'
  <2>1. t \in waiting /\ source' = source
    BY <1>6 DEF PostLost
  <2> QED BY <1>1, <1>21, <2>1
<1>7. ASSUME NEW i \in Instances, TokenArrives(i) PROVE FirstInv' /\ SeenInv'
  BY <1>7, FreshOpens DEF TokenArrives
<1>8. ASSUME NEW w \in Workers, Poll(w) PROVE FirstInv' /\ SeenInv'
  <2>1. PICK late \in BOOLEAN : Push(cache[w], w, late)
    BY <1>8 DEF Poll
  <2>2. conn.polling /\ cache[w] \in 0 .. MaxTurns /\ UNCHANGED <<browserVars, gatewayVars>>
    BY <1>0, <1>8 DEF Poll
  <2> QED BY <2>1, <2>2, PushOwn
<1>9. CASE TimeUp
  <2>1. 0 \in 0 .. MaxTurns
    BY BoundsAssumption
  <2>2. conn.polling /\ Push(0, None, FALSE) /\ UNCHANGED <<browserVars, gatewayVars>>
    BY <1>9 DEF TimeUp
  <2> QED BY <2>1, <2>2, PushOwn
<1>10. ASSUME NEW i \in Instances, Reconnect(i) PROVE FirstInv' /\ SeenInv'
  <2>1. UNCHANGED <<browserVars, gatewayVars>>
    BY <1>10 DEF Reconnect
  <2>2. SeenInv'
    BY <2>1 DEF SeenInv, browserVars, gatewayVars
  <2>3. ASSUME source.lastSeq = 0
        PROVE  conn'.wire = << >> /\ conn'.seq = 0
    <3>1. PICK n \in 0 .. Len(buffer[i]) :
            Open(i, SubSeq(buffer[i], n + 1, Len(buffer[i])), source.lastId)
      BY <1>10 DEF Reconnect
    <3> DEFINE young == SubSeq(buffer[i], n + 1, Len(buffer[i]))
    <3>2. young \in Seq(Event)
      BY <1>0
    <3>3. source.lastId = 0
      BY <2>3 DEF NumbersInv
    <3>4. Open(i, young, source.lastId)
      BY <3>1
    <3> HIDE DEF young
    <3>5. Open(i, young, 0)
      BY <3>3, <3>4
    <3> QED BY <3>2, <3>5, OpenFresh
  <2>4. FirstInv'
    <3>1. ASSUME source'.lastSeq = 0
          PROVE  conn'.wire = << >> /\ conn'.seq = 0 /\ Len(conn'.wire) = 0
      BY <2>1, <2>3, <3>1 DEF browserVars
    <3> QED BY <3>1 DEF FirstInv
  <2> QED BY <2>2, <2>4
<1>11. CASE ReceiveText
  <2> DEFINE e == Head(conn.wire)
  <2>1. /\ turn \in Turns /\ source.open /\ conn.wire # << >>
        /\ e \in Event /\ e = conn.wire[1] /\ e.seq > 0
        /\ \/ e.seq > source.lastSeq /\ source'.lastSeq = e.seq
           \/ ~ (e.seq > source.lastSeq) /\ source'.lastSeq = source.lastSeq
        /\ UNCHANGED <<turn, gatewayVars, revived>>
    BY <1>11, TextShape
  <2>2. /\ \A k \in DOMAIN shown[turn] :
              k \in DOMAIN shown'[turn] /\ shown'[turn][k] = shown[turn][k]
        /\ e.seq > source.lastSeq => \E k \in DOMAIN shown'[turn] : shown'[turn][k] = e
    BY <1>11, <2>1, ShownKept
  <2>3. e.seq \in Nat
    BY <2>1 DEF Event
  <2>4. source'.lastSeq # 0
    BY <1>0, <2>1, <2>3
  <2>5. mute # {} \/ \E k \in DOMAIN shown'[turn] : shown'[turn][k].during = turn
    <3>1. CASE source.lastSeq = 0
      <4>1. 1 \in 1 .. Len(conn.wire)
        BY <1>0, <2>1
      <4> HIDE DEF e
      <4>2. e.during = turn
        BY <2>1, <3>1, <4>1 DEF FirstInv, Own
      <4>3. e.seq > source.lastSeq
        BY <2>1, <3>1
      <4> QED BY <2>2, <4>2, <4>3
    <3>2. CASE source.lastSeq # 0
      BY <2>1, <2>2, <3>2 DEF SeenInv
    <3> QED BY <3>1, <3>2
  <2> QED BY <2>1, <2>4, <2>5 DEF FirstInv, SeenInv, gatewayVars
<1>12. CASE ReceiveDone
  <2>1. source' = Closed
    BY <1>12 DEF ReceiveDone
  <2>2. source'.open = FALSE
    BY <2>1, ClosedShape
  <2> QED BY <1>1, <2>2
<1>15. CASE Refuse
  <2>1. source' = [Closed EXCEPT !.refused = TRUE]
    BY <1>15 DEF Refuse
  <2>2. source'.open = FALSE
    BY <2>1, ClosedShape
  <2> QED BY <1>1, <2>2
<1>13. CASE UNCHANGED chatVars
  BY <1>2, <1>13 DEF chatVars, browserVars, gatewayVars, streamVars
<1>14. ASSUME UNCHANGED <<browserVars, gatewayVars, conn>> PROVE FirstInv' /\ SeenInv'
  BY <1>2, <1>14 DEF browserVars, gatewayVars
<1> QED
  BY <1>3, <1>4, <1>5, <1>6, <1>7, <1>8, <1>9, <1>10, <1>11, <1>12, <1>13, <1>14, <1>15
     DEF ChatNext, StrayPoll, StrayTimeUp, StrayAborts, Expire

LEMMA EndStep ==
  ASSUME StreamTypeOK, TurnsInv, PromptInv, NumbersInv, FirstInv, SeenInv, NoSilentEnd,
         [ChatNext]_chatVars
  PROVE  NoSilentEnd'
<1>20. ASSUME revived PROVE NoSilentEnd'
  <2>1. revived'
    BY <1>20 DEF ChatNext, Send, Answer, AnswerFails, PostLost, TokenArrives, Poll,
       TimeUp, StrayPoll, StrayTimeUp, StrayAborts, Expire, Reconnect, Refuse,
       ReceiveText, ReceiveDone, browserVars, chatVars
  <2> QED BY <2>1 DEF NoSilentEnd
<1> SUFFICES ASSUME ~revived PROVE NoSilentEnd'
  BY <1>20
<1>1. ASSUME mute \subseteq mute', shown' = shown,
             \A t \in Turns : outcome'[t] = "done" => outcome[t] = "done"
      PROVE  NoSilentEnd'
  BY <1>1 DEF NoSilentEnd
<1>2. ASSUME UNCHANGED <<outcome, mute, shown>> PROVE NoSilentEnd'
  BY <1>1, <1>2
<1>3. ASSUME NEW t \in Turns, NEW i \in Instances, Answer(t, i) PROVE NoSilentEnd'
  BY <1>1, <1>3 DEF Answer
<1>4. ASSUME End("error") \/ outcome' = outcome, UNCHANGED <<mute, shown>>
      PROVE  NoSilentEnd'
  <2>1. CASE End("error")
    <3>1. \A t \in Turns : outcome'[t] = IF t = turn /\ streaming THEN "error"
                                          ELSE outcome[t]
      BY <2>1, EndShape
    <3>2. \A t \in Turns : outcome'[t] = "done" => outcome[t] = "done"
      BY <3>1
    <3> QED BY <1>1, <1>4, <3>2
  <2>2. CASE outcome' = outcome
    BY <1>2, <1>4, <2>2
  <2> QED BY <1>4, <2>1, <2>2
<1>9. ASSUME NEW t \in Turns, AnswerFails(t) PROVE NoSilentEnd'
  BY <1>4, <1>9 DEF AnswerFails
<1>5. ASSUME NEW t \in Turns, PostLost(t) PROVE NoSilentEnd'
  BY <1>4, <1>5 DEF PostLost, gatewayVars
<1>6. CASE ReceiveText
  <2>1. UNCHANGED <<outcome, mute>>
    BY <1>6 DEF ReceiveText, gatewayVars
  <2>2. \A t \in Turns : \A k \in DOMAIN shown[t] :
           k \in DOMAIN shown'[t] /\ shown'[t][k] = shown[t][k]
    BY <1>6, ShownKept
  <2> QED BY <2>1, <2>2 DEF NoSilentEnd
<1>7. CASE ReceiveDone
  <2>1. /\ source.open /\ conn.wire # << >> /\ Head(conn.wire).kind = "done"
        /\ End("done") /\ UNCHANGED <<mute, shown>>
    BY <1>7 DEF ReceiveDone, gatewayVars
  <2>5. \A t \in Turns : outcome'[t] = IF t = turn /\ streaming THEN "done"
                                        ELSE outcome[t]
    BY <2>1, EndShape
  <2>2. \/ mute # {}
        \/ \E k \in DOMAIN shown[turn] : shown[turn][k].during = turn
    <3>1. CASE source.lastSeq = 0
      <4>1. Head(conn.wire) = conn.wire[1]
        OBVIOUS
      <4> QED BY <2>1, <3>1, <4>1 DEF FirstInv
    <3>2. CASE source.lastSeq # 0
      BY <2>1, <3>2 DEF SeenInv
    <3> QED BY <3>1, <3>2
  <2>3. mute # {} => \E u \in mute : u <= turn
    <3>1. mute \subseteq 1 .. turn /\ turn \in Nat
      BY DEF TurnsInv, StreamTypeOK
    <3>2. \A u \in mute : u <= turn
      BY <3>1
    <3> QED BY <3>2
  <2>4. \A t \in Turns : t # turn => outcome'[t] = outcome[t]
    BY <2>5
  <2> QED BY <2>1, <2>2, <2>3, <2>4 DEF NoSilentEnd
<1>8. CASE UNCHANGED chatVars
  BY <1>2, <1>8 DEF chatVars, browserVars, gatewayVars
<1> QED
  BY <1>2, <1>3, <1>5, <1>6, <1>7, <1>8, <1>9
     DEF ChatNext, Send, TokenArrives, Poll, TimeUp, StrayPoll, StrayTimeUp, StrayAborts,
         Expire, Reconnect, Refuse, browserVars, gatewayVars

-----------------------------------------------------------------------------
(* Buffers that have lost nothing, of polls that told of no silence when it  *)
(* was too late.  A number above 1 was given after `done` *)
(* or with it, so that it comes after a `done` in every buffer and on every *)
(* wire: the browser closes the source before it gets to it.                *)
HasDone(b) == \E k \in 1 .. Len(b) : b[k].kind = "done" /\ b[k].seq > 1

DoneFirst(b) ==
    \A k \in 1 .. Len(b) : b[k].kind = "token" /\ b[k].seq > 1 =>
        \E j \in 1 .. k - 1 : b[j].kind = "done" /\ b[j].seq > 1

Closes(wire) == \E k \in 1 .. Len(wire) : wire[k].kind = "done"

ClosesFirst(wire) ==
    \A k \in 1 .. Len(wire) : wire[k].kind = "token" /\ wire[k].seq > 1 =>
        \E j \in 1 .. k - 1 : wire[j].kind = "done"

WholeInv ==
    ~torn /\ ~overrun =>
        /\ source.lastSeq <= 1 /\ source.lastId = source.lastSeq
        /\ source.texts = source.lastSeq
        /\ \A i \in Instances : DoneFirst(buffer[i])
        /\ \A s \in stray : s.seq > 0 => HasDone(buffer[s.at])
        /\ source.open => ClosesFirst(conn.wire)
        /\ conn.polling /\ conn.seq > 0 => Closes(conn.wire) /\ HasDone(buffer[conn.at])

(* Events of one poll, numbered on from seq.                                *)
Polled(e, seq) ==
    /\ e \in Seq(Event)
    /\ \A k \in 1 .. Len(e) : e[k].seq = seq + k
    /\ \A k \in 1 .. Len(e) : e[k].kind = "token" /\ k # 1 =>
         \E j \in 2 .. k - 1 : e[j].kind = "done"

LEMMA PushPolled ==
  ASSUME NEW e, NEW seq, NEW t, NEW w, NEW late, OfOnePush(e, seq, t, w, late),
         ~ (late /\ t \in mute)
  PROVE  Polled(e, seq)
BY DEF OfOnePush, Polled

(* They can be appended to what has a `done`, if they do not start at 1.    *)
LEMMA WholeConcat ==
  ASSUME NEW b \in Seq(Event), NEW seq \in Nat, NEW e, Polled(e, seq)
  PROVE  LET all == b \o e IN
         /\ HasDone(b) => HasDone(all)
         /\ DoneFirst(b) /\ (seq > 0 => HasDone(b)) => DoneFirst(all)
         /\ ClosesFirst(b) /\ (seq > 0 => Closes(b)) => ClosesFirst(all)
<1> DEFINE all == b \o e
<1>1. /\ e \in Seq(Event)
      /\ \A k \in 1 .. Len(e) : e[k].seq = seq + k
      /\ \A k \in 1 .. Len(e) : e[k].kind = "token" /\ k # 1 =>
           \E j \in 2 .. k - 1 : e[j].kind = "done"
  BY DEF Polled
<1>2. /\ Len(all) = Len(b) + Len(e) /\ Len(b) \in Nat /\ Len(e) \in Nat
      /\ \A k \in 1 .. Len(all) : all[k] = IF k <= Len(b) THEN b[k] ELSE e[k - Len(b)]
  BY <1>1, ConcatProperties
<1>3. b \o e = all
  OBVIOUS
<1> HIDE DEF all
<1>4. \A k \in 1 .. Len(b) : k \in 1 .. Len(all) /\ all[k] = b[k]
  BY <1>2
<1>5. ASSUME NEW k \in 1 .. Len(all), k > Len(b), all[k].kind = "token", all[k].seq > 1
      PROVE  \/ seq > 0 /\ k = Len(b) + 1
             \/ \E j \in 1 .. k - 1 : all[j].kind = "done" /\ all[j].seq > 1
  <2> DEFINE h == k - Len(b)
  <2>1. all[k] = e[h] /\ h \in 1 .. Len(e) /\ k = Len(b) + h
    BY <1>2, <1>5
  <2> HIDE DEF h
  <2>2. e[h].kind = "token" /\ e[h].seq > 1
    BY <1>5, <2>1
  <2>3. CASE h = 1
    <3>1. seq + 1 > 1
      BY <1>1, <2>1, <2>2, <2>3
    <3> QED BY <1>2, <2>1, <2>3, <3>1
  <2>4. CASE h # 1
    <3>1. PICK j \in 2 .. h - 1 : e[j].kind = "done"
      BY <1>1, <2>1, <2>2, <2>4
    <3>2. j \in 1 .. Len(e) /\ Len(b) + j \in 1 .. k - 1 /\ Len(b) + j \in 1 .. Len(all)
      BY <1>2, <2>1
    <3>3. all[Len(b) + j] = e[j]
      <4>1. ~ (Len(b) + j <= Len(b)) /\ (Len(b) + j) - Len(b) = j
        BY <1>2, <3>2
      <4>2. all[Len(b) + j] = IF Len(b) + j <= Len(b) THEN b[Len(b) + j]
                                                     ELSE e[(Len(b) + j) - Len(b)]
        BY <1>2, <3>2
      <4> QED BY <4>1, <4>2
    <3>4. e[j].seq > 1
      <4>1. e[j].seq = seq + j /\ j >= 2
        BY <1>1, <3>2
      <4> QED BY <3>2, <4>1
    <3> QED BY <3>1, <3>2, <3>3, <3>4
  <2> QED BY <2>3, <2>4
<1>6. HasDone(b) => HasDone(all)
  BY <1>4 DEF HasDone
<1>7. ASSUME DoneFirst(b), seq > 0 => HasDone(b)
      PROVE  DoneFirst(all)
  <2> SUFFICES ASSUME NEW k \in 1 .. Len(all), all[k].kind = "token", all[k].seq > 1
               PROVE  \E j \in 1 .. k - 1 : all[j].kind = "done" /\ all[j].seq > 1
    BY DEF DoneFirst
  <2>1. CASE k <= Len(b)
    <3>1. k \in 1 .. Len(b) /\ b[k].kind = "token" /\ b[k].seq > 1
      BY <1>2, <1>4, <2>1
    <3>2. PICK j \in 1 .. k - 1 : b[j].kind = "done" /\ b[j].seq > 1
      BY <1>7, <3>1 DEF DoneFirst
    <3>3. j \in 1 .. Len(b)
      BY <1>2, <2>1
    <3> QED BY <1>4, <3>2, <3>3
  <2>2. CASE k > Len(b)
    <3>1. CASE seq > 0 /\ k = Len(b) + 1
      <4>2. PICK j \in 1 .. Len(b) : b[j].kind = "done" /\ b[j].seq > 1
        BY <1>7, <3>1 DEF HasDone
      <4>3. j \in 1 .. k - 1
        BY <1>2, <3>1
      <4> QED BY <1>4, <4>2, <4>3
    <3> QED BY <1>5, <2>2, <3>1
  <2> QED BY <1>2, <2>1, <2>2
<1>8. ASSUME ClosesFirst(b), seq > 0 => Closes(b)
      PROVE  ClosesFirst(all)
  <2> SUFFICES ASSUME NEW k \in 1 .. Len(all), all[k].kind = "token", all[k].seq > 1
               PROVE  \E j \in 1 .. k - 1 : all[j].kind = "done"
    BY DEF ClosesFirst
  <2>1. CASE k <= Len(b)
    <3>1. k \in 1 .. Len(b) /\ b[k].kind = "token" /\ b[k].seq > 1
      BY <1>2, <1>4, <2>1
    <3>2. PICK j \in 1 .. k - 1 : b[j].kind = "done"
      BY <1>8, <3>1 DEF ClosesFirst
    <3>3. j \in 1 .. Len(b)
      BY <1>2, <2>1
    <3> QED BY <1>4, <3>2, <3>3
  <2>2. CASE k > Len(b)
    <3>1. CASE seq > 0 /\ k = Len(b) + 1
      <4>2. PICK j \in 1 .. Len(b) : b[j].kind = "done"
        BY <1>8, <3>1 DEF Closes
      <4>3. j \in 1 .. k - 1
        BY <1>2, <3>1
      <4> QED BY <1>4, <4>2, <4>3
    <3> QED BY <1>5, <2>2, <3>1
  <2> QED BY <1>2, <2>1, <2>2
<1> QED BY <1>3, <1>6, <1>7, <1>8

(* The head of the wire of an open source, if a text, has number 1.         *)
LEMMA WholeTail ==
  ASSUME NEW wire \in Seq(Event), wire # << >>, wire[1].kind = "token",
         ClosesFirst(wire)
  PROVE  /\ ~ (wire[1].seq > 1)
         /\ ClosesFirst(Tail(wire))
         /\ Closes(wire) => Closes(Tail(wire))
<1> DEFINE rest == Tail(wire)
<1>1. /\ Len(wire) \in Nat /\ Len(wire) # 0 /\ Len(rest) = Len(wire) - 1
      /\ \A k \in 1 .. Len(rest) : rest[k] = wire[k + 1]
  BY HeadTailProperties
<1>2. Tail(wire) = rest
  OBVIOUS
<1> HIDE DEF rest
<1>3. ~ (wire[1].seq > 1)
  BY <1>1 DEF ClosesFirst
<1>4. ClosesFirst(rest)
  <2> SUFFICES ASSUME NEW k \in 1 .. Len(rest), rest[k].kind = "token", rest[k].seq > 1
               PROVE  \E j \in 1 .. k - 1 : rest[j].kind = "done"
    BY DEF ClosesFirst
  <2>1. k + 1 \in 1 .. Len(wire) /\ wire[k + 1].kind = "token" /\ wire[k + 1].seq > 1
    BY <1>1
  <2>2. PICK j \in 1 .. (k + 1) - 1 : wire[j].kind = "done"
    BY <2>1 DEF ClosesFirst
  <2>3. j # 1
    BY <2>2
  <2>4. j - 1 \in 1 .. k - 1 /\ rest[j - 1] = wire[j]
    BY <1>1, <2>3
  <2> QED BY <2>2, <2>4
<1>5. ASSUME Closes(wire) PROVE Closes(rest)
  <2>1. PICK j \in 1 .. Len(wire) : wire[j].kind = "done"
    BY <1>5 DEF Closes
  <2>2. j # 1
    BY <2>1
  <2>3. j - 1 \in 1 .. Len(rest) /\ rest[j - 1] = wire[j]
    BY <1>1, <2>2
  <2> QED BY <2>1, <2>3 DEF Closes
<1> QED BY <1>2, <1>3, <1>4, <1>5

(* A replay after number 1 has a `done` before every text.                  *)
LEMMA WholeMissed ==
  ASSUME NEW b \in Seq(Event), DoneFirst(b), NEW last \in {0, 1}
  PROVE  LET m == Missed(b, last) IN
         /\ ClosesFirst(m)
         /\ m # << >> => Closes(m) /\ HasDone(b)
<1> DEFINE m == Missed(b, last)
<1>1. /\ m \in Seq(Event)
      /\ last = 0 => m = << >>
      /\ last > 0 => \E at : Selects(b, last, Len(b), m, at)
  BY MissedShape
<1>2. Missed(b, last) = m
  OBVIOUS
<1> HIDE DEF m
<1>3. CASE m = << >>
  BY <1>2, <1>3 DEF ClosesFirst
<1>4. CASE m # << >>
  <2>1. last = 1
    BY <1>1, <1>4
  <2>2. PICK at : Selects(b, 1, Len(b), m, at)
    BY <1>1, <2>1
  <2>3. Len(m) \in Nat /\ Len(m) # 0 /\ Len(b) \in Nat
    BY <1>1, <1>4
  <2>4. /\ \A k \in 1 .. Len(m) : at[k] \in 1 .. Len(b) /\ m[k] = b[at[k]]
        /\ \A h, k \in 1 .. Len(m) : h < k => at[h] < at[k]
        /\ \A j \in 1 .. Len(b) : b[j].seq > 1 <=> \E k \in 1 .. Len(m) : at[k] = j
    BY <2>2 DEF Selects
  <2>5. ClosesFirst(m)
    <3> SUFFICES ASSUME NEW k \in 1 .. Len(m), m[k].kind = "token", m[k].seq > 1
                 PROVE  \E j \in 1 .. k - 1 : m[j].kind = "done"
      BY DEF ClosesFirst
    <3>1. at[k] \in 1 .. Len(b) /\ b[at[k]].kind = "token" /\ b[at[k]].seq > 1
      BY <2>4
    <3>2. PICK h \in 1 .. at[k] - 1 : b[h].kind = "done" /\ b[h].seq > 1
      BY <3>1 DEF DoneFirst
    <3>3. h \in 1 .. Len(b) /\ h < at[k]
      BY <3>1, <2>3
    <3>4. PICK j \in 1 .. Len(m) : at[j] = h
      BY <2>4, <3>2, <3>3
    <3>5. j < k
      <4>1. ~ (k < j) /\ k # j
        BY <2>4, <3>1, <3>3, <3>4
      <4> QED BY <2>3, <4>1
    <3> QED BY <2>3, <2>4, <3>2, <3>4, <3>5
  <2>6. HasDone(b)
    <3>1. 1 \in 1 .. Len(m)
      BY <2>3
    <3>2. at[1] \in 1 .. Len(b) /\ b[at[1]].seq > 1 /\ b[at[1]] \in Event
      BY <2>4, <3>1
    <3>3. b[at[1]].kind \in {"token", "done"}
      BY <3>2 DEF Event
    <3>4. CASE b[at[1]].kind = "done"
      BY <3>2, <3>4 DEF HasDone
    <3>5. CASE b[at[1]].kind = "token"
      <4>1. PICK h \in 1 .. at[1] - 1 : b[h].kind = "done" /\ b[h].seq > 1
        BY <3>2, <3>5 DEF DoneFirst
      <4>2. h \in 1 .. Len(b)
        BY <2>3, <3>2
      <4> QED BY <4>1, <4>2 DEF HasDone
    <3> QED BY <3>3, <3>4, <3>5
  <2>7. Closes(m)
    <3>1. PICK j \in 1 .. Len(b) : b[j].kind = "done" /\ b[j].seq > 1
      BY <2>6 DEF HasDone
    <3>2. PICK k \in 1 .. Len(m) : at[k] = j
      BY <2>4, <3>1
    <3> QED BY <2>4, <3>1, <3>2 DEF Closes
  <2> QED BY <1>2, <2>5, <2>6, <2>7
<1> QED BY <1>3, <1>4

(* A store that evicts nothing.                                             *)
LEMMA WholeStore ==
  ASSUME StreamTypeOK, NEW i \in Instances, NEW seq \in Nat, NEW e, Polled(e, seq),
         Store(i, e), ~torn',
         \A j \in Instances : DoneFirst(buffer[j]),
         seq > 0 => HasDone(buffer[i])
  PROVE  /\ ~torn
         /\ \A j \in Instances : DoneFirst(buffer'[j])
         /\ \A j \in Instances : HasDone(buffer[j]) => HasDone(buffer'[j])
<1> DEFINE b == buffer[i]
<1>0. buffer \in [Instances -> Seq(Event)] /\ b \in Seq(Event) /\ e \in Seq(Event)
  BY DEF StreamTypeOK, Polled
<1>1. /\ buffer' = [buffer EXCEPT ![i] = Buffered(b, e)]
      /\ torn' = (torn \/ Len(b) + Len(e) > MaxSize)
  BY DEF Store
<1>2. DoneFirst(b) /\ (seq > 0 => HasDone(b)) /\ buffer[i] = b
  OBVIOUS
<1> HIDE DEF b
<1>3. ~torn /\ Len(b) + Len(e) <= MaxSize
  <2>1. ~ (Len(b) + Len(e) > MaxSize) /\ ~torn
    BY <1>1 DEF StreamTypeOK
  <2>2. Len(b) \in Nat /\ Len(e) \in Nat /\ MaxSize \in Nat
    BY <1>0, BoundsAssumption
  <2> QED BY <2>1, <2>2
<1>4. Buffered(b, e) = b \o e
  BY <1>0, <1>3, BufferedShape
<1>5. (HasDone(b) => HasDone(b \o e)) /\ DoneFirst(b \o e)
  BY <1>0, <1>2, WholeConcat
<1>6. ASSUME NEW j \in Instances
      PROVE  buffer'[j] = IF j = i THEN b \o e ELSE buffer[j]
  BY <1>0, <1>1, <1>4
<1> QED BY <1>2, <1>3, <1>5, <1>6

(* A connection that the browser leaves is a stray one.                     *)
LEMMA WholeStray ==
  ASSUME StreamTypeOK, WholeInv, ~torn, ~overrun,
         \A s \in stray' : s \in stray \/ (conn.polling /\ s.at = conn.at /\ s.seq = conn.seq),
         \A j \in Instances : HasDone(buffer[j]) => HasDone(buffer'[j])
  PROVE  \A s \in stray' : s.seq > 0 => HasDone(buffer'[s.at])
<1> SUFFICES ASSUME NEW s \in stray', s.seq > 0 PROVE HasDone(buffer'[s.at])
  OBVIOUS
<1>1. CASE s \in stray
  <2>1. s.at \in Instances /\ HasDone(buffer[s.at])
    BY <1>1 DEF WholeInv, StreamTypeOK
  <2> QED BY <2>1
<1>2. CASE conn.polling /\ s.at = conn.at /\ s.seq = conn.seq
  <2>1. conn.at \in Instances /\ HasDone(buffer[conn.at])
    BY <1>2 DEF WholeInv, StreamTypeOK
  <2> QED BY <1>2, <2>1
<1> QED BY <1>1, <1>2

LEMMA WholeFresh ==
  ASSUME StreamTypeOK, WholeInv, NEW i \in Instances, Open(i, buffer[i], 0),
         source' = FreshSource, UNCHANGED <<buffer, torn, overrun>>
  PROVE  WholeInv'
<1>1. conn'.wire = << >> /\ conn'.seq = 0
  BY OpenFresh DEF StreamTypeOK
<1>2. ClosesFirst(conn'.wire)
  BY <1>1 DEF ClosesFirst
<1>3. \A s \in stray' : s \in stray \/ (conn.polling /\ s.at = conn.at /\ s.seq = conn.seq)
  BY OpenShape
<1>4. ~torn /\ ~overrun => \A s \in stray' : s.seq > 0 => HasDone(buffer'[s.at])
  BY <1>3, WholeStray
<1>5. source'.lastSeq = 0 /\ source'.lastId = 0 /\ source'.texts = 0
  BY DEF FreshSource
<1> QED BY <1>1, <1>2, <1>4, <1>5 DEF WholeInv

LEMMA WholePush ==
  ASSUME StreamTypeOK, TurnsInv, WholeInv, conn.polling,
         NEW t \in 0 .. MaxTurns, NEW w \in Workers \cup {None},
         NEW late \in BOOLEAN, Push(t, w, late),
         UNCHANGED <<source, stray>>
  PROVE  WholeInv'
<1> SUFFICES ASSUME ~torn', ~overrun' PROVE WholeInv'
  BY DEF WholeInv
<1>0. /\ conn.seq \in Nat /\ conn.at \in Instances /\ conn.wire \in Seq(Event)
      /\ source.open
  BY DEF StreamTypeOK, TurnsInv
<1>2. PICK e : /\ OfOnePush(e, conn.seq, t, w, late)
               /\ conn'.at = conn.at /\ conn'.polling = FALSE
               /\ conn'.wire = conn.wire \o e
               /\ Store(conn.at, e)
               /\ overrun' = (overrun \/ (late /\ t \in mute))
  BY PushShape
<1>1. Polled(e, conn.seq)
  BY <1>2, PushPolled
<1>3. ~torn /\ ~overrun
  BY <1>2 DEF Store, StreamTypeOK
<1>4. /\ \A j \in Instances : DoneFirst(buffer[j])
      /\ ClosesFirst(conn.wire)
      /\ conn.seq > 0 => (Closes(conn.wire) /\ HasDone(buffer[conn.at]))
      /\ \A s \in stray : s.seq > 0 => HasDone(buffer[s.at])
      /\ source.lastSeq <= 1 /\ source.lastId = source.lastSeq
      /\ source.texts = source.lastSeq
  BY <1>0, <1>3 DEF WholeInv
<1>5. /\ \A j \in Instances : DoneFirst(buffer'[j])
      /\ \A j \in Instances : HasDone(buffer[j]) => HasDone(buffer'[j])
  BY <1>0, <1>1, <1>2, <1>4, WholeStore
<1>6. ClosesFirst(conn'.wire)
  BY <1>0, <1>1, <1>2, <1>4, WholeConcat
<1>7. \A s \in stray' : s.seq > 0 => HasDone(buffer'[s.at])
  BY <1>4, <1>5 DEF StreamTypeOK
<1> QED BY <1>2, <1>4, <1>5, <1>6, <1>7 DEF WholeInv

LEMMA WholeStrayPush ==
  ASSUME StreamTypeOK, WholeInv, NEW s \in stray, NEW t \in 0 .. MaxTurns,
         NEW w \in Workers \cup {None}, NEW late \in BOOLEAN,
         Store(s.at, Pushed(s.seq, t, w, late)), stray' = stray \ {s},
         overrun' = (overrun \/ (late /\ t \in mute)), UNCHANGED <<source, conn>>
  PROVE  WholeInv'
<1> SUFFICES ASSUME ~torn', ~overrun' PROVE WholeInv'
  BY DEF WholeInv
<1>1. PICK e : OfOnePush(e, s.seq, t, w, late) /\ Store(s.at, e)
  BY StrayPushShape
<1>2. s.seq \in Nat /\ s.at \in Instances
  BY DEF StreamTypeOK
<1>3. Polled(e, s.seq)
  BY <1>1, PushPolled
<1>4. Store(s.at, e)
  BY <1>1
<1>5. ~torn /\ ~overrun
  BY <1>4 DEF Store, StreamTypeOK
<1>6. /\ \A j \in Instances : DoneFirst(buffer[j])
      /\ s.seq > 0 => HasDone(buffer[s.at])
  BY <1>5 DEF WholeInv
<1>7. /\ \A j \in Instances : DoneFirst(buffer'[j])
      /\ \A j \in Instances : HasDone(buffer[j]) => HasDone(buffer'[j])
  BY <1>2, <1>3, <1>4, <1>6, WholeStore
<1>8. \A r \in stray' : r.seq > 0 => HasDone(buffer'[r.at])
  BY <1>5, <1>7, WholeStray
<1>10. conn'.polling /\ conn'.seq > 0 => Closes(conn'.wire) /\ HasDone(buffer'[conn'.at])
  <2>1. conn.at \in Instances
    BY DEF StreamTypeOK
  <2> QED BY <1>5, <1>7, <2>1 DEF WholeInv
<1> QED BY <1>5, <1>7, <1>8, <1>10 DEF WholeInv

LEMMA WholeReconnect ==
  ASSUME StreamTypeOK, WholeInv, NEW i \in Instances, Reconnect(i)
  PROVE  WholeInv'
<1> SUFFICES ASSUME ~torn', ~overrun' PROVE WholeInv'
  BY DEF WholeInv
<1> DEFINE b == buffer[i]
<1>1. PICK n \in 0 .. Len(b) :
        /\ buffer' = [buffer EXCEPT ![i] = SubSeq(b, n + 1, Len(b))]
        /\ Open(i, SubSeq(b, n + 1, Len(b)), source.lastId)
        /\ torn' = (torn \/ n > 0)
  BY DEF Reconnect
<1>2. b \in Seq(Event) /\ buffer \in [Instances -> Seq(Event)]
  BY DEF StreamTypeOK
<1>3. buffer[i] = b
  OBVIOUS
<1> HIDE DEF b
<1>4. ~torn /\ ~overrun /\ n = 0
  <2>1. ~torn /\ ~ (n > 0)
    BY <1>1 DEF StreamTypeOK
  <2>2. n \in Nat
    BY <1>2
  <2>3. ~overrun
    BY DEF Reconnect
  <2> QED BY <2>1, <2>2, <2>3
<1>5. SubSeq(b, n + 1, Len(b)) = b
  BY <1>2, <1>4, SubSeqFull
<1>6. Open(i, b, source.lastId)
  BY <1>1, <1>5
<1>7. buffer' = buffer
  BY <1>1, <1>2, <1>3, <1>5
<1>8. source' = source
  BY DEF Reconnect, browserVars
<1>9. /\ source.lastSeq <= 1 /\ source.lastId = source.lastSeq
      /\ source.texts = source.lastSeq
      /\ \A j \in Instances : DoneFirst(buffer[j])
  BY <1>4 DEF WholeInv
<1>10. source.lastId \in {0, 1}
  BY <1>9 DEF StreamTypeOK
<1> DEFINE m == Missed(b, source.lastId)
<1>11. ClosesFirst(m) /\ (m # << >> => Closes(m) /\ HasDone(b))
  BY <1>2, <1>3, <1>9, <1>10, WholeMissed
<1>12. /\ conn'.at = i /\ conn'.wire = m /\ (m = << >> => conn'.seq = 0)
       /\ \A s \in stray' : s \in stray \/ (conn.polling /\ s.at = conn.at /\ s.seq = conn.seq)
  BY <1>6, OpenShape
<1> HIDE DEF m
<1>13. \A s \in stray' : s.seq > 0 => HasDone(buffer'[s.at])
  BY <1>4, <1>7, <1>12, WholeStray
<1>14. conn'.polling /\ conn'.seq > 0 => Closes(conn'.wire) /\ HasDone(buffer'[conn'.at])
  BY <1>3, <1>7, <1>11, <1>12
<1> QED BY <1>7, <1>8, <1>9, <1>11, <1>12, <1>13, <1>14 DEF WholeInv

LEMMA WholeText ==
  ASSUME StreamTypeOK, TurnsInv, NumbersInv, WholeInv, ReceiveText
  PROVE  WholeInv'
<1> SUFFICES ASSUME ~torn', ~overrun' PROVE WholeInv'
  BY DEF WholeInv
<1> DEFINE e == Head(conn.wire)
<1>1. /\ source.open /\ conn.wire # << >>
      /\ e \in Event /\ e = conn.wire[1] /\ e.kind = "token" /\ e.seq > 0
      /\ conn'.wire = Tail(conn.wire) /\ conn'.at = conn.at
      /\ conn'.polling = conn.polling /\ conn'.seq = conn.seq
      /\ source'.lastId = e.seq
      /\ \/ /\ e.seq > source.lastSeq /\ source'.lastSeq = e.seq
            /\ source'.texts = source.texts + 1
         \/ /\ ~ (e.seq > source.lastSeq) /\ source'.lastSeq = source.lastSeq
            /\ source'.texts = source.texts
      /\ UNCHANGED <<buffer, stray, torn, overrun>>
  BY TextShape
<1> HIDE DEF e
<1>2. conn.wire \in Seq(Event) /\ source.lastSeq \in Nat /\ source.texts \in Nat
  BY DEF StreamTypeOK
<1>3. /\ source.lastSeq <= 1 /\ source.texts = source.lastSeq
      /\ ClosesFirst(conn.wire)
  BY <1>1 DEF WholeInv
<1>4. /\ ~ (e.seq > 1)
      /\ ClosesFirst(Tail(conn.wire))
      /\ Closes(conn.wire) => Closes(Tail(conn.wire))
  BY <1>1, <1>2, <1>3, WholeTail
<1>5. e.seq = 1
  BY <1>1, <1>4 DEF Event
<1>6. source'.lastSeq = 1 /\ source'.lastId = 1 /\ source'.texts = 1
  BY <1>1, <1>2, <1>3, <1>5
<1> QED BY <1>1, <1>4, <1>6 DEF WholeInv

LEMMA WholeStep ==
  ASSUME StreamTypeOK, TurnsInv, NumbersInv, WholeInv, [ChatNext]_chatVars
  PROVE  WholeInv'
<1>1. ASSUME UNCHANGED <<source, streamVars>> PROVE WholeInv'
  BY <1>1 DEF WholeInv, streamVars
<1>2. ASSUME NEW t \in Turns, NEW i \in Instances, Answer(t, i) PROVE WholeInv'
  <2>1. CASE t \in waiting
    BY <1>2, <2>1, WholeFresh DEF Answer
  <2>2. CASE t \notin waiting
    BY <1>1, <1>2, <2>2 DEF Answer, streamVars
  <2> QED BY <2>1, <2>2
<1>3. ASSUME NEW i \in Instances, TokenArrives(i) PROVE WholeInv'
  BY <1>3, WholeFresh DEF TokenArrives
<1>4. ASSUME NEW w \in Workers, Poll(w) PROVE WholeInv'
  <2>1. /\ conn.polling /\ cache[w] \in 0 .. MaxTurns
        /\ UNCHANGED <<source, stray>>
    BY <1>4 DEF Poll, StreamTypeOK, browserVars
  <2>2. PICK late \in BOOLEAN : Push(cache[w], w, late)
    BY <1>4 DEF Poll
  <2> QED BY <2>1, <2>2, WholePush
<1>5. CASE TimeUp
  <2>1. 0 \in 0 .. MaxTurns
    BY BoundsAssumption
  <2>2. conn.polling /\ Push(0, None, FALSE) /\ UNCHANGED <<source, stray>>
    BY <1>5 DEF TimeUp, browserVars
  <2> QED BY <2>1, <2>2, WholePush
<1>10. ASSUME NEW w \in Workers, StrayPoll(w) PROVE WholeInv'
  <2>1. PICK s \in stray, late \in BOOLEAN :
          /\ Store(s.at, Pushed(s.seq, cache[w], w, late)) /\ stray' = stray \ {s}
          /\ Late(late, cache[w])
    BY <1>10 DEF StrayPoll
  <2>2. cache[w] \in 0 .. MaxTurns /\ UNCHANGED <<source, conn>>
    BY <1>10 DEF StrayPoll, StreamTypeOK, browserVars
  <2>3. overrun' = (overrun \/ (late /\ cache[w] \in mute))
    BY <2>1 DEF Late
  <2> QED BY <2>1, <2>2, <2>3, WholeStrayPush
<1>11. CASE StrayTimeUp
  <2>1. PICK s \in stray :
          Store(s.at, Pushed(s.seq, 0, None, FALSE)) /\ stray' = stray \ {s}
    BY <1>11 DEF StrayTimeUp
  <2>2. /\ 0 \in 0 .. MaxTurns /\ UNCHANGED <<source, conn>>
        /\ overrun' = (overrun \/ (FALSE /\ 0 \in mute))
    BY <1>11, BoundsAssumption DEF StrayTimeUp, browserVars, StreamTypeOK
  <2> QED BY <2>1, <2>2, WholeStrayPush
<1>6. CASE StrayAborts
  <2>1. stray' \subseteq stray /\ UNCHANGED <<source, conn, buffer, torn, overrun>>
    BY <1>6 DEF StrayAborts, browserVars
  <2> QED BY <2>1 DEF WholeInv
<1>7. ASSUME NEW i \in Instances, Expire(i) PROVE WholeInv'
  <2>1. /\ stray' = {} /\ stray = {} /\ ~conn.polling /\ ~source.open
        /\ buffer' = [buffer EXCEPT ![i] = << >>]
        /\ UNCHANGED <<source, conn, torn, overrun>>
    BY <1>7 DEF Expire, TurnsInv, browserVars
  <2>2. DoneFirst(<< >>)
    BY DEF DoneFirst
  <2>3. ~torn /\ ~overrun => \A j \in Instances : DoneFirst(buffer'[j])
    BY <2>1, <2>2 DEF WholeInv, StreamTypeOK
  <2> QED BY <2>1, <2>3 DEF WholeInv
<1>8. ASSUME NEW c \in {Closed, [Closed EXCEPT !.refused = TRUE]}, source' = c,
             conn' = NoConn, Leave, UNCHANGED <<buffer, torn, overrun>>
      PROVE  WholeInv'
  <2>1. /\ source'.open = FALSE /\ conn'.polling = FALSE
        /\ source'.lastSeq = 0 /\ source'.lastId = 0 /\ source'.texts = 0
    BY <1>8, ClosedShape
  <2>2. \A s \in stray' : s \in stray \/ (conn.polling /\ s.at = conn.at /\ s.seq = conn.seq)
    BY <1>8, LeaveShape
  <2>3. ~torn /\ ~overrun => \A s \in stray' : s.seq > 0 => HasDone(buffer'[s.at])
    BY <1>8, <2>2, WholeStray
  <2> QED BY <1>8, <2>1, <2>3 DEF WholeInv
<1>12. CASE ReceiveDone
  BY <1>8, <1>12 DEF ReceiveDone
<1>13. CASE Refuse
  BY <1>8, <1>13 DEF Refuse
<1>9. CASE UNCHANGED chatVars
  BY <1>1, <1>9 DEF chatVars, browserVars
<1> QED
  BY <1>1, <1>2, <1>3, <1>4, <1>5, <1>6, <1>7, <1>9, <1>10, <1>11, <1>12, <1>13,
     WholeReconnect, WholeText
     DEF ChatNext, Send, AnswerFails, PostLost

-----------------------------------------------------------------------------
(* Answers to earlier turns.                                                *)
LEMMA StaleStep ==
  ASSUME StreamTypeOK, TurnsInv, NumbersInv, FirstInv, WholeInv, StaleOnlyElsewhere,
         [ChatNext]_chatVars
  PROVE  StaleOnlyElsewhere'
<1>0. /\ torn \in BOOLEAN /\ overrun \in BOOLEAN /\ revived \in BOOLEAN
      /\ shown \in [Turns -> Seq(Event)] /\ turn \in Nat
  BY DEF StreamTypeOK
<1>1. ASSUME UNCHANGED <<shown, server>>, torn => torn', overrun => overrun',
             revived => revived'
      PROVE  StaleOnlyElsewhere'
  BY <1>1 DEF StaleOnlyElsewhere
<1>2. ASSUME UNCHANGED <<shown, server, torn, overrun, revived>>
      PROVE  StaleOnlyElsewhere'
  BY <1>2 DEF StaleOnlyElsewhere
<1>3. ASSUME NEW w \in Workers, Send(w) PROVE StaleOnlyElsewhere'
  <2>1. /\ UNCHANGED <<shown, torn, overrun, revived>>
        /\ server' = [server EXCEPT ![turn + 1] = w]
    BY <1>3 DEF Send, streamVars
  <2>2. \A t \in Turns : t # turn + 1 => server'[t] = server[t]
    BY <2>1 DEF StreamTypeOK
  <2>3. \A t \in Turns : t = turn + 1 => shown'[t] = << >>
    BY <1>0, <2>1 DEF TurnsInv
  <2>4. \A t \in Turns : t = turn + 1 => DOMAIN shown'[t] = {}
    BY <2>3
  <2> QED BY <2>1, <2>2, <2>4 DEF StaleOnlyElsewhere
<1>5. ASSUME NEW w \in Workers, Poll(w) PROVE StaleOnlyElsewhere'
  BY <1>0, <1>1, <1>5 DEF Poll, Push, Store, Late, browserVars, gatewayVars
<1>6. CASE TimeUp
  BY <1>0, <1>1, <1>6 DEF TimeUp, Push, Store, Late, browserVars, gatewayVars
<1>7. ASSUME NEW w \in Workers, StrayPoll(w) PROVE StaleOnlyElsewhere'
  BY <1>0, <1>1, <1>7 DEF StrayPoll, Store, Late, browserVars, gatewayVars
<1>13. CASE StrayTimeUp
  BY <1>0, <1>1, <1>13 DEF StrayTimeUp, Store, browserVars, gatewayVars
<1>8. ASSUME NEW i \in Instances, Reconnect(i) PROVE StaleOnlyElsewhere'
  <2>1. (torn => torn') /\ UNCHANGED <<shown, server, overrun, revived>>
    BY <1>0, <1>8 DEF Reconnect, browserVars, gatewayVars
  <2> QED BY <1>1, <2>1
<1>14. ASSUME NEW i \in Instances, TokenArrives(i) PROVE StaleOnlyElsewhere'
  BY <1>1, <1>14 DEF TokenArrives, gatewayVars
<1>9. CASE ReceiveText
  <2> DEFINE e == Head(conn.wire)
  <2>1. /\ turn \in Turns /\ source.open /\ conn.wire # << >>
        /\ e \in Event /\ e = conn.wire[1] /\ e.kind = "token"
        /\ UNCHANGED <<turn, gatewayVars, torn, overrun, revived>>
    BY <1>9, TextShape
  <2>2. ASSUME NEW t \in Turns
        PROVE  \A k \in DOMAIN shown'[t] :
                 \/ k \in DOMAIN shown[t] /\ shown'[t][k] = shown[t][k]
                 \/ t = turn /\ e.seq > source.lastSeq /\ shown'[t][k] = e
    BY <1>9, ShownKept
  <2>3. server' = server
    BY <2>1 DEF gatewayVars
  <2>4. ASSUME ~torn, ~overrun, ~revived, e.seq > source.lastSeq
        PROVE  e.of # 0 => (e.of = turn \/ e.by # server[turn])
    <3>1. conn.wire \in Seq(Event) /\ source.lastSeq \in Nat
      BY DEF StreamTypeOK
    <3>2. ClosesFirst(conn.wire)
      BY <2>1, <2>4 DEF WholeInv
    <3> HIDE DEF e
    <3>3. ~ (e.seq > 1)
      BY <2>1, <3>1, <3>2, WholeTail
    <3>4. source.lastSeq = 0
      <4>1. e.seq \in Nat
        BY <2>1 DEF Event
      <4> QED BY <2>4, <3>1, <3>3, <4>1
    <3>5. 1 \in 1 .. Len(conn.wire)
      BY <2>1, <3>1
    <3> QED BY <2>1, <2>4, <3>4, <3>5 DEF FirstInv, Own
  <2> HIDE DEF e
  <2> QED BY <2>1, <2>2, <2>3, <2>4 DEF StaleOnlyElsewhere
<1>10. CASE ReceiveDone
  BY <1>2, <1>10 DEF ReceiveDone, gatewayVars
<1>15. CASE Refuse
  BY <1>2, <1>15 DEF Refuse, gatewayVars
<1>11. CASE UNCHANGED chatVars
  BY <1>2, <1>11 DEF chatVars, browserVars, gatewayVars, streamVars
<1>12. ASSUME NEW t \in Turns, NEW i \in Instances, Answer(t, i)
       PROVE  StaleOnlyElsewhere'
  BY <1>2, <1>12 DEF Answer
<1> QED
  BY <1>2, <1>3, <1>5, <1>6, <1>7, <1>8, <1>9, <1>10, <1>11, <1>12, <1>13, <1>14, <1>15
     DEF ChatNext, AnswerFails, PostLost, StrayAborts, Expire,
         browserVars, gatewayVars, streamVars

-----------------------------------------------------------------------------
(* The screen.  The last turn is the one that is open, while the spinner    *)
(* turns, and shows nothing before its post has returned, unless a stream   *)
(* has been revived.                                                        *)
ScreenInv ==
    /\ ~revived /\ waiting # {} => shown[turn] = << >>
    /\ \A t \in 1 .. turn : outcome[t] = "open" <=> (t = turn /\ streaming)

LEMMA ScreenStep ==
  ASSUME StreamTypeOK, TurnsInv, PromptInv, NumbersInv, ScreenInv, [ChatNext]_chatVars
  PROVE  ScreenInv'
<1>0. /\ turn \in Nat /\ turn <= MaxTurns
      /\ outcome \in [Turns -> {"open", "done", "error"}]
      /\ revived \in BOOLEAN /\ streaming \in BOOLEAN
      /\ \A t \in 1 .. turn : t \in Turns
  BY BoundsAssumption DEF StreamTypeOK, Turns
<1>1. ASSUME UNCHANGED <<turn, streaming, outcome, shown>>, waiting' \subseteq waiting,
             revived => revived'
      PROVE  ScreenInv'
  BY <1>0, <1>1 DEF ScreenInv
<1>2. ASSUME NEW how \in {"done", "error"}, End(how), waiting' \subseteq waiting,
             UNCHANGED <<turn, shown, revived>>
      PROVE  ScreenInv'
  <2>1. /\ streaming' = FALSE
        /\ \A t \in Turns : outcome'[t] = IF t = turn /\ streaming THEN how ELSE outcome[t]
    BY <1>2, EndShape
  <2>2. ASSUME NEW t \in 1 .. turn PROVE outcome'[t] # "open"
    <3>1. outcome'[t] = IF t = turn /\ streaming THEN how ELSE outcome[t]
      BY <1>0, <2>1
    <3>2. outcome[t] = "open" <=> (t = turn /\ streaming)
      BY DEF ScreenInv
    <3> QED BY <1>2, <3>1, <3>2
  <2> QED BY <1>2, <2>1, <2>2 DEF ScreenInv
<1>3. ASSUME NEW w \in Workers, Send(w) PROVE ScreenInv'
  <2>1. /\ ~streaming /\ turn < MaxTurns /\ turn' = turn + 1
        /\ streaming' = TRUE /\ UNCHANGED <<outcome, shown>>
    BY <1>3 DEF Send
  <2>2. turn + 1 \in Turns
    BY <1>0, <2>1, BoundsAssumption DEF Turns
  <2>3. shown[turn + 1] = << >> /\ outcome[turn + 1] = "open"
    BY <1>0, <2>2 DEF TurnsInv
  <2>4. \A t \in 1 .. turn + 1 :
           outcome[t] = "open" <=> (t = turn + 1 /\ TRUE)
    <3>1. \A t \in 1 .. turn + 1 : t = turn + 1 \/ (t \in 1 .. turn /\ t # turn + 1)
      BY <1>0
    <3> QED BY <2>1, <2>3, <3>1 DEF ScreenInv
  <2> QED BY <2>1, <2>3, <2>4 DEF ScreenInv
<1>4. ASSUME NEW t \in Turns, NEW i \in Instances, Answer(t, i) PROVE ScreenInv'
  <2>1. UNCHANGED <<turn, streaming, outcome, shown, revived>> /\ waiting' \subseteq waiting
    BY <1>4 DEF Answer
  <2> QED BY <1>1, <2>1
<1>5. ASSUME NEW t \in Turns, AnswerFails(t) PROVE ScreenInv'
  <2>1. waiting' \subseteq waiting /\ UNCHANGED <<turn, shown, revived>>
    BY <1>5 DEF AnswerFails
  <2>2. CASE t \in waiting
    BY <1>2, <1>5, <2>1, <2>2 DEF AnswerFails
  <2>3. CASE t \notin waiting
    BY <1>1, <1>5, <2>1, <2>3 DEF AnswerFails
  <2> QED BY <2>2, <2>3
<1>6. ASSUME NEW t \in Turns, PostLost(t) PROVE ScreenInv'
  <2>1. End("error") /\ waiting' \subseteq waiting /\ UNCHANGED <<turn, shown, revived>>
    BY <1>6 DEF PostLost
  <2> QED BY <1>2, <2>1
<1>7. CASE ReceiveText
  <2>1. source.open /\ UNCHANGED <<turn, waiting, streaming, outcome, revived>>
    BY <1>7 DEF ReceiveText
  <2>2. ~revived => waiting = {}
    BY <2>1 DEF PromptInv
  <2> QED BY <2>1, <2>2 DEF ScreenInv
<1>8. CASE ReceiveDone
  <2>1. End("done") /\ waiting' \subseteq waiting /\ UNCHANGED <<turn, shown, revived>>
    BY <1>8 DEF ReceiveDone
  <2> QED BY <1>2, <2>1
<1>9. CASE UNCHANGED chatVars
  BY <1>1, <1>9 DEF chatVars, browserVars
<1>10. ASSUME NEW i \in Instances, TokenArrives(i) PROVE ScreenInv'
  BY <1>1, <1>10 DEF TokenArrives
<1>11. CASE Refuse
  BY <1>1, <1>11 DEF Refuse
<1>12. ASSUME UNCHANGED browserVars PROVE ScreenInv'
  BY <1>1, <1>12 DEF browserVars
<1> QED
  BY <1>3, <1>4, <1>5, <1>6, <1>7, <1>8, <1>9, <1>10, <1>11, <1>12
     DEF ChatNext, Poll, TimeUp, StrayPoll, StrayTimeUp, StrayAborts, Expire, Reconnect

-----------------------------------------------------------------------------
(* The invariant, and what it says.                                         *)
ChatInv ==
    /\ StreamTypeOK /\ TurnsInv /\ PromptInv /\ NumbersInv /\ FirstInv /\ SeenInv
    /\ WholeInv /\ NoSilentEnd /\ StaleOnlyElsewhere /\ ScreenInv

LEMMA ChatInvInit == ChatInit => ChatInv
<1> SUFFICES ASSUME ChatInit PROVE ChatInv
  OBVIOUS
<1>1. StreamTypeOK
  BY TypeInit
<1>2. /\ turn = 0 /\ waiting = {} /\ streaming = FALSE /\ pending = {} /\ mute = {}
      /\ \A w \in Workers : cache[w] = 0
      /\ \A t \in Turns : shown[t] = << >> /\ outcome[t] = "open"
      /\ \A i \in Instances : buffer[i] = << >>
      /\ stray = {} /\ tokenDue = FALSE
      /\ source = Closed /\ conn = NoConn
  BY DEF ChatInit
<1>9. /\ conn.polling = FALSE /\ conn.wire = << >> /\ conn.seq = 0
      /\ source.open = FALSE /\ source.lastSeq = 0 /\ source.lastId = 0
      /\ source.texts = 0
  BY <1>2, ClosedShape
<1>3. TurnsInv /\ PromptInv
  BY <1>2, <1>9 DEF TurnsInv, PromptInv
<1>4. \A s : s = << >> => Plausible(s, 0) /\ DoneFirst(s)
  BY DEF Plausible, DoneFirst
<1>5. NumbersInv /\ FirstInv /\ SeenInv /\ WholeInv
  BY <1>2, <1>4, <1>9 DEF NumbersInv, FirstInv, SeenInv, WholeInv
<1>6. \A t \in Turns : DOMAIN shown[t] = {}
  BY <1>2
<1>7. NoSilentEnd /\ StaleOnlyElsewhere
  BY <1>2, <1>6 DEF NoSilentEnd, StaleOnlyElsewhere
<1>8. ScreenInv
  BY <1>2 DEF ScreenInv
<1> QED BY <1>1, <1>3, <1>5, <1>7, <1>8 DEF ChatInv

LEMMA ChatInvStep == ChatInv /\ [ChatNext]_chatVars => ChatInv'
BY TypeStep, TurnsStep, PromptStep, NumbersStep, FirstStep, EndStep, WholeStep, StaleStep,
   ScreenStep
   DEF ChatInv

(* The invariant holds of every behaviour.                                   *)
THEOREM ChatInvariant == ChatSpec => []ChatInv
BY ChatInvInit, ChatInvStep, PTL DEF ChatSpec

(* Until a late token revives a stream, a turn that ends regularly has      *)
(* shown a text polled for after its message was sent, or an agent has had  *)
(* none to show: no `done` and no text of an earlier turn is replayed in    *)
(* its place (route.ts:82-91, use-sse.ts:83-95).                            *)
THEOREM TurnsEndWithText == ChatSpec => []NoSilentEnd
<1>1. ChatInv => NoSilentEnd
  BY DEF ChatInv
<1> QED BY <1>1, ChatInvariant, PTL

(* However many connections break, at whichever instances they are resumed, *)
(* one source shows one text, unless a buffer has lost a part of what it    *)
(* was given or was given a silence and then a text, by a poll that ended   *)
(* past its time (use-sse.ts:68-81, route.ts:51-91, 133-196).               *)
THEOREM SourceShowsOneText == ChatSpec => []OneTextPerSource
<1>1. ChatInv => OneTextPerSource
  BY DEF ChatInv, WholeInv, OneTextPerSource
<1> QED BY <1>1, ChatInvariant, PTL

(* The answer to another turn is shown only when it came from a worker that *)
(* did not serve the message of this one, in whole buffers and until a late *)
(* token revives a stream (chat.py:31, 245, 435).                           *)
THEOREM StaleFromElsewhere == ChatSpec => []StaleOnlyElsewhere
<1>1. ChatInv => StaleOnlyElsewhere
  BY DEF ChatInv
<1> QED BY <1>1, ChatInvariant, PTL

-----------------------------------------------------------------------------
(* The conversation.                                                        *)

Replies(s) == [k \in DOMAIN s |-> s[k].of]

LEMMA RepliesAppend ==
  ASSUME NEW s \in Seq(Event), NEW e \in Event
  PROVE  Replies(Append(s, e)) = Append(Replies(s), e.of)
<1> DEFINE R == 0 .. MaxTurns
<1>1. \A f \in Event : f.of \in R
  BY DEF Event
<1>2. ASSUME NEW r \in Seq(Event)
      PROVE  /\ Replies(r) \in Seq(R) /\ Len(Replies(r)) = Len(r)
             /\ \A k \in 1 .. Len(r) : Replies(r)[k] = r[k].of
  <2>1. Replies(r) = [k \in 1 .. Len(r) |-> r[k].of] /\ Len(r) \in Nat
    BY DEF Replies
  <2>2. \A k \in 1 .. Len(r) : r[k].of \in R
    BY <1>1
  <2> HIDE DEF R
  <2>3. Replies(r) \in [1 .. Len(r) -> R]
    BY <2>1, <2>2
  <2>4. Replies(r) \in Seq(R)
    BY <2>1, <2>3
  <2>5. Len(Replies(r)) = Len(r)
    BY <2>1, <2>3
  <2> QED BY <2>1, <2>4, <2>5
<1>3. /\ Append(s, e) \in Seq(Event) /\ Len(Append(s, e)) = Len(s) + 1 /\ Len(s) \in Nat
      /\ \A k \in 1 .. Len(s) : Append(s, e)[k] = s[k]
      /\ Append(s, e)[Len(s) + 1] = e
  BY AppendProperties
<1> DEFINE a == Replies(Append(s, e))
           b == Append(Replies(s), e.of)
<1>4. /\ a \in Seq(R) /\ Len(a) = Len(s) + 1
      /\ \A k \in 1 .. Len(s) + 1 : a[k] = Append(s, e)[k].of
  BY <1>2, <1>3
<1>5. /\ b \in Seq(R) /\ Len(b) = Len(s) + 1
      /\ \A k \in 1 .. Len(s) : b[k] = s[k].of
      /\ b[Len(s) + 1] = e.of
  BY <1>1, <1>2, <1>3, AppendProperties
<1> HIDE DEF a, b, R
<1>6. \A k \in 1 .. Len(s) + 1 : k \in 1 .. Len(s) \/ k = Len(s) + 1
  BY <1>3
<1>7. \A k \in 1 .. Len(a) : a[k] = b[k]
  BY <1>3, <1>4, <1>5, <1>6
<1>8. a = b
  BY <1>4, <1>5, <1>7, SeqEqual
<1> QED BY <1>8 DEF a, b

LEMMA SaidAppends ==
  ASSUME StreamTypeOK, turn \in Turns, NEW e \in Event,
         shown' = [shown EXCEPT ![turn] = Append(@, e)]
  PROVE  Said' = [Said EXCEPT ![turn] = Append(@, e.of)]
<1>1. shown \in [Turns -> Seq(Event)]
  BY DEF StreamTypeOK
<1>2. Said = [t \in Turns |-> Replies(shown[t])] /\ Said' = [t \in Turns |-> Replies(shown'[t])]
  BY DEF Said, Replies
<1>3. \A t \in Turns : shown'[t] = IF t = turn THEN Append(shown[turn], e) ELSE shown[t]
  BY <1>1
<1>4. Replies(Append(shown[turn], e)) = Append(Replies(shown[turn]), e.of)
  BY <1>1, RepliesAppend
<1>5. \A t \in Turns : Said'[t] = IF t = turn THEN Append(Said[turn], e.of) ELSE Said[t]
  <2>1. \A t \in Turns : Said'[t] = Replies(shown'[t]) /\ Said[t] = Replies(shown[t])
    BY <1>2
  <2>2. ASSUME NEW t \in Turns, t # turn PROVE Said'[t] = Said[t]
    <3>1. shown'[t] = shown[t]
      BY <1>3, <2>2
    <3> QED BY <2>1, <3>1
  <2>3. Said'[turn] = Append(Said[turn], e.of)
    <3>1. shown'[turn] = Append(shown[turn], e)
      BY <1>3
    <3> QED BY <1>4, <2>1, <3>1
  <2> QED BY <2>2, <2>3
<1>6. DOMAIN Said = Turns /\ Said' = [t \in Turns |-> Said'[t]]
  BY <1>2
<1> QED BY <1>5, <1>6

(* What the abstract steps read of the state.                               *)
LEMMA AnsweringIsStreaming ==
  ASSUME StreamTypeOK, TurnsInv, ScreenInv
  PROVE  Seen!Answering <=> streaming
<1>1. turn \in Nat /\ streaming \in BOOLEAN
  BY DEF StreamTypeOK
<1>2. CASE turn = 0
  BY <1>1, <1>2 DEF TurnsInv, Seen!Answering
<1>3. CASE turn # 0
  <2>1. turn \in 1 .. turn
    BY <1>1, <1>3
  <2> QED BY <1>1, <1>3, <2>1 DEF ScreenInv, Seen!Answering
<1> QED BY <1>2, <1>3

LEMMA ConversationInit == ChatInit => Seen!Nothing
<1> SUFFICES ASSUME ChatInit PROVE Seen!Nothing
  OBVIOUS
<1>1. /\ turn = 0 /\ mute = {} /\ revived = FALSE
      /\ outcome = [t \in Turns |-> "open"]
      /\ \A t \in Turns : shown[t] = << >>
  BY DEF ChatInit
<1>2. \A s : s = << >> => [k \in DOMAIN s |-> s[k].of] = << >>
  OBVIOUS
<1>3. Said = [t \in Turns |-> << >>]
  BY <1>1, <1>2 DEF Said
<1>4. Seen!Turns = Turns
  BY DEF Seen!Turns, Turns
<1> QED BY <1>1, <1>3, <1>4 DEF Seen!Nothing

LEMMA ConversationStep ==
  ASSUME StreamTypeOK, TurnsInv, PromptInv, NumbersInv, FirstInv, SeenInv, ScreenInv,
         [ChatNext]_chatVars
  PROVE  [Seen!TalkNext]_(Seen!talk)
<1> USE DEF Seen!TalkNext, Seen!talk
<1>0. /\ turn \in Nat /\ Turns = 1 .. MaxTurns /\ Seen!Turns = Turns
      /\ (Seen!Answering <=> streaming)
      /\ shown \in [Turns -> Seq(Event)]
      /\ turn # 0 => turn \in Turns
  BY AnsweringIsStreaming DEF StreamTypeOK, Turns, Seen!Turns
<1>20. /\ streaming \/ source.open \/ tokenDue => turn # 0
       /\ pending \subseteq 1 .. turn
  BY DEF TurnsInv
<1>21. ~revived => /\ waiting # {} => streaming /\ waiting = {turn}
                   /\ source.open => streaming
  BY DEF PromptInv
<1>1. ASSUME shown' = shown PROVE Said' = Said
  BY <1>1 DEF Said
<1>2. ASSUME UNCHANGED <<turn, outcome, shown, mute, revived>>
      PROVE  UNCHANGED Seen!talk
  BY <1>1, <1>2
<1>3. ASSUME NEW w \in Workers, Send(w) PROVE Seen!TalkNext
  <2>1. /\ ~streaming /\ turn < MaxTurns /\ turn' = turn + 1
        /\ UNCHANGED <<outcome, shown, mute, revived>>
    BY <1>3 DEF Send
  <2>2. Seen!Ask
    BY <1>0, <1>1, <2>1 DEF Seen!Ask
  <2> QED BY <2>2
<1>4. ASSUME NEW t \in Turns, NEW i \in Instances, Answer(t, i)
      PROVE  Seen!TalkNext \/ UNCHANGED Seen!talk
  <2>1. /\ t \in pending /\ UNCHANGED <<turn, outcome, shown, revived>>
        /\ mute' = mute \cup {t} \/ mute' = mute
    BY <1>4 DEF Answer
  <2>2. t <= turn
    BY <1>0, <1>20, <2>1
  <2>3. CASE mute' = mute \cup {t}
    <3>1. Seen!KeepSilent(t)
      BY <1>1, <2>1, <2>2, <2>3 DEF Seen!KeepSilent
    <3> QED BY <1>0, <3>1
  <2>4. CASE mute' = mute
    BY <1>2, <2>1, <2>4
  <2> QED BY <2>1, <2>3, <2>4
<1>5. ASSUME waiting # {}, End("error"), UNCHANGED <<turn, shown, mute, revived>>
      PROVE  Seen!TalkNext \/ UNCHANGED Seen!talk
  <2>1. CASE ~streaming
    <3>1. outcome' = outcome
      BY <1>5, <2>1 DEF End
    <3> QED BY <1>2, <1>5, <3>1
  <2>2. CASE streaming
    <3>1. turn \in Turns
      BY <1>0, <1>20, <2>2
    <3>2. Said[turn] = << >> \/ revived
      <4>1. Said[turn] = Replies(shown[turn])
        BY <3>1 DEF Said, Replies
      <4>2. \A s : s = << >> => Replies(s) = << >>
        BY DEF Replies
      <4>3. shown[turn] = << >> \/ revived
        BY <1>5 DEF ScreenInv
      <4> QED BY <4>1, <4>2, <4>3
    <3>3. outcome' = [outcome EXCEPT ![turn] = "error"]
      BY <1>5, <2>2 DEF End
    <3>4. Seen!Fail
      BY <1>0, <1>1, <1>5, <2>2, <3>2, <3>3 DEF Seen!Fail, Seen!End
    <3> QED BY <3>4
  <2> QED BY <2>1, <2>2
<1>6. ASSUME NEW t \in Turns, AnswerFails(t)
      PROVE  Seen!TalkNext \/ UNCHANGED Seen!talk
  <2>1. CASE t \in waiting
    <3>1. waiting # {} /\ End("error") /\ UNCHANGED <<turn, shown, mute, revived>>
      BY <1>6, <2>1 DEF AnswerFails
    <3> QED BY <1>5, <3>1
  <2>2. CASE t \notin waiting
    BY <1>2, <1>6, <2>2 DEF AnswerFails
  <2> QED BY <2>1, <2>2
<1>7. ASSUME NEW t \in Turns, PostLost(t)
      PROVE  Seen!TalkNext \/ UNCHANGED Seen!talk
  BY <1>5, <1>7 DEF PostLost, gatewayVars
<1>11. ASSUME NEW i \in Instances, TokenArrives(i)
       PROVE  Seen!TalkNext \/ UNCHANGED Seen!talk
  <2>1. /\ tokenDue /\ revived' = (revived \/ ~streaming \/ waiting # {})
        /\ UNCHANGED <<turn, outcome, shown, mute>>
    BY <1>11 DEF TokenArrives, gatewayVars
  <2>2. CASE revived' = TRUE
    <3>1. Seen!Disturb
      BY <1>1, <1>20, <2>1, <2>2 DEF Seen!Disturb
    <3> QED BY <3>1
  <2>3. CASE revived' = revived
    BY <1>2, <2>1, <2>3
  <2> QED BY <2>1, <2>2, <2>3 DEF StreamTypeOK
<1>8. CASE ReceiveText
  <2> DEFINE e == Head(conn.wire)
  <2>1. /\ turn \in Turns /\ source.open /\ conn.wire # << >> /\ e \in Event
        /\ shown' = [shown EXCEPT ![turn] = Append(@, e)] \/ shown' = shown
        /\ UNCHANGED <<turn, outcome, mute, revived>>
    BY <1>8, TextShape DEF gatewayVars
  <2>2. streaming \/ revived
    BY <1>21, <2>1
  <2>3. e.of \in 0 .. MaxTurns /\ e.of <= turn
    <3>1. conn.wire \in Seq(Event) /\ Plausible(conn.wire, turn)
      BY DEF StreamTypeOK, NumbersInv
    <3>2. e.of <= turn
      BY <1>0, <2>1, <3>1, PlausibleSequences
    <3> QED BY <2>1, <3>2 DEF Event
  <2> HIDE DEF e
  <2>4. CASE shown' = [shown EXCEPT ![turn] = Append(@, e)]
    <3>1. Said' = [Said EXCEPT ![turn] = Append(@, e.of)]
      BY <2>1, <2>4, SaidAppends
    <3>2. Seen!Say(e.of)
      BY <1>0, <2>1, <2>2, <2>3, <3>1 DEF Seen!Say
    <3> QED BY <2>3, <3>2
  <2>5. CASE shown' = shown
    BY <1>2, <2>1, <2>5
  <2> QED BY <2>1, <2>4, <2>5
<1>9. CASE ReceiveDone
  <2>1. /\ source.open /\ conn.wire # << >> /\ Head(conn.wire).kind = "done"
        /\ End("done") /\ UNCHANGED <<turn, shown, mute, revived>>
    BY <1>9 DEF ReceiveDone, gatewayVars
  <2>2. turn \in Turns
    BY <1>0, <1>20, <2>1
  <2>3. CASE ~streaming
    <3>1. outcome' = outcome
      BY <2>1, <2>3 DEF End
    <3> QED BY <1>2, <2>1, <3>1
  <2>4. CASE streaming
    <3>1. outcome' = [outcome EXCEPT ![turn] = "done"]
      BY <2>1, <2>4 DEF End
    <3>2. revived \/ mute # {} \/ DOMAIN shown[turn] # {}
      <4>1. CASE source.lastSeq = 0
        <5>1. Head(conn.wire) = conn.wire[1]
          OBVIOUS
        <5> QED BY <2>1, <4>1, <5>1 DEF FirstInv
      <4>2. CASE source.lastSeq # 0
        BY <2>1, <4>2 DEF SeenInv
      <4> QED BY <4>1, <4>2
    <3>3. DOMAIN Said[turn] = DOMAIN shown[turn]
      BY <2>2 DEF Said
    <3>4. \A s : s = << >> => DOMAIN s = {}
      OBVIOUS
    <3>5. revived \/ mute # {} \/ Said[turn] # << >>
      BY <3>2, <3>3, <3>4
    <3>6. Seen!Complete
      BY <1>0, <1>1, <2>1, <2>4, <3>1, <3>5 DEF Seen!Complete, Seen!End
    <3> QED BY <3>6
  <2> QED BY <2>3, <2>4
<1>10. CASE UNCHANGED chatVars
  BY <1>2, <1>10 DEF chatVars, browserVars, gatewayVars
<1> QED
  BY <1>2, <1>3, <1>4, <1>6, <1>7, <1>8, <1>9, <1>10, <1>11
     DEF ChatNext, Poll, TimeUp, StrayPoll, StrayTimeUp, StrayAborts, Expire, Reconnect,
         Refuse, browserVars, gatewayVars

(* What the operator sees is a conversation, for any number of workers,     *)
(* instances, messages and mishaps: one message is answered at a time, a    *)
(* turn ends once, texts are added to the last turn only, and until a late  *)
(* token revives a stream nothing is added to a turn that has ended, no     *)
(* error follows a text, and no turn ends regularly without a text unless   *)
(* an agent was silent (ChatDrawer.tsx:83-115, 171-230).                    *)
THEOREM ConversationKept == ChatSpec => KeepsConversation
<1>1. ChatInv /\ [ChatNext]_chatVars => [Seen!TalkNext]_(Seen!talk)
  BY ConversationStep DEF ChatInv
<1> QED BY <1>1, ConversationInit, ChatInvariant, PTL
        DEF ChatSpec, KeepsConversation, Seen!Talk
=============================================================================
