------------------------ MODULE ModelContext_proofs ------------------------
(* Proofs about the messages a run sends, for every length of the verbatim  *)
(* tail and every bound of the loop.  What has to be shown about one list   *)
(* of messages is shown first: saying something more, and folding the       *)
(* middle, keep it sound.  Each await of the loop then hands on a sound     *)
(* list, and what is saved or loaded is one of these.                       *)
EXTENDS ModelContext, TLAPS, SequenceTheorems, WellFoundedInduction

(* A list the loop may be given, that stands for the places P.             *)
Sound(m, P) ==
    /\ m \in Seq(Messages)
    /\ m # << >> => StandsFor(m, P)
    /\ PatchesLast => ResultsFollowCalls(m)

(* What was said and is not lost: now, before the loop that runs, and when  *)
(* it was entered.                                                          *)
Owed == (1 .. said) \ lost
Loaded == (1 .. began) \ lost
Entered == (1 .. began + Opening) \ lost

(* The results of an answer with n calls can still be added.                *)
Open(m, n) ==
    \E j \in DOMAIN m :
        /\ m[j].role = "assistant" /\ m[j].calls = n
        /\ \A k \in j + 1 .. Len(m) : m[k].role = "tool"

HttpOK ==
    /\ http \in HttpStates
    /\ http.phase = "backoff" => http.attempt < MaxAttempts

(* While a loop runs only what earlier loops said is lost, for its own      *)
(* messages are in its list; what is saved stands for what they said.       *)
LoopOK ==
    /\ conv # << >> /\ Sound(conv, Owed)
    /\ entry # << >> /\ Sound(entry, Entered)
    /\ began + Opening <= said /\ lost \subseteq 1 .. began
    /\ Sound(saved, Loaded)

IInv ==
    /\ TypeOK /\ HttpOK
    /\ loops = 0 => loop = "idle" /\ said = 0
    /\ loop = "idle" => Sound(saved, Owed)
    /\ loop # "idle" => LoopOK
    /\ loop = "summary" => Foldable(conv)
    /\ loop \in {"approval", "tool", "verify"} => turn.at \in 1 .. turn.calls
    /\ PatchesLast /\ loop \in {"approval", "tool"} => Open(conv, turn.calls)
    /\ PatchesLast /\ loop = "verify" => turn.at = turn.calls

-----------------------------------------------------------------------------
LEMMA MessageFacts ==
  ASSUME NEW m \in Seq(Messages)
  PROVE  /\ Len(m) \in Nat /\ DOMAIN m = 1 .. Len(m)
         /\ m # << >> => Len(m) > 0
         /\ \A i \in 1 .. Len(m) : /\ m[i] \in Messages
                                  /\ m[i].of \in SUBSET Nat
                                  /\ m[i].calls \in 0 .. MaxCalls /\ m[i].call \in 0 .. MaxCalls
<1>1. Len(m) \in Nat /\ DOMAIN m = 1 .. Len(m) /\ (m # << >> => Len(m) > 0)
  OBVIOUS
<1>2. \A i \in 1 .. Len(m) : m[i] \in Messages
  OBVIOUS
<1>3. \A e \in Messages : /\ e.of \in SUBSET Nat
                          /\ e.calls \in 0 .. MaxCalls /\ e.call \in 0 .. MaxCalls
  BY DEF Messages
<1> QED  BY <1>1, <1>2, <1>3

(* Saying one more thing: s is m and a new last message.                    *)
Said(s, m, place, role, calls, call) ==
    /\ s \in Seq(Messages)
    /\ Len(s) = Len(m) + 1 /\ DOMAIN s = 1 .. Len(m) + 1
    /\ \A i \in 1 .. Len(m) : s[i] = m[i]
    /\ s[Len(m) + 1].role = role /\ s[Len(m) + 1].of = {place}
    /\ s[Len(m) + 1].calls = calls /\ s[Len(m) + 1].call = call

LEMMA SayFacts ==
  ASSUME NEW m \in Seq(Messages), NEW place \in Nat,
         NEW role \in {"system", "user", "assistant", "tool"},
         NEW calls \in 0 .. MaxCalls, NEW call \in 0 .. MaxCalls
  PROVE  Said(Say(m, place, role, calls, call), m, place, role, calls, call)
<1> DEFINE e == [role |-> role, of |-> {place}, calls |-> calls, call |-> call]
<1>1. e \in Messages
  BY DEF Messages
<1>2. Say(m, place, role, calls, call) = Append(m, e)
  BY DEF Say
<1>3. e.role = role /\ e.of = {place} /\ e.calls = calls /\ e.call = call
  OBVIOUS
<1> HIDE DEF e
<1>4. /\ Append(m, e) \in Seq(Messages) /\ Len(Append(m, e)) = Len(m) + 1
      /\ \A i \in 1 .. Len(m) : Append(m, e)[i] = m[i]
      /\ Append(m, e)[Len(m) + 1] = e
      /\ DOMAIN Append(m, e) = 1 .. Len(m) + 1
  BY <1>1
<1>5. Said(Append(m, e), m, place, role, calls, call)
  BY <1>3, <1>4 DEF Said
<1> QED  BY <1>2, <1>5

LEMMA SayKeepsWhole ==
  ASSUME NEW m \in Seq(Messages), NEW n \in Nat, NEW P \in SUBSET (1 .. n), StandsFor(m, P),
         NEW role \in {"system", "user", "assistant", "tool"},
         NEW calls \in 0 .. MaxCalls, NEW call \in 0 .. MaxCalls
  PROVE  LET s == Say(m, n + 1, role, calls, call)
         IN  s # << >> /\ StandsFor(s, P \cup {n + 1})
<1> DEFINE s == Say(m, n + 1, role, calls, call)
           l == Len(m)
<1>0. Said(s, m, n + 1, role, calls, call)
  BY SayFacts
<1> HIDE DEF s
<1>1. /\ Len(s) = l + 1 /\ DOMAIN s = 1 .. l + 1 /\ DOMAIN m = 1 .. l /\ l \in Nat /\ l > 1
      /\ \A i \in 1 .. l : s[i] = m[i]
      /\ s[l + 1].of = {n + 1}
  BY <1>0, MessageFacts DEF Said, StandsFor
<1>2. UNION {m[i].of : i \in 1 .. l} = P /\ \A i \in 1 .. l : m[i].of \subseteq P
  BY <1>1 DEF StandsFor
<1>3. \A i, j \in 1 .. l : i < j => \A p \in m[i].of, q \in m[j].of : p < q
  BY <1>1 DEF StandsFor, InOrder
<1>4. 1 \in 1 .. l /\ 2 \in 1 .. l
  BY <1>1
<1>5. /\ s[1].role = "system" /\ s[2].role = "user" /\ \A i \in 1 .. 2 : s[i].of = {i}
  BY <1>1, <1>4 DEF StandsFor
<1> HIDE DEF l
<1>6. InOrder(s)
  <2> SUFFICES ASSUME NEW i \in 1 .. l + 1, NEW j \in 1 .. l + 1, i < j,
                      NEW p \in s[i].of, NEW q \in s[j].of
               PROVE  p < q
    BY <1>1 DEF InOrder
  <2>1. i \in 1 .. l /\ p \in m[i].of /\ p \in 1 .. n
    <3>1. i \in 1 .. l  BY <1>1
    <3> QED  BY <1>1, <1>2, <3>1
  <2>2. CASE j = l + 1
    BY <1>1, <2>1, <2>2
  <2>3. CASE j # l + 1
    <3>1. j \in 1 .. l /\ q \in m[j].of  BY <1>1, <2>3
    <3> QED  BY <1>3, <2>1, <3>1
  <2> QED  BY <2>2, <2>3
<1>7. UNION {s[i].of : i \in 1 .. l + 1} = P \cup {n + 1}
  <2>1. \A i \in 1 .. l + 1 : s[i].of \subseteq P \cup {n + 1}
    <3> SUFFICES ASSUME NEW i \in 1 .. l + 1 PROVE s[i].of \subseteq P \cup {n + 1}
      OBVIOUS
    <3>1. i \in 1 .. l \/ i = l + 1  BY <1>1
    <3> QED  BY <1>1, <1>2, <3>1
  <2>2. ASSUME NEW p \in P PROVE \E i \in 1 .. l + 1 : p \in s[i].of
    <3>1. PICK i \in 1 .. l : p \in m[i].of  BY <1>2
    <3>2. i \in 1 .. l + 1  BY <1>1
    <3> QED  BY <1>1, <3>1, <3>2
  <2>3. l + 1 \in 1 .. l + 1 /\ n + 1 \in s[l + 1].of
    BY <1>1
  <2> QED  BY <2>1, <2>2, <2>3
<1>8. StandsFor(s, P \cup {n + 1})
  BY <1>1, <1>5, <1>6, <1>7 DEF StandsFor
<1>9. s # << >>
  BY <1>1
<1> QED  BY <1>8, <1>9 DEF s

(* A message that is no result, or the result of an open answer, leaves     *)
(* every result behind its call.                                            *)
LEMMA SayKeepsAnswers ==
  ASSUME NEW m \in Seq(Messages), ResultsFollowCalls(m), NEW place \in Nat,
         NEW role \in {"system", "user", "assistant", "tool"},
         NEW calls \in 0 .. MaxCalls, NEW call \in 0 .. MaxCalls,
         role = "tool" => \E n \in Nat : Open(m, n) /\ call \in 1 .. n
  PROVE  ResultsFollowCalls(Say(m, place, role, calls, call))
<1> DEFINE s == Say(m, place, role, calls, call)
<1>0. Said(s, m, place, role, calls, call)
  BY SayFacts
<1> HIDE DEF s
<1>1. /\ Len(s) = Len(m) + 1 /\ DOMAIN s = 1 .. Len(m) + 1
      /\ \A i \in 1 .. Len(m) : s[i] = m[i]
      /\ s[Len(m) + 1].role = role /\ s[Len(m) + 1].call = call
      /\ DOMAIN m = 1 .. Len(m) /\ Len(m) \in Nat
  BY <1>0, MessageFacts DEF Said
<1> SUFFICES ASSUME NEW i \in 1 .. Len(m) + 1, s[i].role = "tool"
             PROVE  Answers(s, i)
  BY <1>1 DEF ResultsFollowCalls, s
<1>2. CASE i \in 1 .. Len(m)
  <2>1. Answers(m, i)
    BY <1>1, <1>2 DEF ResultsFollowCalls
  <2>2. PICK j \in 1 .. i - 1 : /\ m[j].role = "assistant" /\ m[i].call \in 1 .. m[j].calls
                               /\ \A k \in j + 1 .. i - 1 : m[k].role = "tool"
    BY <2>1 DEF Answers
  <2>3. /\ s[j].role = "assistant" /\ s[i].call \in 1 .. s[j].calls
        /\ \A k \in j + 1 .. i - 1 : s[k].role = "tool"
    BY <1>1, <1>2, <2>2
  <2> QED  BY <2>3 DEF Answers
<1>3. CASE i = Len(m) + 1
  <2>1. PICK n \in Nat : Open(m, n) /\ call \in 1 .. n
    BY <1>1, <1>3
  <2>2. PICK j \in 1 .. Len(m) : /\ m[j].role = "assistant" /\ m[j].calls = n
                                 /\ \A k \in j + 1 .. Len(m) : m[k].role = "tool"
    BY <1>1, <2>1 DEF Open
  <2>3. /\ j \in 1 .. i - 1
        /\ s[j].role = "assistant" /\ s[i].call \in 1 .. s[j].calls
        /\ \A k \in j + 1 .. i - 1 : s[k].role = "tool"
    BY <1>1, <1>3, <2>1, <2>2
  <2> QED  BY <2>3 DEF Answers
<1> QED  BY <1>1, <1>2, <1>3

(* An answer opens its calls, and each result leaves them open.             *)
LEMMA OpenAnswer ==
  ASSUME NEW m \in Seq(Messages), NEW place \in Nat, NEW n \in 0 .. MaxCalls
  PROVE  Open(Assistant(m, place, n), n)
<1> DEFINE s == Say(m, place, "assistant", n, 0)
<1>0. Said(s, m, place, "assistant", n, 0)
  BY SayFacts, CallAssumption
<1> HIDE DEF s
<1>1. /\ Len(s) = Len(m) + 1 /\ DOMAIN s = 1 .. Len(m) + 1 /\ Len(m) \in Nat
      /\ s[Len(m) + 1].role = "assistant" /\ s[Len(m) + 1].calls = n
  BY <1>0, MessageFacts DEF Said
<1>2. Open(s, n)
  <2>1. Len(m) + 1 \in DOMAIN s /\ \A k \in Len(m) + 2 .. Len(s) : s[k].role = "tool"
    BY <1>1
  <2> QED  BY <1>1, <2>1 DEF Open
<1> QED  BY <1>2 DEF Assistant, s

LEMMA OpenStays ==
  ASSUME NEW m \in Seq(Messages), NEW place \in Nat, NEW n \in Nat, Open(m, n),
         NEW call \in 0 .. MaxCalls
  PROVE  Open(ToolResult(m, place, call), n)
<1> DEFINE s == Say(m, place, "tool", 0, call)
<1>0. Said(s, m, place, "tool", 0, call)
  BY SayFacts, CallAssumption
<1> HIDE DEF s
<1>1. /\ Len(s) = Len(m) + 1 /\ DOMAIN s = 1 .. Len(m) + 1
      /\ \A i \in 1 .. Len(m) : s[i] = m[i] 
      /\ s[Len(m) + 1].role = "tool"
      /\ DOMAIN m = 1 .. Len(m) /\ Len(m) \in Nat
  BY <1>0, MessageFacts DEF Said
<1>2. PICK j \in 1 .. Len(m) : /\ m[j].role = "assistant" /\ m[j].calls = n
                               /\ \A k \in j + 1 .. Len(m) : m[k].role = "tool"
  BY <1>1 DEF Open
<1>3. Open(s, n)
  <2>1. \A k \in j + 1 .. Len(s) : s[k].role = "tool"
    BY <1>1, <1>2
  <2>2. j \in DOMAIN s /\ s[j].role = "assistant" /\ s[j].calls = n
    BY <1>1, <1>2
  <2> QED  BY <2>1, <2>2 DEF Open
<1> QED  BY <1>3 DEF ToolResult, s

-----------------------------------------------------------------------------
(* Folding the middle.  The task is the second message; the tail begins     *)
(* with no result.                                                          *)
LEMMA TaskIsSecond ==
  ASSUME NEW m, NEW P, StandsFor(m, P), DOMAIN m = 1 .. Len(m), Len(m) \in Nat
  PROVE  FirstUser(m) = 2
<1> DEFINE Q(i) == m[i].role = "user" /\ \A j \in 1 .. i - 1 : m[j].role # "user"
<1>1. 2 \in DOMAIN m /\ 1 \in DOMAIN m /\ m[1].role = "system" /\ m[2].role = "user"
  BY DEF StandsFor
<1>2. Q(2)
  BY <1>1
<1>3. \A i \in DOMAIN m : Q(i) => i = 2
  <2> SUFFICES ASSUME NEW i \in DOMAIN m, Q(i) PROVE i = 2
    OBVIOUS
  <2>1. i # 1
    BY <1>1
  <2>2. ~(i > 2)
    BY <1>1
  <2> QED  BY <2>1, <2>2
<1> HIDE DEF Q
<1>4. FirstUser(m) = CHOOSE i \in DOMAIN m : Q(i)
  BY DEF FirstUser, Q
<1>5. (CHOOSE i \in DOMAIN m : Q(i)) \in DOMAIN m /\ Q(CHOOSE i \in DOMAIN m : Q(i))
  BY <1>1, <1>2
<1> QED  BY <1>3, <1>4, <1>5

LEMMA LeastNumber ==
  ASSUME NEW T, T \subseteq Nat, T # {}
  PROVE  \E x \in T : \A y \in T : ~(y < x)
<1>1. IsWellFoundedOn(OpToRel(<, Nat), Nat)
  BY NatLessThanWellFounded
<1>2. PICK x \in T : \A y \in T : ~(<<y, x>> \in OpToRel(<, Nat))
  BY <1>1, WFMin
<1> QED  BY <1>2 DEF OpToRel

LEMMA TailFacts ==
  ASSUME NEW m \in Seq(Messages), NEW P, StandsFor(m, P)
  PROVE  /\ TailStart(m) \in 3 .. Len(m) + 1
         /\ TailStart(m) \in DOMAIN m => m[TailStart(m)].role # "tool"
<1> DEFINE f == TailFrom(m)
           n == Len(m)
           Q(i) == /\ \A j \in f .. i - 1 : m[j].role = "tool"
                   /\ i \in DOMAIN m => m[i].role # "tool"
           T == {i \in f .. n + 1 : i \in DOMAIN m => m[i].role # "tool"}
<1>1. DOMAIN m = 1 .. n /\ n \in Nat /\ n > 1
  BY MessageFacts DEF StandsFor
<1>2. f \in 3 .. n + 1
  BY <1>1, TaskIsSecond, ContextAssumption DEF TailFrom
<1>3. TailStart(m) = CHOOSE i \in f .. n + 1 : Q(i)
  BY DEF TailStart
<1> HIDE DEF f, n
<1>4. n + 1 \in T /\ T \subseteq Nat
  BY <1>1, <1>2
<1>5. PICK x \in T : \A y \in T : ~(y < x)
  <2> HIDE DEF T
  <2> QED  BY <1>4, LeastNumber
<1>6. x \in f .. n + 1 /\ Q(x)
  <2>1. x \in f .. n + 1 /\ (x \in DOMAIN m => m[x].role # "tool")
    OBVIOUS
  <2>2. \A j \in f .. x - 1 : m[j].role = "tool"
    <3> SUFFICES ASSUME NEW j \in f .. x - 1 PROVE m[j].role = "tool"
      OBVIOUS
    <3>1. j \notin T
      BY <1>1, <1>2, <1>5, <2>1
    <3>2. j \in f .. n + 1
      BY <1>1, <1>2, <2>1
    <3> QED  BY <3>1, <3>2
  <2> QED  BY <2>1, <2>2
<1> HIDE DEF Q
<1>7. TailStart(m) \in f .. n + 1 /\ Q(TailStart(m))
  BY <1>3, <1>6
<1>8. TailStart(m) \in DOMAIN m => m[TailStart(m)].role # "tool"
  BY <1>7 DEF Q
<1> QED  BY <1>1, <1>2, <1>7, <1>8 DEF n

(* The folded list: the first two messages, the summary, the tail.          *)
Folded(c, m, t) ==
    /\ t \in 5 .. Len(m) + 1
    /\ t \in DOMAIN m => m[t].role # "tool"
    /\ c \in Seq(Messages)
    /\ Len(c) = Len(m) - t + 4 /\ DOMAIN c = 1 .. Len(m) - t + 4
    /\ c[1] = m[1] /\ c[2] = m[2]
    /\ c[3].role = "assistant" /\ c[3].of = UNION {m[i].of : i \in 3 .. t - 1}
    /\ \A i \in 4 .. Len(m) - t + 4 : c[i] = m[i + t - 4]

LEMMA Joined ==
  ASSUME NEW S, NEW a \in Seq(S), NEW b \in Seq(S)
  PROVE  /\ a \o b \in Seq(S) /\ Len(a \o b) = Len(a) + Len(b)
         /\ DOMAIN (a \o b) = 1 .. Len(a) + Len(b)
         /\ \A i \in 1 .. Len(a) + Len(b) :
              (a \o b)[i] = IF i <= Len(a) THEN a[i] ELSE b[i - Len(a)]
<1>1. /\ Len(a \o b) = Len(a) + Len(b)
      /\ \A i \in 1 .. Len(a) + Len(b) :
           (a \o b)[i] = IF i <= Len(a) THEN a[i] ELSE b[i - Len(a)]
  BY ConcatProperties
<1>2. a \o b \in Seq(S)
  BY ConcatProperties
<1> QED  BY <1>1, <1>2

LEMMA FoldFacts ==
  ASSUME NEW m \in Seq(Messages), NEW P, StandsFor(m, P), Foldable(m)
  PROVE  Folded(Compressed(m), m, TailStart(m))
<1> DEFINE t == TailStart(m)
           n == Len(m)
           a == SubSeq(m, 1, 1)
           b == <<m[2], Summary(m)>>
           d == SubSeq(m, t, n)
<1>1. DOMAIN m = 1 .. n /\ n \in Nat /\ n > 1 /\ \A i \in 1 .. n : m[i] \in Messages
  BY MessageFacts DEF StandsFor
<1>2. FirstUser(m) = 2
  BY <1>1, TaskIsSecond
<1>3. t \in 5 .. n + 1 /\ (t \in DOMAIN m => m[t].role # "tool")
  <2>1. t \in 3 .. n + 1 /\ (t \in DOMAIN m => m[t].role # "tool")
    BY TailFacts
  <2>2. t > 4
    BY <1>1, <1>2, <2>1 DEF Foldable
  <2> QED  BY <1>1, <2>1, <2>2
<1> HIDE DEF t, n
<1>4. /\ Summary(m) \in Messages /\ Summary(m).role = "assistant"
      /\ Summary(m).of = UNION {m[i].of : i \in 3 .. t - 1}
  <2>1. Summary(m) = [role |-> "assistant", of |-> UNION {m[i].of : i \in 3 .. t - 1},
                      calls |-> 0, call |-> 0]
    BY <1>2 DEF Summary, t
  <2>2. \A i \in 3 .. t - 1 : m[i].of \in SUBSET Nat
    <3>1. \A i \in 3 .. t - 1 : i \in 1 .. n  BY <1>1, <1>3
    <3> QED  BY <3>1, MessageFacts DEF n
  <2>3. UNION {m[i].of : i \in 3 .. t - 1} \in SUBSET Nat
    BY <2>2
  <2> QED  BY <2>1, <2>3, CallAssumption DEF Messages
<1>5. /\ a \in Seq(Messages) /\ Len(a) = 1 /\ a[1] = m[1]
  <2>1. 1 \in 1 .. n  BY <1>1
  <2> QED  BY <1>1, <2>1, SubSeqProperties
<1>6. /\ d \in Seq(Messages) /\ Len(d) = n - t + 1
      /\ \A i \in 1 .. n - t + 1 : d[i] = m[t + i - 1]
  <2>1. t \in Int /\ n \in Int /\ t > 0 /\ t <= n + 1
    BY <1>1, <1>3
  <2>2. \A i \in t .. n : m[i] \in Messages
    BY <1>1, <1>3
  <2> QED  BY <1>1, <2>1, <2>2, SubSeqProperties
<1>7. m[2] \in Messages
  BY <1>1
<1> HIDE DEF a, d
<1>8. b \in Seq(Messages) /\ Len(b) = 2 /\ b[1] = m[2] /\ b[2] = Summary(m)
  BY <1>4, <1>7
<1> HIDE DEF b
<1>9. Compressed(m) = (a \o b) \o d
  BY <1>2 DEF Compressed, SystemMessages, a, b, d, t, n
<1>10. /\ a \o b \in Seq(Messages) /\ Len(a \o b) = 3
       /\ (a \o b)[1] = m[1] /\ (a \o b)[2] = m[2] /\ (a \o b)[3] = Summary(m)
  <2> HIDE DEF Messages
  <2>1. /\ a \o b \in Seq(Messages) /\ Len(a \o b) = Len(a) + Len(b)
        /\ \A i \in 1 .. Len(a) + Len(b) :
             (a \o b)[i] = IF i <= Len(a) THEN a[i] ELSE b[i - Len(a)]
    BY <1>5, <1>8, Joined
  <2> QED  BY <1>5, <1>8, <2>1
<1> DEFINE ab == a \o b
           c == ab \o d
<1> HIDE DEF ab
<1>11. ab \in Seq(Messages) /\ Len(ab) = 3 /\ ab[1] = m[1] /\ ab[2] = m[2] /\ ab[3] = Summary(m)
  BY <1>10 DEF ab
<1>12. /\ c \in Seq(Messages) /\ Len(c) = 3 + (n - t + 1) /\ DOMAIN c = 1 .. 3 + (n - t + 1)
       /\ \A i \in 1 .. 3 + (n - t + 1) : c[i] = IF i <= 3 THEN ab[i] ELSE d[i - 3]
  <2>1. /\ ab \o d \in Seq(Messages) /\ Len(ab \o d) = Len(ab) + Len(d)
        /\ DOMAIN (ab \o d) = 1 .. Len(ab) + Len(d)
        /\ \A i \in 1 .. Len(ab) + Len(d) :
             (ab \o d)[i] = IF i <= Len(ab) THEN ab[i] ELSE d[i - Len(ab)]
    BY <1>6, <1>11, Joined
  <2> QED  BY <1>6, <1>11, <2>1
<1> HIDE DEF c
<1>13. /\ Len(c) = n - t + 4 /\ DOMAIN c = 1 .. n - t + 4
       /\ c[1] = m[1] /\ c[2] = m[2] /\ c[3] = Summary(m)
  BY <1>1, <1>3, <1>11, <1>12
<1>14. \A i \in 4 .. n - t + 4 : c[i] = m[i + t - 4]
  <2> SUFFICES ASSUME NEW i \in 4 .. n - t + 4 PROVE c[i] = m[i + t - 4]
    OBVIOUS
  <2>1. c[i] = d[i - 3]
    BY <1>1, <1>3, <1>12
  <2>2. i - 3 \in 1 .. n - t + 1 /\ t + (i - 3) - 1 = i + t - 4
    BY <1>1, <1>3
  <2> QED  BY <1>6, <2>1, <2>2
<1>15. Folded(c, m, t)
  BY <1>3, <1>4, <1>12, <1>13, <1>14 DEF Folded, n
<1> QED  BY <1>9, <1>15 DEF c, ab, t

LEMMA FoldKeepsWhole ==
  ASSUME NEW m \in Seq(Messages), NEW P, StandsFor(m, P), Foldable(m)
  PROVE  LET c == Compressed(m) IN
         c \in Seq(Messages) /\ c # << >> /\ StandsFor(c, P)
<1> DEFINE c == Compressed(m)
           t == TailStart(m)
           n == Len(m)
           src(k) == IF k = 3 THEN 3 .. t - 1 ELSE IF k < 3 THEN {k} ELSE {k + t - 4}
<1>1. Folded(c, m, t)
  BY FoldFacts
<1> HIDE DEF c, t
<1>2. DOMAIN m = 1 .. n /\ n \in Nat /\ n > 1
  BY MessageFacts DEF StandsFor
<1>3. /\ t \in 5 .. n + 1 /\ c \in Seq(Messages)
      /\ Len(c) = n - t + 4 /\ DOMAIN c = 1 .. n - t + 4
      /\ c[1] = m[1] /\ c[2] = m[2]
      /\ c[3].of = UNION {m[i].of : i \in 3 .. t - 1}
      /\ \A i \in 4 .. n - t + 4 : c[i] = m[i + t - 4]
  BY <1>1 DEF Folded
<1> HIDE DEF n
<1>4. \A i, j \in 1 .. n : i < j => \A p \in m[i].of, q \in m[j].of : p < q
  BY <1>2 DEF StandsFor, InOrder
<1>5. UNION {m[i].of : i \in 1 .. n} = P
  BY <1>2 DEF StandsFor
<1>6. ASSUME NEW k \in 1 .. n - t + 4
      PROVE  /\ src(k) \subseteq 1 .. n
             /\ c[k].of = UNION {m[a].of : a \in src(k)}
  <2>1. CASE k = 3
    BY <1>2, <1>3, <2>1
  <2>2. CASE k < 3
    <3>1. k = 1 \/ k = 2  BY <1>2, <1>3, <2>2
    <3>2. src(k) = {k} /\ c[k] = m[k]  BY <1>3, <3>1
    <3>3. k \in 1 .. n  BY <1>2, <3>1
    <3> HIDE DEF src
    <3> QED  BY <3>2, <3>3
  <2>3. CASE k > 3
    <3>1. src(k) = {k + t - 4} /\ c[k] = m[k + t - 4]  BY <1>2, <1>3, <2>3
    <3>2. k + t - 4 \in 1 .. n  BY <1>2, <1>3, <2>3
    <3> HIDE DEF src
    <3> QED  BY <3>1, <3>2
  <2> QED  BY <1>2, <1>3, <2>1, <2>2, <2>3
<1>7. ASSUME NEW i \in 1 .. n - t + 4, NEW j \in 1 .. n - t + 4, i < j,
             NEW a \in src(i), NEW b \in src(j)
      PROVE  a < b
  BY <1>2, <1>3, <1>7
<1>8. ASSUME NEW a \in 1 .. n PROVE \E k \in 1 .. n - t + 4 : a \in src(k)
  <2>1. CASE a \in 3 .. t - 1
    <3>1. 3 \in 1 .. n - t + 4 /\ a \in src(3)  BY <1>2, <1>3, <2>1
    <3> HIDE DEF src
    <3> QED  BY <3>1
  <2>2. CASE a < 3
    <3>1. a \in 1 .. n - t + 4 /\ a \in src(a)  BY <1>2, <1>3, <2>2
    <3> HIDE DEF src
    <3> QED  BY <3>1
  <2>3. CASE a >= t
    <3>1. a - t + 4 \in 1 .. n - t + 4 /\ a \in src(a - t + 4)  BY <1>2, <1>3, <2>3
    <3> HIDE DEF src
    <3> QED  BY <3>1
  <2> QED  BY <1>2, <1>3, <2>1, <2>2, <2>3
<1> HIDE DEF src
<1>9. InOrder(c)
  <2> SUFFICES ASSUME NEW i \in 1 .. n - t + 4, NEW j \in 1 .. n - t + 4, i < j,
                      NEW p \in c[i].of, NEW q \in c[j].of
               PROVE  p < q
    BY <1>3 DEF InOrder
  <2>1. PICK a \in src(i) : p \in m[a].of
    BY <1>6
  <2>2. PICK b \in src(j) : q \in m[b].of
    BY <1>6
  <2>3. a < b /\ a \in 1 .. n /\ b \in 1 .. n
    BY <1>6, <1>7
  <2> QED  BY <1>4, <2>1, <2>2, <2>3
<1>10. UNION {c[k].of : k \in 1 .. n - t + 4} = P
  <2>1. ASSUME NEW k \in 1 .. n - t + 4, NEW p \in c[k].of PROVE p \in P
    <3>1. PICK a \in src(k) : p \in m[a].of  BY <1>6
    <3>2. a \in 1 .. n  BY <1>6
    <3> QED  BY <1>5, <3>1, <3>2
  <2>2. ASSUME NEW p \in P PROVE \E k \in 1 .. n - t + 4 : p \in c[k].of
    <3>1. PICK a \in 1 .. n : p \in m[a].of  BY <1>5
    <3>2. PICK k \in 1 .. n - t + 4 : a \in src(k)  BY <1>8
    <3> QED  BY <1>6, <3>1, <3>2
  <2> QED  BY <2>1, <2>2
<1>11. Len(c) > 1 /\ c[1].role = "system" /\ c[2].role = "user" /\ \A i \in 1 .. 2 : c[i].of = {i}
  <2>1. Len(c) > 1 /\ \A i \in 1 .. 2 : i = 1 \/ i = 2
    BY <1>2, <1>3
  <2> QED  BY <1>3, <2>1 DEF StandsFor
<1>12. StandsFor(c, P)
  BY <1>3, <1>9, <1>10, <1>11 DEF StandsFor
<1>13. c # << >>
  BY <1>2, <1>3
<1> QED  BY <1>3, <1>12, <1>13 DEF c

(* A result in the tail still answers a message of the tail: between a call *)
(* and its results there are only results, and the tail begins with none.   *)
LEMMA FoldKeepsAnswers ==
  ASSUME NEW m \in Seq(Messages), NEW P, StandsFor(m, P), Foldable(m), ResultsFollowCalls(m)
  PROVE  ResultsFollowCalls(Compressed(m))
<1> DEFINE c == Compressed(m)
           t == TailStart(m)
           n == Len(m)
<1>1. Folded(c, m, t)
  BY FoldFacts
<1> HIDE DEF c, t
<1>2. DOMAIN m = 1 .. n /\ n \in Nat /\ n > 1
  BY MessageFacts DEF StandsFor
<1> HIDE DEF n
<1>3. /\ t \in 5 .. n + 1 /\ (t \in DOMAIN m => m[t].role # "tool")
      /\ DOMAIN c = 1 .. n - t + 4
      /\ c[1] = m[1] /\ c[2] = m[2] /\ c[3].role = "assistant"
      /\ \A i \in 4 .. n - t + 4 : c[i] = m[i + t - 4]
  BY <1>1 DEF Folded, n
<1> SUFFICES ASSUME NEW i \in 1 .. n - t + 4, c[i].role = "tool"
             PROVE  Answers(c, i)
  BY <1>3 DEF ResultsFollowCalls, c
<1>4. i \in 4 .. n - t + 4
  <2>1. i # 1 /\ i # 2 /\ i # 3
    BY <1>3 DEF StandsFor
  <2> QED  BY <1>2, <1>3, <2>1
<1> DEFINE p == i + t - 4
<1>5. p \in t .. n /\ c[i] = m[p] /\ p \in 1 .. n
  BY <1>2, <1>3, <1>4
<1>6. p > t
  BY <1>2, <1>3, <1>5
<1> HIDE DEF p
<1>7. PICK j \in 1 .. p - 1 : /\ m[j].role = "assistant" /\ m[p].call \in 1 .. m[j].calls
                              /\ \A k \in j + 1 .. p - 1 : m[k].role = "tool"
  BY <1>2, <1>5 DEF ResultsFollowCalls, Answers
<1>8. j >= t
  <2> SUFFICES ASSUME j < t PROVE FALSE
    BY <1>2, <1>3, <1>5
  <2>1. t \in j + 1 .. p - 1
    BY <1>2, <1>3, <1>5, <1>6
  <2> QED  BY <1>2, <1>3, <1>5, <1>7, <2>1
<1>9. /\ j - t + 4 \in 1 .. i - 1 /\ j - t + 4 \in 4 .. n - t + 4
      /\ (j - t + 4) + t - 4 = j
  BY <1>2, <1>3, <1>4, <1>5, <1>8 DEF p
<1>10. c[j - t + 4] = m[j]
  BY <1>3, <1>9
<1>11. \A k \in (j - t + 4) + 1 .. i - 1 : c[k].role = "tool"
  <2> SUFFICES ASSUME NEW k \in (j - t + 4) + 1 .. i - 1 PROVE c[k].role = "tool"
    OBVIOUS
  <2>1. k \in 4 .. n - t + 4 /\ k + t - 4 \in j + 1 .. p - 1
    BY <1>2, <1>3, <1>4, <1>5, <1>8 DEF p
  <2> QED  BY <1>3, <1>7, <2>1
<1> QED  BY <1>5, <1>7, <1>9, <1>10, <1>11 DEF Answers

-----------------------------------------------------------------------------
(* The same, as what keeps a list sound.                                    *)
(* A message said next adds its place to what the list stands for.          *)
LEMMA SoundSaid ==
  ASSUME NEW m, NEW n \in Nat, NEW P \in SUBSET (1 .. n), Sound(m, P), m # << >>,
         NEW role \in {"system", "user", "assistant", "tool"},
         NEW calls \in 0 .. MaxCalls, NEW call \in 0 .. MaxCalls,
         PatchesLast /\ role = "tool" => \E k \in Nat : Open(m, k) /\ call \in 1 .. k
  PROVE  /\ Sound(Say(m, n + 1, role, calls, call), P \cup {n + 1})
         /\ Say(m, n + 1, role, calls, call) # << >>
<1> DEFINE s == Say(m, n + 1, role, calls, call)
<1>1. m \in Seq(Messages) /\ StandsFor(m, P) /\ n + 1 \in Nat
  BY DEF Sound
<1>2. s # << >> /\ StandsFor(s, P \cup {n + 1})
  BY <1>1, SayKeepsWhole
<1>3. Said(s, m, n + 1, role, calls, call)
  BY <1>1, SayFacts
<1>4. PatchesLast => ResultsFollowCalls(s)
  <2> SUFFICES ASSUME PatchesLast PROVE ResultsFollowCalls(s)
    OBVIOUS
  <2>1. ResultsFollowCalls(m)
    BY DEF Sound
  <2> QED  BY <1>1, <2>1, SayKeepsAnswers
<1> HIDE DEF s
<1>5. s \in Seq(Messages)
  BY <1>3 DEF Said
<1>6. Sound(s, P \cup {n + 1}) /\ s # << >>
  BY <1>2, <1>4, <1>5 DEF Sound
<1> QED  BY <1>6 DEF s

LEMMA NoCalls == 0 \in 0 .. MaxCalls
  BY CallAssumption

LEMMA SoundUser ==
  ASSUME NEW m, NEW n \in Nat, NEW P \in SUBSET (1 .. n), Sound(m, P), m # << >>
  PROVE  Sound(User(m, n + 1), P \cup {n + 1}) /\ User(m, n + 1) # << >>
<1>1. /\ Sound(Say(m, n + 1, "user", 0, 0), P \cup {n + 1})
      /\ Say(m, n + 1, "user", 0, 0) # << >>
  BY NoCalls, SoundSaid
<1> QED  BY <1>1 DEF User

LEMMA SoundAssistant ==
  ASSUME NEW m, NEW n \in Nat, NEW P \in SUBSET (1 .. n), Sound(m, P), m # << >>,
         NEW k \in 0 .. MaxCalls
  PROVE  Sound(Assistant(m, n + 1, k), P \cup {n + 1}) /\ Assistant(m, n + 1, k) # << >>
<1>1. /\ Sound(Say(m, n + 1, "assistant", k, 0), P \cup {n + 1})
      /\ Say(m, n + 1, "assistant", k, 0) # << >>
  BY NoCalls, SoundSaid
<1> QED  BY <1>1 DEF Assistant

LEMMA SoundResult ==
  ASSUME NEW m, NEW n \in Nat, NEW P \in SUBSET (1 .. n), Sound(m, P), m # << >>,
         NEW call \in 0 .. MaxCalls,
         PatchesLast => \E k \in Nat : Open(m, k) /\ call \in 1 .. k
  PROVE  Sound(ToolResult(m, n + 1, call), P \cup {n + 1}) /\ ToolResult(m, n + 1, call) # << >>
<1>1. /\ Sound(Say(m, n + 1, "tool", 0, call), P \cup {n + 1})
      /\ Say(m, n + 1, "tool", 0, call) # << >>
  BY NoCalls, SoundSaid
<1> QED  BY <1>1 DEF ToolResult

LEMMA SoundCompressed ==
  ASSUME NEW m, NEW P, Sound(m, P), m # << >>, Foldable(m)
  PROVE  Sound(Compressed(m), P) /\ Compressed(m) # << >>
<1>1. m \in Seq(Messages) /\ StandsFor(m, P)
  BY DEF Sound
<1>2. /\ Compressed(m) \in Seq(Messages) /\ Compressed(m) # << >>
      /\ StandsFor(Compressed(m), P)
  BY <1>1, FoldKeepsWhole
<1>3. PatchesLast => ResultsFollowCalls(Compressed(m))
  BY <1>1, FoldKeepsAnswers DEF Sound
<1> QED  BY <1>2, <1>3 DEF Sound

LEMMA SoundEmpty ==
  ASSUME NEW P PROVE Sound(<< >>, P)
  BY DEF Sound, ResultsFollowCalls

(* The system prompt and the task.                                          *)
LEMMA SoundTask == Sound(User(System, 2), 1 .. 2) /\ User(System, 2) # << >>
<1> DEFINE m == User(System, 2)
<1>1. << >> \in Seq(Messages) /\ Len(<< >>) = 0
  OBVIOUS
<1>2. Said(System, << >>, 1, "system", 0, 0)
  <2>1. 1 \in Nat
    OBVIOUS
  <2>2. Said(Say(<< >>, 1, "system", 0, 0), << >>, 1, "system", 0, 0)
    BY <1>1, <2>1, NoCalls, SayFacts
  <2> QED  BY <2>2 DEF System
<1>3. System \in Seq(Messages) /\ Len(System) = 1 /\ System[1].role = "system" /\ System[1].of = {1}
  BY <1>1, <1>2 DEF Said
<1>4. Said(m, System, 2, "user", 0, 0)
  BY <1>3, NoCalls, SayFacts DEF User
<1> HIDE DEF m
<1>5. /\ m \in Seq(Messages) /\ Len(m) = 2 /\ DOMAIN m = 1 .. 2
      /\ m[1].role = "system" /\ m[1].of = {1}
      /\ m[2].role = "user" /\ m[2].of = {2}
  <2>1. Len(System) + 1 = 2 /\ 1 \in 1 .. Len(System)
    BY <1>3
  <2> QED  BY <1>3, <1>4, <2>1 DEF Said
<1>6. \A i \in 1 .. 2 : i = 1 \/ i = 2
  OBVIOUS
<1>7. InOrder(m)
  <2> SUFFICES ASSUME NEW i \in 1 .. 2, NEW j \in 1 .. 2, i < j, NEW p \in m[i].of, NEW q \in m[j].of
               PROVE  p < q
    BY <1>5 DEF InOrder
  <2>1. i = 1 /\ j = 2
    OBVIOUS
  <2> QED  BY <1>5, <2>1
<1>8. UNION {m[i].of : i \in 1 .. 2} = 1 .. 2
  <2>1. \A i \in 1 .. 2 : m[i].of = {i}
    BY <1>5, <1>6
  <2> QED  BY <2>1
<1>9. StandsFor(m, 1 .. 2)
  <2>1. \A i \in 1 .. 2 : m[i].of = {i}
    BY <1>5, <1>6
  <2> QED  BY <1>5, <1>7, <1>8, <2>1 DEF StandsFor
<1>10. ResultsFollowCalls(m)
  BY <1>5, <1>6 DEF ResultsFollowCalls
<1>11. m # << >>
  BY <1>5
<1> QED  BY <1>5, <1>9, <1>10, <1>11 DEF Sound, m

-----------------------------------------------------------------------------
(* The request in flight stays one, with an attempt left while it backs off. *)
LEMMA RequestTyped ==
  ASSUME HttpOK, ServerStep \/ ClientStep \/ StreamStops
  PROVE  HttpOK' /\ UNCHANGED aborted
<1>1. /\ http \in HttpStates
      /\ http.phase \in HttpPhases /\ http.attempt \in 0 .. MaxAttempts
      /\ http.calls \in 0 .. MaxCalls
      /\ MaxAttempts \in Nat /\ MaxCalls \in Nat
  BY CallAssumption DEF HttpOK, HttpStates
<1>2. ASSUME NEW p \in HttpPhases, At(p), p = "backoff" => http.attempt # MaxAttempts
      PROVE  HttpOK'
  <2>1. /\ http' \in HttpStates /\ http'.phase = p /\ http'.attempt = http.attempt
    BY <1>1, <1>2 DEF At, HttpStates
  <2> QED  BY <1>1, <1>2, <2>1 DEF HttpOK
<1>3. CASE HeadersArrive  BY <1>2, <1>3 DEF HeadersArrive, HttpPhases
<1>4. ASSUME NEW r \in BOOLEAN, Refused(r) PROVE HttpOK' /\ UNCHANGED aborted
  BY <1>2, <1>4 DEF Refused, HttpPhases
<1>5. ASSUME AttemptFailed PROVE HttpOK'
  <2>1. CASE aborted \/ http.attempt = MaxAttempts
    BY <1>2, <1>5, <2>1 DEF AttemptFailed, HttpPhases
  <2>2. CASE ~(aborted \/ http.attempt = MaxAttempts)
    BY <1>2, <1>5, <2>2 DEF AttemptFailed, HttpPhases
  <2> QED  BY <2>1, <2>2
<1>6. CASE ToolCallStarts
  <2>1. /\ http' \in HttpStates /\ http'.phase = "streaming"
    BY <1>1, <1>6 DEF ToolCallStarts, HttpStates
  <2> QED  BY <1>6, <2>1 DEF HttpOK, ToolCallStarts
<1>7. CASE TimerFires \/ Drained \/ ConnectionFails
  BY <1>5, <1>7 DEF TimerFires, Drained, ConnectionFails
<1>8. CASE AbortFetch  BY <1>2, <1>8 DEF AbortFetch, HttpPhases
<1>9. CASE BackoffEnds
  <2>1. http.attempt + 1 \in 0 .. MaxAttempts
    BY <1>1, <1>9 DEF BackoffEnds, HttpOK
  <2>2. http' = [phase |-> "connecting", attempt |-> http.attempt + 1, calls |-> 0]
    BY <1>9 DEF BackoffEnds, Attempt
  <2>3. http' \in HttpStates /\ http'.phase = "connecting"
    BY <1>1, <2>1, <2>2 DEF HttpStates, HttpPhases
  <2> QED  BY <1>9, <2>3 DEF HttpOK, BackoffEnds
<1>10. CASE StreamEnds  BY <1>2, <1>10 DEF StreamEnds, HttpPhases
<1>11. CASE StreamFails  BY <1>2, <1>11 DEF StreamFails, HttpPhases
<1> QED
  BY <1>3, <1>4, <1>6, <1>7, <1>8, <1>9, <1>10, <1>11
  DEF ServerStep, ClientStep, StreamStops

LEMMA FreshRequest ==
  ASSUME NEW h, \/ h = NoRequest
                \/ h = [phase |-> IF aborted THEN "error" ELSE "connecting", attempt |-> 1, calls |-> 0]
  PROVE  h \in HttpStates /\ h.phase # "backoff"
  BY CallAssumption DEF NoRequest, HttpStates, HttpPhases

-----------------------------------------------------------------------------
(* Places.                                                                  *)
LEMMA Numbers ==
  ASSUME IInv
  PROVE  /\ said \in Nat /\ began \in Nat /\ began <= said /\ Opening \in {1, 2}
         /\ lost \subseteq 1 .. said /\ Owed \in SUBSET (1 .. said)
  BY DEF IInv, TypeOK, Opening, Owed

(* What a step says is owed as well; nothing else changes.                  *)
LEMMA SaysOwes ==
  ASSUME IInv, NEW n \in Nat, Says(n)
  PROVE  /\ said' = said + n /\ said' \in Nat /\ lost' = lost /\ lost \subseteq 1 .. said'
         /\ n = 0 => Owed' = Owed
         /\ n = 1 => Owed' = Owed \cup {said + 1}
         /\ n = 2 => Owed' = (Owed \cup {said + 1}) \cup {said + 2}
<1>1. said \in Nat /\ lost \subseteq 1 .. said
  BY Numbers
<1>2. said' = said + n /\ lost' = lost
  BY DEF Says
<1>3. \A p \in lost : p <= said
  BY <1>1
<1>4. n = 0 => Owed' = Owed
  BY <1>1, <1>2 DEF Owed
<1>5. ASSUME n = 1 PROVE Owed' = Owed \cup {said + 1}
  <2>1. 1 .. said' = (1 .. said) \cup {said + 1} /\ said + 1 \notin lost
    BY <1>1, <1>2, <1>3, <1>5
  <2> QED  BY <1>2, <2>1 DEF Owed
<1>6. ASSUME n = 2 PROVE Owed' = (Owed \cup {said + 1}) \cup {said + 2}
  <2>1. /\ 1 .. said' = ((1 .. said) \cup {said + 1}) \cup {said + 2}
        /\ said + 1 \notin lost /\ said + 2 \notin lost
    BY <1>1, <1>2, <1>3, <1>6
  <2> QED  BY <1>2, <2>1 DEF Owed
<1>7. said' \in Nat /\ lost \subseteq 1 .. said'
  BY <1>1, <1>2
<1> QED  BY <1>2, <1>4, <1>5, <1>6, <1>7

-----------------------------------------------------------------------------
(* What a handler leaves behind, from the pieces it is built from.          *)
LEMMA FinishKeeps ==
  ASSUME IInv, NEW m, Finish(m), loop # "idle",
         said' \in Nat, lost' \subseteq 1 .. said', Sound(m, Owed')
  PROVE  IInv'
<1>1. m \in Seq(Messages)
  BY DEF Sound
<1>2. HttpOK'
  <2>1. http' = NoRequest  BY DEF Finish, Gone
  <2> QED  BY <2>1, FreshRequest DEF HttpOK
<1>3. TypeOK'
  <2>1. << >> \in Seq(Messages)
    OBVIOUS
  <2>2. [calls |-> 0, at |-> 0] \in [calls : 0 .. MaxCalls, at : 0 .. MaxCalls]
    BY CallAssumption
  <2>3. 0 \in 0 .. MaxTurns /\ 0 \in 0 .. MaxRepairs + 1
    BY ContextAssumption
  <2>4. \A s \in {conv', saved', entry'} : s \in Seq(Messages)
    <3> HIDE DEF Messages
    <3> QED  BY <1>1, <2>1 DEF Finish, Gone
  <2>5. /\ aborted' \in BOOLEAN /\ http' \in HttpStates /\ loop' \in LoopStates
        /\ loops' \in 0 .. MaxLoops
    BY <1>2 DEF IInv, TypeOK, Finish, Gone, HttpOK, LoopStates
  <2>6. /\ turn' \in [calls : 0 .. MaxCalls, at : 0 .. MaxCalls]
        /\ turns' \in 0 .. MaxTurns /\ repairs' \in 0 .. MaxRepairs + 1
    BY <2>2, <2>3 DEF Finish, Gone
  <2>7. began' \in 0 .. said'
    BY DEF Finish, Gone
  <2> QED  BY <2>4, <2>5, <2>6, <2>7 DEF TypeOK
<1>4. loop' = "idle" /\ loops' # 0 /\ saved' = m
  BY DEF Finish, Gone, IInv
<1> QED  BY <1>2, <1>3, <1>4 DEF IInv

(* A loop that goes on: its list has what was said.                         *)
LEMMA LoopGoesOn ==
  ASSUME IInv, loop # "idle", NEW m, m # << >>, Sound(m, Owed'), conv' = m,
         said' \in Nat, said <= said', UNCHANGED <<lost, saved, entry, began, loops>>
  PROVE  /\ LoopOK' /\ loops' # 0
         /\ conv' \in Seq(Messages) /\ saved' \in Seq(Messages) /\ entry' \in Seq(Messages)
         /\ began' \in 0 .. said' /\ lost' \subseteq 1 .. said' /\ loops' \in 0 .. MaxLoops
<1>1. /\ LoopOK /\ said \in Nat /\ began \in Nat /\ began <= said /\ Opening \in {1, 2}
      /\ lost \subseteq 1 .. said /\ loops # 0 /\ loops \in 0 .. MaxLoops
  BY Numbers DEF IInv, TypeOK
<1>2. Opening' = Opening /\ Entered' = Entered /\ Loaded' = Loaded
  BY DEF Opening, Entered, Loaded
<1>3. /\ began' + Opening' <= said' /\ lost' \subseteq 1 .. began'
      /\ began' \in 0 .. said' /\ lost' \subseteq 1 .. said'
  BY <1>1, <1>2 DEF LoopOK
<1>4. LoopOK'
  BY <1>1, <1>2, <1>3 DEF LoopOK
<1>5. m \in Seq(Messages) /\ saved \in Seq(Messages) /\ entry \in Seq(Messages)
  BY <1>1 DEF LoopOK, Sound
<1> QED  BY <1>1, <1>3, <1>4, <1>5

LEMMA RequestKeeps ==
  ASSUME IInv, NEW m, Sound(m, Owed'), m # << >>, loop # "idle", Request(m),
         said' \in Nat, said <= said', UNCHANGED lost,
         turn' \in [calls : 0 .. MaxCalls, at : 0 .. MaxCalls],
         turns' \in 0 .. MaxTurns, repairs' \in 0 .. MaxRepairs + 1
  PROVE  IInv'
<1>1. /\ loop' = "model" /\ conv' = m /\ UNCHANGED <<aborted, lost, saved, entry, began, loops>>
  BY DEF Request
<1>2. HttpOK'
  BY FreshRequest DEF HttpOK, Request, Attempt
<1>3. /\ LoopOK' /\ loops' # 0
      /\ conv' \in Seq(Messages) /\ saved' \in Seq(Messages) /\ entry' \in Seq(Messages)
      /\ began' \in 0 .. said' /\ lost' \subseteq 1 .. said' /\ loops' \in 0 .. MaxLoops
  BY <1>1, LoopGoesOn
<1>4. TypeOK'
  BY <1>1, <1>2, <1>3 DEF IInv, TypeOK, HttpOK, LoopStates
<1> QED  BY <1>1, <1>2, <1>3, <1>4 DEF IInv

LEMMA LoopTopKeeps ==
  ASSUME IInv, NEW m, Sound(m, Owed'), m # << >>, loop # "idle",
         said' \in Nat, said <= said', UNCHANGED lost, lost \subseteq 1 .. said',
         NEW r \in 0 .. MaxRepairs + 1, LoopTop(m, r)
  PROVE  IInv'
<1>1. CASE Finish(m)
  BY <1>1, FinishKeeps
<1>2. CASE /\ ~aborted /\ turns < MaxTurns
           /\ turns' = turns + 1 /\ repairs' = r
           /\ turn' = [calls |-> 0, at |-> 0]
           /\ \/ Request(m)
              \/ /\ Foldable(m)
                 /\ loop' = "summary" /\ conv' = m
                 /\ UNCHANGED <<aborted, http, saved, entry, loops, began>>
  <2>1. /\ turn' \in [calls : 0 .. MaxCalls, at : 0 .. MaxCalls]
        /\ turns' \in 0 .. MaxTurns /\ repairs' \in 0 .. MaxRepairs + 1
    BY <1>2, CallAssumption, ContextAssumption DEF IInv, TypeOK
  <2>2. CASE Request(m)
    BY <2>1, <2>2, RequestKeeps
  <2>3. CASE /\ Foldable(m)
             /\ loop' = "summary" /\ conv' = m
             /\ UNCHANGED <<aborted, http, saved, entry, loops, began>>
    <3>1. /\ LoopOK' /\ loops' # 0
          /\ conv' \in Seq(Messages) /\ saved' \in Seq(Messages) /\ entry' \in Seq(Messages)
          /\ began' \in 0 .. said' /\ lost' \subseteq 1 .. said' /\ loops' \in 0 .. MaxLoops
      BY <2>3, LoopGoesOn
    <3>2. TypeOK'
      BY <2>1, <2>3, <3>1 DEF IInv, TypeOK, LoopStates
    <3>3. HttpOK' /\ Foldable(conv')
      BY <2>3 DEF IInv, HttpOK
    <3> QED  BY <2>3, <3>1, <3>2, <3>3 DEF IInv
  <2> QED  BY <1>2, <2>2, <2>3
<1> QED  BY <1>1, <1>2 DEF LoopTop

LEMMA NextCallKeeps ==
  ASSUME IInv, NEW m, Sound(m, Owed'), m # << >>, loop # "idle",
         said' \in Nat, said <= said', UNCHANGED lost, lost \subseteq 1 .. said',
         NEW n \in 0 .. MaxCalls, NEW k \in 1 .. n, PatchesLast => Open(m, n),
         NEW r \in 0 .. MaxRepairs + 1, NextCall(m, n, k, r), UNCHANGED turns \/ aborted
  PROVE  IInv'
<1>1. CASE aborted
  BY <1>1, FinishKeeps DEF NextCall
<1>2. CASE ~aborted
  <2>1. /\ loop' \in {"approval", "tool"} /\ conv' = m
        /\ turn' = [calls |-> n, at |-> k] /\ repairs' = r
        /\ http' = NoRequest
        /\ UNCHANGED <<aborted, saved, entry, turns, loops, began>>
    BY <1>2 DEF NextCall
  <2>2. HttpOK'
    BY <2>1, FreshRequest DEF HttpOK
  <2>3. /\ LoopOK' /\ loops' # 0
        /\ conv' \in Seq(Messages) /\ saved' \in Seq(Messages) /\ entry' \in Seq(Messages)
        /\ began' \in 0 .. said' /\ lost' \subseteq 1 .. said' /\ loops' \in 0 .. MaxLoops
    BY <2>1, LoopGoesOn
  <2>4. turn' \in [calls : 0 .. MaxCalls, at : 0 .. MaxCalls] /\ turn'.at \in 1 .. turn'.calls
    BY <2>1, CallAssumption
  <2>5. TypeOK'
    BY <2>1, <2>2, <2>3, <2>4 DEF IInv, TypeOK, HttpOK, LoopStates
  <2>6. PatchesLast => Open(conv', turn'.calls)
    BY <2>1
  <2> QED  BY <2>1, <2>2, <2>3, <2>4, <2>5, <2>6 DEF IInv
<1> QED  BY <1>1, <1>2

LEMMA AfterCallKeeps ==
  ASSUME IInv, NEW m, Sound(m, Owed'), m # << >>, loop \in {"tool", "verify"},
         said' \in Nat, said <= said', UNCHANGED lost, lost \subseteq 1 .. said',
         PatchesLast /\ turn.at # turn.calls => Open(m, turn.calls),
         NEW r \in 0 .. MaxRepairs + 1, AfterCall(m, r)
  PROVE  IInv'
<1>1. CASE turn.at = turn.calls
  BY <1>1, LoopTopKeeps DEF AfterCall
<1>2. CASE turn.at # turn.calls
  <2>1. turn.calls \in 0 .. MaxCalls /\ turn.at \in 1 .. turn.calls /\ MaxCalls \in Nat
    BY CallAssumption DEF IInv, TypeOK
  <2>2. turn.at + 1 \in 1 .. turn.calls
    BY <1>2, <2>1
  <2>3. NextCall(m, turn.calls, turn.at + 1, r)
    BY <1>2 DEF AfterCall
  <2>4. UNCHANGED turns \/ aborted
    BY <2>3 DEF NextCall
  <2> QED  BY <1>2, <2>1, <2>2, <2>3, <2>4, NextCallKeeps
<1> QED  BY <1>1, <1>2

(* A step that leaves the messages and the transcript alone.                *)
LEMMA StillOwed ==
  ASSUME IInv, UNCHANGED <<conv, saved, entry, loops, began, said, lost>>
  PROVE  /\ loop # "idle" => LoopOK'
         /\ loop = "idle" => Sound(saved', Owed')
         /\ conv' \in Seq(Messages) /\ saved' \in Seq(Messages) /\ entry' \in Seq(Messages)
<1>1. Opening' = Opening /\ Entered' = Entered /\ Loaded' = Loaded /\ Owed' = Owed
  BY DEF Opening, Entered, Loaded, Owed
<1>2. (loop # "idle" => LoopOK) /\ (loop = "idle" => Sound(saved, Owed))
  BY DEF IInv
<1>3. conv \in Seq(Messages) /\ saved \in Seq(Messages) /\ entry \in Seq(Messages)
  BY DEF IInv, TypeOK
<1> QED  BY <1>1, <1>2, <1>3 DEF LoopOK

-----------------------------------------------------------------------------
(* Every list a loop handles is sound.                                      *)
LEMMA InitHolds == Init => IInv
<1> SUFFICES ASSUME Init PROVE IInv
  OBVIOUS
<1>1. HttpOK
  BY FreshRequest DEF Init, HttpOK
<1>2. TypeOK
  <2>1. << >> \in Seq(Messages)
    OBVIOUS
  <2>2. turn \in [calls : 0 .. MaxCalls, at : 0 .. MaxCalls]
    BY CallAssumption DEF Init
  <2>3. turns \in 0 .. MaxTurns /\ repairs \in 0 .. MaxRepairs + 1 /\ loops \in 0 .. MaxLoops
    BY ContextAssumption DEF Init
  <2>4. \A s \in {conv, saved, entry} : s \in Seq(Messages)
    BY <2>1 DEF Init
  <2>5. said \in Nat /\ began \in 0 .. said /\ lost \subseteq 1 .. said
    BY DEF Init
  <2> QED  BY <1>1, <2>2, <2>3, <2>4, <2>5 DEF TypeOK, Init, HttpOK, LoopStates
<1> QED  BY <1>1, <1>2, SoundEmpty DEF Init, IInv

(* A loop is entered with what is owed, its opening included.               *)
LEMMA EnterKeeps ==
  ASSUME IInv, NEW m, Sound(m, Owed'), m # << >>, Enter(m), Says(IF said = 0 THEN 2 ELSE 1)
  PROVE  IInv'
<1>1. m \in Seq(Messages)
  BY DEF Sound
<1>2. /\ loop = "idle" /\ loop' = "baseline" /\ conv' = m /\ entry' = m /\ began' = said
      /\ loops' = loops + 1 /\ loops < MaxLoops
      /\ UNCHANGED <<aborted, http, saved, turn, turns, repairs>>
  BY DEF Enter
<1>3. said \in Nat /\ lost \subseteq 1 .. said
  BY Numbers
<1>4. /\ said' = said + (IF said = 0 THEN 2 ELSE 1) /\ lost' = lost
      /\ said' \in Nat /\ said <= said' /\ began' + Opening' = said'
      /\ lost' \subseteq 1 .. said'
  BY <1>2, <1>3 DEF Says, Opening
<1>5. loops' \in 0 .. MaxLoops /\ loops' # 0
  BY <1>2, ContextAssumption DEF IInv, TypeOK
<1>6. TypeOK'
  <2>1. \A s \in {conv', saved', entry'} : s \in Seq(Messages)
    BY <1>1, <1>2 DEF IInv, TypeOK
  <2>2. began' \in 0 .. said'
    BY <1>2, <1>3, <1>4
  <2> QED  BY <1>2, <1>4, <1>5, <2>1, <2>2 DEF IInv, TypeOK, LoopStates
<1>7. LoopOK'
  <2>1. Entered' = Owed'
    BY <1>4 DEF Entered, Owed
  <2>2. Loaded' = Owed
    BY <1>2, <1>4 DEF Loaded, Owed
  <2>3. Sound(saved', Loaded')
    BY <1>2, <2>2 DEF IInv
  <2>4. lost' \subseteq 1 .. began' /\ began' + Opening' <= said'
    BY <1>2, <1>3, <1>4
  <2> QED  BY <1>2, <2>1, <2>3, <2>4 DEF LoopOK
<1>8. HttpOK'
  BY <1>2 DEF IInv, HttpOK
<1> QED  BY <1>2, <1>5, <1>6, <1>7, <1>8 DEF IInv

(* A loop that throws keeps its opening, one that dies what was loaded.     *)
LEMMA ThrowKeeps == IInv /\ LoopThrows => IInv'
<1> SUFFICES ASSUME IInv, LoopThrows PROVE IInv'
  OBVIOUS
<1>1. /\ loop # "idle" /\ said' \in {said, said + 1} /\ Finish(entry)
      /\ lost' = lost \cup (began + Opening + 1 .. said')
  BY DEF LoopThrows
<1>2. /\ said \in Nat /\ began \in Nat /\ Opening \in {1, 2}
      /\ began + Opening <= said /\ lost \subseteq 1 .. began /\ Sound(entry, Entered)
  BY <1>1, Numbers DEF IInv, LoopOK
<1>3. said' \in Nat /\ lost' \subseteq 1 .. said' /\ began + Opening <= said'
  BY <1>1, <1>2
<1>4. Owed' = Entered
  BY <1>1, <1>2, <1>3 DEF Owed, Entered
<1> QED  BY <1>1, <1>2, <1>3, <1>4, FinishKeeps

LEMMA CrashKeeps == IInv /\ Crash => IInv'
<1> SUFFICES ASSUME IInv, Crash PROVE IInv'
  OBVIOUS
<1>1. /\ loop # "idle" /\ said' = said /\ lost' = lost \cup (began + 1 .. said)
      /\ Finish(saved)
  BY DEF Crash, Finish
<1>2. /\ said \in Nat /\ began \in Nat /\ began <= said
      /\ lost \subseteq 1 .. began /\ Sound(saved, Loaded)
  BY <1>1, Numbers DEF IInv, LoopOK
<1>3. said' \in Nat /\ lost' \subseteq 1 .. said'
  BY <1>1, <1>2
<1>4. Owed' = Loaded
  BY <1>1, <1>2 DEF Owed, Loaded
<1> QED  BY <1>1, <1>2, <1>3, <1>4, FinishKeeps

LEMMA ToolReturnsKeeps == IInv /\ ToolReturns => IInv'
<1> SUFFICES ASSUME IInv, ToolReturns PROVE IInv'
  OBVIOUS
<1>1. PICK patch \in BOOLEAN :
       LET m == ToolResult(conv, said + 1, turn.at)
           r == IF patch THEN repairs + 1 ELSE 0
       IN /\ patch /\ PatchesLast => turn.at = turn.calls
          /\ Says(IF r = MaxRepairs + 1 THEN 2 ELSE 1)
          /\ IF ~patch THEN AfterCall(m, r)
             ELSE IF r > MaxRepairs
             THEN LET told == IF r = MaxRepairs + 1 THEN User(m, said + 2) ELSE m
                  IN IF aborted THEN Finish(told)
                     ELSE AfterCall(told, MaxRepairs + 1)
             ELSE /\ loop' = "verify" /\ conv' = m /\ repairs' = r
                  /\ UNCHANGED <<aborted, http, saved, entry, turn, turns, loops, began>>
  BY DEF ToolReturns
<1> DEFINE m == ToolResult(conv, said + 1, turn.at)
           P == Owed \cup {said + 1}
<1>2. /\ loop = "tool" /\ conv # << >> /\ Sound(conv, Owed) /\ conv \in Seq(Messages)
      /\ turn.at \in 1 .. turn.calls /\ turn.calls \in 0 .. MaxCalls /\ turn.at \in 0 .. MaxCalls
      /\ turn.calls \in Nat
      /\ repairs \in 0 .. MaxRepairs + 1 /\ MaxRepairs \in Nat
      /\ (PatchesLast => Open(conv, turn.calls))
  BY CallAssumption, ContextAssumption DEF ToolReturns, IInv, LoopOK, TypeOK, Sound
<1>3. said \in Nat /\ Owed \in SUBSET (1 .. said)
  BY Numbers
<1>4. Sound(m, P) /\ m # << >>
  BY <1>2, <1>3, SoundResult
<1>5. PatchesLast => Open(m, turn.calls)
  BY <1>2, <1>3, OpenStays
<1>6. ASSUME Says(1) PROVE /\ said' \in Nat /\ said <= said' /\ UNCHANGED lost
                          /\ lost \subseteq 1 .. said' /\ Owed' = P
  BY <1>3, <1>6, SaysOwes
<1> HIDE DEF m
<1>7. CASE ~patch
  <2>1. Says(1) /\ AfterCall(m, 0) /\ 0 \in 0 .. MaxRepairs + 1
    BY <1>1, <1>2, <1>7 DEF m
  <2> QED  BY <1>2, <1>4, <1>5, <1>6, <2>1, AfterCallKeeps
<1>8. CASE patch /\ repairs + 1 = MaxRepairs + 1
  <2> DEFINE told == User(m, said + 2)
  <2>1. /\ Says(2) /\ (IF aborted THEN Finish(told) ELSE AfterCall(told, MaxRepairs + 1))
        /\ (PatchesLast => turn.at = turn.calls)
    BY <1>1, <1>2, <1>8 DEF m
  <2>2. /\ said' \in Nat /\ said <= said' /\ UNCHANGED lost
        /\ lost \subseteq 1 .. said' /\ Owed' = P \cup {said + 2}
    BY <1>3, <2>1, SaysOwes
  <2>3. Sound(told, Owed') /\ told # << >>
    <3>1. said + 1 \in Nat /\ P \in SUBSET (1 .. said + 1) /\ (said + 1) + 1 = said + 2
      BY <1>3
    <3> HIDE DEF P
    <3>2. Sound(User(m, (said + 1) + 1), P \cup {(said + 1) + 1}) /\ User(m, (said + 1) + 1) # << >>
      BY <1>4, <3>1, SoundUser
    <3> QED  BY <2>2, <3>1, <3>2
  <2> HIDE DEF told
  <2>4. CASE aborted
    BY <1>2, <2>1, <2>2, <2>3, <2>4, FinishKeeps
  <2>5. CASE ~aborted
    <3>1. MaxRepairs + 1 \in 0 .. MaxRepairs + 1
      BY <1>2
    <3> QED  BY <1>2, <2>1, <2>2, <2>3, <2>5, <3>1, AfterCallKeeps
  <2> QED  BY <2>4, <2>5
<1>9. CASE patch /\ repairs + 1 > MaxRepairs + 1
  <2>1. /\ Says(1) /\ (IF aborted THEN Finish(m) ELSE AfterCall(m, MaxRepairs + 1))
        /\ (PatchesLast => turn.at = turn.calls)
    BY <1>1, <1>2, <1>9 DEF m
  <2>2. CASE aborted
    BY <1>2, <1>4, <1>6, <2>1, <2>2, FinishKeeps
  <2>3. CASE ~aborted
    <3>1. MaxRepairs + 1 \in 0 .. MaxRepairs + 1
      BY <1>2
    <3> QED  BY <1>2, <1>4, <1>6, <2>1, <2>3, <3>1, AfterCallKeeps
  <2> QED  BY <2>2, <2>3
<1>10. CASE patch /\ ~(repairs + 1 > MaxRepairs)
  <2>1. /\ loop' = "verify" /\ conv' = m /\ repairs' = repairs + 1 /\ Says(1)
        /\ UNCHANGED <<aborted, http, saved, entry, turn, turns, loops, began>>
        /\ (PatchesLast => turn.at = turn.calls)
    BY <1>1, <1>2, <1>10 DEF m
  <2>2. repairs' \in 0 .. MaxRepairs + 1
    BY <1>2, <1>10, <2>1
  <2>3. /\ LoopOK' /\ loops' # 0
        /\ conv' \in Seq(Messages) /\ saved' \in Seq(Messages) /\ entry' \in Seq(Messages)
        /\ began' \in 0 .. said' /\ lost' \subseteq 1 .. said' /\ loops' \in 0 .. MaxLoops
    BY <1>2, <1>4, <1>6, <2>1, LoopGoesOn
  <2>4. TypeOK'
    BY <1>6, <2>1, <2>2, <2>3 DEF IInv, TypeOK, LoopStates
  <2>5. HttpOK'
    BY <2>1 DEF IInv, HttpOK
  <2> QED  BY <1>2, <2>1, <2>3, <2>4, <2>5 DEF IInv
<1> QED  BY <1>2, <1>7, <1>8, <1>9, <1>10

LEMMA VerifyReturnsKeeps == IInv /\ VerifyReturns => IInv'
<1> SUFFICES ASSUME IInv, VerifyReturns PROVE IInv'
  OBVIOUS
<1>1. PICK m \in {conv, User(conv, said + 1)} :
        /\ Says(IF m = conv THEN 0 ELSE 1)
        /\ IF aborted THEN Finish(m) ELSE AfterCall(m, repairs)
  BY DEF VerifyReturns
<1>2. /\ loop = "verify" /\ conv # << >> /\ Sound(conv, Owed) /\ repairs \in 0 .. MaxRepairs + 1
      /\ (PatchesLast => turn.at = turn.calls)
  BY DEF VerifyReturns, IInv, LoopOK, TypeOK
<1>3. said \in Nat /\ Owed \in SUBSET (1 .. said)
  BY Numbers
<1>4. /\ said' \in Nat /\ said <= said' /\ UNCHANGED lost /\ lost \subseteq 1 .. said'
      /\ Owed' = IF m = conv THEN Owed ELSE Owed \cup {said + 1}
  BY <1>1, <1>3, SaysOwes
<1>5. Sound(m, Owed') /\ m # << >>
  BY <1>1, <1>2, <1>3, <1>4, SoundUser
<1>6. CASE aborted
  BY <1>1, <1>2, <1>4, <1>5, <1>6, FinishKeeps
<1>7. CASE ~aborted
  BY <1>1, <1>2, <1>4, <1>5, <1>7, AfterCallKeeps
<1> QED  BY <1>6, <1>7

LEMMA Inductive == IInv /\ [Next]_vars => IInv'
<1> SUFFICES ASSUME IInv, [Next]_vars PROVE IInv'
  OBVIOUS
<1>0. said \in Nat /\ lost \subseteq 1 .. said /\ Owed \in SUBSET (1 .. said)
  BY Numbers
<1>1. CASE StartTask
  <2>1. /\ loops = 0 /\ said = 0 /\ lost = {} /\ Enter(User(System, 2)) /\ Says(2)
    BY <1>0, <1>1 DEF StartTask, IInv
  <2>2. Owed' = 1 .. 2
    BY <2>1 DEF Says, Owed
  <2> QED  BY <2>1, <2>2, EnterKeeps, SoundTask
<1>2. CASE SaveRecap
  <2>1. /\ loops = 0 /\ loop = "idle" /\ said = 0 /\ lost = {} /\ Says(3) /\ loops' = 1
        /\ saved' = Assistant(User(System, 2), 3, 0)
        /\ UNCHANGED <<aborted, http, conv, entry, loop, turn, turns, repairs, began>>
    BY <1>0, <1>2 DEF SaveRecap, IInv
  <2>2. said' = 3 /\ lost' = {} /\ Owed' = (1 .. 2) \cup {2 + 1}
    BY <2>1 DEF Says, Owed
  <2>3. Sound(saved', Owed') /\ saved' \in Seq(Messages)
    <3>1. 1 .. 2 \in SUBSET (1 .. 2) /\ 2 \in Nat /\ 2 + 1 = 3
      OBVIOUS
    <3>2. Sound(Assistant(User(System, 2), 2 + 1, 0), (1 .. 2) \cup {2 + 1})
      <4> DEFINE u == User(System, 2)
      <4>1. Sound(u, 1 .. 2) /\ u # << >>
        BY SoundTask
      <4> HIDE DEF u
      <4>2. Sound(Assistant(u, 2 + 1, 0), (1 .. 2) \cup {2 + 1})
        BY <3>1, <4>1, NoCalls, SoundAssistant
      <4> QED  BY <4>2 DEF u
    <3> QED  BY <2>1, <2>2, <3>1, <3>2 DEF Sound
  <2>4. loops' \in 0 .. MaxLoops /\ began' \in 0 .. said' /\ lost' \subseteq 1 .. said' /\ said' \in Nat
    BY <2>1, <2>2, ContextAssumption DEF IInv, TypeOK
  <2>5. TypeOK'
    BY <2>1, <2>3, <2>4 DEF IInv, TypeOK
  <2>6. HttpOK'
    BY <2>1 DEF IInv, HttpOK
  <2> QED  BY <2>1, <2>3, <2>5, <2>6 DEF IInv
<1>3. CASE Continue
  <2>1. /\ saved # << >> /\ loop = "idle" /\ Enter(User(saved, said + 1)) /\ Says(1)
        /\ Sound(saved, Owed)
    BY <1>3 DEF Continue, Enter, IInv
  <2>2. said # 0
    <3>1. saved \in Seq(Messages) /\ StandsFor(saved, Owed)
      BY <2>1 DEF Sound
    <3>2. 1 \in DOMAIN saved /\ saved[1].of = {1}
      BY <3>1, MessageFacts DEF StandsFor
    <3>3. 1 \in Owed
      BY <3>1, <3>2 DEF StandsFor
    <3> QED  BY <1>0, <3>3
  <2>3. Owed' = Owed \cup {said + 1}
    BY <2>1, SaysOwes
  <2>4. Sound(User(saved, said + 1), Owed') /\ User(saved, said + 1) # << >>
    BY <1>0, <2>1, <2>3, SoundUser
  <2> QED  BY <2>1, <2>2, <2>4, EnterKeeps
<1>4. CASE BaselineTaken
  <2>1. loop # "idle" /\ LoopTop(conv, 0) /\ Says(0) /\ conv # << >> /\ Sound(conv, Owed)
    BY <1>4 DEF BaselineTaken, IInv, LoopOK
  <2>2. /\ said' \in Nat /\ said <= said' /\ UNCHANGED lost /\ lost \subseteq 1 .. said'
        /\ Owed' = Owed /\ 0 \in 0 .. MaxRepairs + 1
    BY <1>0, <2>1, SaysOwes, ContextAssumption
  <2> QED  BY <2>1, <2>2, LoopTopKeeps
<1>5. CASE SummaryArrives
  <2>1. PICK m \in {conv, Compressed(conv)} :
          IF aborted THEN Finish(m) ELSE Request(m) /\ UNCHANGED <<turn, turns, repairs>>
    BY <1>5 DEF SummaryArrives
  <2>2. /\ Says(0) /\ loop # "idle" /\ conv # << >> /\ Sound(conv, Owed) /\ Foldable(conv)
    BY <1>5 DEF SummaryArrives, IInv, LoopOK
  <2>3. /\ said' \in Nat /\ said <= said' /\ UNCHANGED lost /\ lost' \subseteq 1 .. said'
        /\ Owed' = Owed
    <3>1. said' = said + 0 /\ lost' = lost /\ lost \subseteq 1 .. said' /\ Owed' = Owed
      BY <2>2, SaysOwes
    <3> QED  BY <1>0, <3>1
  <2>4. Sound(m, Owed') /\ m # << >>
    BY <2>1, <2>2, <2>3, SoundCompressed
  <2>5. CASE aborted
    BY <2>1, <2>2, <2>3, <2>4, <2>5, FinishKeeps
  <2>6. CASE ~aborted
    <3>1. /\ Request(m)
          /\ turn' \in [calls : 0 .. MaxCalls, at : 0 .. MaxCalls]
          /\ turns' \in 0 .. MaxTurns /\ repairs' \in 0 .. MaxRepairs + 1
      BY <2>1, <2>6 DEF IInv, TypeOK
    <3> QED  BY <2>2, <2>3, <2>4, <3>1, RequestKeeps
  <2> QED  BY <2>5, <2>6
<1>6. CASE TurnEnds
  <2> DEFINE n == IF http.phase = "finished" THEN http.calls ELSE 0
             m == Assistant(conv, said + 1, n)
  <2>1. /\ n \in 0 .. MaxCalls /\ conv \in Seq(Messages) /\ Sound(conv, Owed) /\ conv # << >>
        /\ loop # "idle"
    BY <1>6, CallAssumption DEF IInv, LoopOK, HttpOK, HttpStates, Sound, TurnEnds
  <2>2. /\ Says(1)
        /\ IF aborted \/ n = 0 THEN Finish(m) ELSE NextCall(m, n, 1, repairs) /\ UNCHANGED turns
    BY <1>6 DEF TurnEnds
  <2>3. /\ said' \in Nat /\ said <= said' /\ UNCHANGED lost /\ lost \subseteq 1 .. said'
        /\ Owed' = Owed \cup {said + 1}
    BY <1>0, <2>2, SaysOwes
  <2> HIDE DEF n
  <2>4. Sound(m, Owed') /\ m # << >> /\ Open(m, n)
    BY <1>0, <2>1, <2>3, SoundAssistant, OpenAnswer
  <2> HIDE DEF m
  <2>5. CASE aborted \/ n = 0
    BY <2>1, <2>2, <2>3, <2>4, <2>5, FinishKeeps
  <2>6. CASE ~(aborted \/ n = 0)
    <3>1. 1 \in 1 .. n /\ repairs \in 0 .. MaxRepairs + 1
      BY <2>1, <2>6, CallAssumption DEF IInv, TypeOK
    <3> QED  BY <2>1, <2>2, <2>3, <2>4, <2>6, <3>1, NextCallKeeps
  <2> QED  BY <2>5, <2>6
<1>7. CASE ToolReturns
  BY <1>7, ToolReturnsKeeps
<1>8. CASE VerifyReturns
  BY <1>8, VerifyReturnsKeeps
<1>9. CASE LoopThrows
  BY <1>9, ThrowKeeps
<1>10. CASE RequestStep(ServerStep) \/ RequestStep(ClientStep) \/ RequestStep(StreamStops)
  <2>1. /\ ServerStep \/ ClientStep \/ StreamStops
        /\ loop = "model"
        /\ UNCHANGED <<conv, saved, entry, loop, turn, turns, repairs, loops, began, said, lost>>
    BY <1>10 DEF RequestStep, transcript
  <2>2. HttpOK' /\ UNCHANGED aborted
    BY <2>1, RequestTyped DEF IInv
  <2>3. TypeOK'
    BY <2>1, <2>2 DEF IInv, TypeOK, HttpOK
  <2>4. LoopOK'
    BY <2>1, StillOwed
  <2> QED  BY <2>1, <2>2, <2>3, <2>4 DEF IInv
<1>11. CASE Approve
  <2>1. /\ loop = "approval" /\ loop' = "tool"
        /\ UNCHANGED <<aborted, http, conv, saved, entry, turn, turns, repairs, loops,
                       began, said, lost>>
    BY <1>11 DEF Approve, transcript
  <2>2. TypeOK' /\ HttpOK'
    BY <2>1 DEF IInv, TypeOK, HttpOK, LoopStates
  <2>3. LoopOK'
    BY <2>1, StillOwed
  <2> QED  BY <2>1, <2>2, <2>3 DEF IInv
<1>12. CASE Refuse
  <2>1. loop # "idle" /\ Finish(conv) /\ Says(0) /\ Sound(conv, Owed)
    BY <1>12 DEF Refuse, IInv, LoopOK
  <2>2. said' \in Nat /\ lost' \subseteq 1 .. said' /\ Owed' = Owed
    BY <2>1, SaysOwes
  <2> QED  BY <2>1, <2>2, FinishKeeps
<1>13. CASE Stop \/ UNCHANGED vars
  <2>1. /\ aborted' \in BOOLEAN
        /\ UNCHANGED <<http, conv, saved, entry, loop, turn, turns, repairs, loops,
                       began, said, lost>>
    BY <1>13 DEF Stop, vars, transcript, IInv, TypeOK
  <2>2. TypeOK' /\ HttpOK'
    BY <2>1 DEF IInv, TypeOK, HttpOK
  <2>3. (loop # "idle" => LoopOK') /\ (loop = "idle" => Sound(saved', Owed'))
    BY <2>1, StillOwed
  <2> QED  BY <2>1, <2>2, <2>3 DEF IInv
<1>14. CASE Crash
  BY <1>14, CrashKeeps
<1> QED
  BY <1>1, <1>2, <1>3, <1>4, <1>5, <1>6, <1>7, <1>8, <1>9, <1>10, <1>11, <1>12, <1>13, <1>14
  DEF Next, LoopStep

(* The variables of the loop stay of their types.                           *)
THEOREM Typing == Spec => []TypeOK
<1>1. IInv => TypeOK
  BY DEF IInv
<1> QED  BY InitHolds, Inductive, <1>1, PTL DEF Spec

(* Every request of a run keeps the system prompt and the task word for     *)
(* word and stands for all that was said in the run, whichever loop it was  *)
(* said in, in order and once, but for what loops said that threw or died   *)
(* unsaved: neither a fold nor what is saved and loaded loses a message.    *)
THEOREM Whole == Spec => []TranscriptIsWhole
<1>1. IInv => TranscriptIsWhole
  BY DEF IInv, LoopOK, TranscriptIsWhole, Sound, Owed
<1> QED  BY InitHolds, Inductive, <1>1, PTL DEF Spec

(* When the model makes a patch the last call of its answer, every result   *)
(* of a request answers a call of the message before it: neither a fold nor *)
(* the verifier's feedback ever comes between a call and its results.       *)
THEOREM Answerable ==
  ASSUME PatchesLast
  PROVE  Spec => []RequestsAreAnswerable
<1>1. IInv => RequestsAreAnswerable
  BY DEF IInv, LoopOK, RequestsAreAnswerable, Sound
<1> QED  BY InitHolds, Inductive, <1>1, PTL DEF Spec
=============================================================================
