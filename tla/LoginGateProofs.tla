--------------------------- MODULE LoginGateProofs ---------------------------
(***************************************************************************)
(* Theorems about LoginGate, for any number of clients and of requests     *)
(* under way, and any lengths of the window, the lock and the hour.        *)
(***************************************************************************)
EXTENDS LoginGate, Induction, FiniteSetTheorems, TLAPS

\* What the operators of the limiter make of an entry.
Sound(c) == entry[c] # None => entry[c].first <= now /\ entry[c].touched <= now

TypeInv ==
  /\ TypeOK
  /\ \A c \in Client : Sound(c)
  /\ \A a \in Attempt : stage[a] # "idle" => client[a] \in Client

\* The loop that doubles a lock does so round after round.
LEMMA DoubledSteps ==
  /\ Doubled \in [Nat -> Nat \ {0}]
  /\ Doubled[0] = Lock
  /\ \A n \in Nat : Doubled[n + 1] = Doubling(Doubled[n])
<1> DEFINE V == Nat \ {0}
           step == [d \in V |-> Doubling(d)]
           IsLoop(f) == f = [n \in Nat |-> IF n = 0 THEN Lock ELSE Doubling(f[n - 1])]
<1>1. Lock \in V /\ step \in [V -> V]
  BY GateAssumption DEF Doubling
<1>2. PICK f \in [Nat -> V] : f[0] = Lock /\ \A n \in Nat : f[n + 1] = step[f[n]]
  <2> HIDE DEF V, step
  <2> QED BY <1>1, Recursion
<1>3. ASSUME NEW n \in Nat PROVE f[n] = IF n = 0 THEN Lock ELSE Doubling(f[n - 1])
  <2>1. CASE n = 0
    BY <1>2, <2>1
  <2>2. CASE n # 0
    <3>1. n - 1 \in Nat /\ (n - 1) + 1 = n
      BY <2>2
    <3>2. f[n] = step[f[n - 1]] /\ f[n - 1] \in V
      BY <1>2, <3>1
    <3> QED BY <2>2, <3>2
  <2> QED BY <2>1, <2>2
<1>4. IsLoop(f)
  BY <1>2, <1>3
<1>5. Doubled = CHOOSE g : IsLoop(g)
  BY DEF Doubled
<1> HIDE DEF IsLoop
<1>6. IsLoop(Doubled)
  BY <1>4, <1>5
<1>7. Doubled = [n \in Nat |-> IF n = 0 THEN Lock ELSE Doubling(Doubled[n - 1])]
  BY <1>6 DEF IsLoop
<1>8. Doubled[0] = Lock /\ \A n \in Nat : Doubled[n + 1] = Doubling(Doubled[n])
  <2>1. Doubled[0] = Lock
    BY <1>7
  <2>2. ASSUME NEW n \in Nat PROVE Doubled[n + 1] = Doubling(Doubled[n])
    <3>1. n + 1 \in Nat /\ n + 1 # 0 /\ (n + 1) - 1 = n
      OBVIOUS
    <3> QED BY <1>7, <3>1
  <2> QED BY <2>1, <2>2
<1>9. Nat \subseteq {n \in Nat : Doubled[n] \in V}
  <2>1. \A n \in Nat : Doubled[n] \in V => Doubled[n + 1] \in V
    BY <1>8, GateAssumption DEF Doubling
  <2> DEFINE S == {n \in Nat : Doubled[n] \in V}
  <2>2. 0 \in S /\ \A n \in Nat : n \in S => n + 1 \in S
    BY <1>1, <1>8, <2>1
  <2> HIDE DEF S
  <2> QED BY <2>2, SetInduction DEF S
<1> QED BY <1>7, <1>8, <1>9

\* A lock is never longer than an hour, nor shorter than a unit.
LEMMA LockForType ==
  ASSUME NEW e, e.lockouts \in Nat PROVE LockFor(e) \in 1 .. Hour
BY DoubledSteps, GateAssumption DEF LockFor

\* The lock after one more is twice as long, as far as an hour allows.
LEMMA LockForGrows ==
  ASSUME NEW e, NEW f, e.lockouts \in Nat, f.lockouts = e.lockouts + 1
  PROVE  LockFor(f) = IF 2 * LockFor(e) <= Hour THEN 2 * LockFor(e) ELSE Hour
<1>1. Doubled[f.lockouts] = Doubling(Doubled[e.lockouts])
  BY DoubledSteps
<1>2. Doubled[e.lockouts] \in Nat \ {0} /\ Hour \in Nat \ {0}
  BY DoubledSteps, GateAssumption
<1> QED BY <1>1, <1>2 DEF LockFor, Doubling

LEMMA NoGuessesType == NoGuesses \in [1 .. Many -> Time \cup {Never}]
BY DEF NoGuesses

\* Entries read as tuples of their fields, without the set of records.
Fields(e) ==
  /\ e.fails \in 0 .. MaxFails - 1 /\ e.first \in 0 .. now /\ e.touched \in 0 .. now
  /\ e.until \in Nat \cup {Never} /\ e.lockouts \in Nat

\* What an entry is made of.
LEMMA EntryFields ==
  ASSUME now \in Time, NEW e \in Entry, e.first <= now, e.touched <= now PROVE Fields(e)
BY GateAssumption DEF Entry, Fields, Time

\* A restarted entry is an entry; only its count and window change.
LEMMA RestartFields ==
  ASSUME now \in Time, NEW e \in Entry, Fields(e)
  PROVE  /\ Restart(e) \in Entry /\ Fields(Restart(e))
         /\ Restart(e).touched = e.touched /\ Restart(e).lockouts = e.lockouts
         /\ Restart(e).until = e.until
         /\ \/ Restart(e).fails = e.fails /\ Restart(e).first = e.first
            \/ /\ Restart(e).fails = 0 /\ Restart(e).first = now
               /\ now - e.first > Window
<1>1. CASE now - e.first > Window /\ e.until < now
  <2> DEFINE f == [e EXCEPT !.fails = 0, !.first = now]
  <2>1. Restart(e) = f
    BY <1>1 DEF Restart
  <2>3. 0 \in 0 .. MaxFails - 1
    BY GateAssumption
  <2>2. /\ f.fails = 0 /\ f.first = now /\ f.until = e.until /\ f.lockouts = e.lockouts
        /\ f.touched = e.touched /\ f \in Entry
    BY <2>3 DEF Entry
  <2> HIDE DEF f
  <2> QED BY <1>1, <2>1, <2>2, GateAssumption DEF Fields, Time
<1>2. CASE ~(now - e.first > Window /\ e.until < now)
  BY <1>2 DEF Restart
<1> QED BY <1>1, <1>2

\* One more wrong guess makes an entry again.
LEMMA CountedFields ==
  ASSUME now \in Time, NEW e \in Entry, Fields(e)
  PROVE  /\ Counted(e) \in Entry /\ Fields(Counted(e))
         /\ Counted(e).touched = now
         /\ LastStraw(e) => /\ Counted(e).fails = 0
                            /\ Counted(e).until = now + LockFor(e)
                            /\ Counted(e).lockouts = e.lockouts + 1
         /\ ~LastStraw(e) => /\ Counted(e).fails = e.fails + 1 /\ Counted(e).first = e.first
                             /\ Counted(e).until = e.until /\ Counted(e).lockouts = e.lockouts
<1>1. CASE LastStraw(e)
  <2> DEFINE f == [fails |-> 0, first |-> now, until |-> now + LockFor(e),
                   lockouts |-> e.lockouts + 1, touched |-> now]
  <2>1. Counted(e) = f
    BY <1>1 DEF Counted
  <2>2. now + LockFor(e) \in Nat /\ e.lockouts + 1 \in Nat
    BY LockForType, GateAssumption DEF Time, Fields
  <2>3. f \in Entry
    BY <2>2, GateAssumption DEF Entry
  <2> QED BY <1>1, <2>1, <2>2, <2>3, GateAssumption DEF Fields, Time
<1>2. CASE ~LastStraw(e)
  <2> DEFINE f == [e EXCEPT !.fails = e.fails + 1, !.touched = now]
  <2>1. Counted(e) = f
    BY <1>2 DEF Counted
  <2>2. e.fails + 1 \in 0 .. MaxFails - 1
    BY <1>2, GateAssumption DEF LastStraw, Fields
  <2>3. /\ f.fails = e.fails + 1 /\ f.touched = now /\ f.first = e.first /\ f.until = e.until
        /\ f.lockouts = e.lockouts /\ f \in Entry
    BY <2>2 DEF Entry
  <2> HIDE DEF f
  <2> QED BY <1>2, <2>1, <2>2, <2>3, GateAssumption DEF Fields, Time
<1> QED BY <1>1, <1>2

\* The entry that a wrong guess of c is counted in, before it is counted: e is
\* new, or the one of c, or the one of c with its window started over.
Counts(c, e) ==
  /\ e \in Entry /\ Fields(e)
  /\ entry'[c] = Counted(e)
  /\ guesses' = [guesses EXCEPT ![c] =
       IF LastStraw(e) THEN NoGuesses
       ELSE [i \in 1 .. Many |-> IF i = 1 THEN now ELSE guesses[c][i - 1]]]
  /\ \/ /\ e.fails = 0 /\ e.first = now
        /\ \/ entry[c] = None
           \/ now - entry[c].touched > Hour
           \/ now - entry[c].first > Window
     \/ entry[c] # None /\ e.fails = entry[c].fails /\ e.first = entry[c].first
  /\ LastStraw(e) => lasted'[c] = LockFor(e)
  /\ \/ /\ entry[c] = None \/ Stale(entry[c])
        /\ ~LastStraw(e) => lasted'[c] = 0
     \/ /\ entry[c] # None /\ e.lockouts = entry[c].lockouts /\ e.until = entry[c].until
        /\ ~LastStraw(e) => lasted'[c] = lasted[c]

\* What Fail does to its client and to all others.
LEMMA FailFacts ==
  ASSUME TypeInv, NEW c \in Client, Fail(c)
  PROVE  /\ \E e : Counts(c, e)
         /\ \A d \in Client \ {c} :
              \/ entry'[d] = entry[d] /\ (entry[d] # None => lasted'[d] = lasted[d])
              \/ entry'[d] = None /\ now - entry[d].touched > Hour
         /\ through' = [through EXCEPT ![c] = IF Locked(c) THEN @ + 1 ELSE 0]
         /\ lasted' \in [Client -> 0 .. Hour]
         /\ entry' \in [Client -> Entry \cup {None}]
<1>1. PICK crowded \in BOOLEAN :
        LET kept == Kept(crowded)
            e == Restart(IF kept[c] = None THEN Blank ELSE kept[c])
        IN  /\ entry' = [kept EXCEPT ![c] = Counted(e)]
            /\ guesses' = [guesses EXCEPT ![c] =
                 IF LastStraw(e) THEN NoGuesses
                 ELSE [i \in 1 .. Many |-> IF i = 1 THEN now ELSE @[i - 1]]]
            /\ through' = [through EXCEPT ![c] = IF Locked(c) THEN @ + 1 ELSE 0]
            /\ lasted' = [d \in Client |->
                 IF d = c /\ LastStraw(e) THEN LockFor(e)
                 ELSE IF kept[d] = None THEN 0 ELSE lasted[d]]
  BY DEF Fail
<1> DEFINE kept == Kept(crowded)
           known == IF kept[c] = None THEN Blank ELSE kept[c]
           e == Restart(known)
<1>2. /\ kept \in [Client -> Entry \cup {None}]
      /\ \A d \in Client :
           \/ kept[d] = entry[d]
           \/ /\ kept[d] = None /\ entry[d] # None
              /\ now - entry[d].touched > Hour /\ Stale(entry[d])
  BY DEF Kept, Stale, TypeInv, TypeOK
<1>3. now \in Time /\ now \in Nat
  BY GateAssumption DEF TypeInv, TypeOK, Time
<1>4. known \in Entry /\ Fields(known)
  <2>1. Blank \in Entry /\ Fields(Blank)
    BY <1>3, GateAssumption DEF Blank, Entry, Fields, Time
  <2>2. kept[c] # None => kept[c] \in Entry /\ Fields(kept[c])
    <3>1. kept[c] # None => kept[c] = entry[c] /\ entry[c] \in Entry
      BY <1>2 DEF TypeInv, TypeOK
    <3> QED BY <3>1, <1>3, EntryFields DEF TypeInv, Sound
  <2> QED BY <2>1, <2>2
<1>5. kept[c] = None => known.fails = 0 /\ known.first = now
  BY DEF Blank
<1>6. kept[c] # None => known = entry[c] /\ entry[c] # None
  BY <1>2
<1> HIDE DEF known, kept
<1>7. /\ e \in Entry /\ Fields(e)
      /\ e.lockouts = known.lockouts /\ e.until = known.until
      /\ \/ e.fails = known.fails /\ e.first = known.first
         \/ e.fails = 0 /\ e.first = now /\ now - known.first > Window
  BY <1>3, <1>4, RestartFields
<1>8. /\ entry' = [kept EXCEPT ![c] = Counted(e)]
      /\ guesses' = [guesses EXCEPT ![c] =
           IF LastStraw(e) THEN NoGuesses
           ELSE [i \in 1 .. Many |-> IF i = 1 THEN now ELSE guesses[c][i - 1]]]
      /\ through' = [through EXCEPT ![c] = IF Locked(c) THEN @ + 1 ELSE 0]
      /\ lasted' = [d \in Client |->
           IF d = c /\ LastStraw(e) THEN LockFor(e) ELSE IF kept[d] = None THEN 0 ELSE lasted[d]]
  BY <1>1 DEF known, kept
<1> HIDE DEF e
<1>9. entry'[c] = Counted(e) /\ \A d \in Client \ {c} : entry'[d] = kept[d]
  BY <1>2, <1>8
<1>10. \/ /\ e.fails = 0 /\ e.first = now
          /\ \/ entry[c] = None
             \/ now - entry[c].touched > Hour
             \/ now - entry[c].first > Window
       \/ entry[c] # None /\ e.fails = entry[c].fails /\ e.first = entry[c].first
  <2>1. CASE kept[c] = None
    BY <2>1, <1>2, <1>5, <1>7
  <2>2. CASE kept[c] # None
    BY <2>2, <1>6, <1>7
  <2> QED BY <2>1, <2>2
<1>14. /\ LastStraw(e) => lasted'[c] = LockFor(e)
       /\ \/ /\ entry[c] = None \/ Stale(entry[c])
             /\ ~LastStraw(e) => lasted'[c] = 0
          \/ /\ entry[c] # None /\ e.lockouts = entry[c].lockouts /\ e.until = entry[c].until
             /\ ~LastStraw(e) => lasted'[c] = lasted[c]
  <2>1. CASE kept[c] = None
    BY <2>1, <1>2, <1>8
  <2>2. CASE kept[c] # None
    BY <2>2, <1>6, <1>7, <1>8
  <2> QED BY <2>1, <2>2
<1>11. Counts(c, e)
  BY <1>7, <1>8, <1>9, <1>10, <1>14 DEF Counts
<1>12. lasted' \in [Client -> 0 .. Hour]
  <2>1. LockFor(e) \in 0 .. Hour
    BY <1>7, LockForType, GateAssumption DEF Fields
  <2>2. lasted \in [Client -> 0 .. Hour] /\ 0 \in 0 .. Hour
    BY GateAssumption DEF TypeInv, TypeOK
  <2> QED BY <1>8, <2>1, <2>2
<1>15. ASSUME NEW d \in Client \ {c}
       PROVE  \/ entry'[d] = entry[d] /\ (entry[d] # None => lasted'[d] = lasted[d])
              \/ entry'[d] = None /\ now - entry[d].touched > Hour
  BY <1>2, <1>8, <1>9
<1>13. entry' \in [Client -> Entry \cup {None}]
  BY <1>2, <1>3, <1>7, <1>8, CountedFields
<1> QED BY <1>8, <1>11, <1>12, <1>13, <1>15
-----------------------------------------------------------------------------
LEMMA TypeInit == Init => TypeInv
<1> SUFFICES ASSUME Init PROVE TypeInv
  OBVIOUS
<1>1. now \in Time /\ \A c \in Client : entry[c] = None
  BY GateAssumption DEF Init, Time
<1>5. entry \in [Client -> Entry \cup {None}]
  BY DEF Init
<1>2. guesses \in [Client -> [1 .. Many -> Time \cup {Never}]]
  BY NoGuessesType DEF Init
<1>3. lasted \in [Client -> 0 .. Hour] /\ through \in [Client -> Nat]
  BY GateAssumption DEF Init
<1>4. /\ stage \in [Attempt -> {"idle", "login", "code", "inside"}]
      /\ client \in [Attempt -> Client \cup {None}]
      /\ \A a \in Attempt : stage[a] = "idle"
  BY DEF Init
<1> QED BY <1>1, <1>2, <1>3, <1>4, <1>5 DEF TypeInv, TypeOK, Sound

\* What a handler does to its own state.
LEMMA Moves ==
  ASSUME TypeInv, NEW a \in Attempt,
         \/ \E c \in Client : Begin(a, c)
         \/ Wrong(a) \/ WantCode(a) \/ NoCode(a) \/ Right(a)
  PROVE  /\ stage' \in [Attempt -> {"idle", "login", "code", "inside"}]
         /\ client' \in [Attempt -> Client \cup {None}]
         /\ \A b \in Attempt : stage'[b] # "idle" => client'[b] \in Client
<1>1. /\ stage \in [Attempt -> {"idle", "login", "code", "inside"}]
      /\ client \in [Attempt -> Client \cup {None}]
      /\ \A b \in Attempt : stage[b] # "idle" => client[b] \in Client
  BY DEF TypeInv, TypeOK
<1>2. \/ /\ \E next \in {"login", "inside"} : stage' = [stage EXCEPT ![a] = next]
         /\ \E c \in Client : client' = [client EXCEPT ![a] = c]
      \/ stage' = [stage EXCEPT ![a] = "idle"] /\ client' = [client EXCEPT ![a] = None]
      \/ stage' = [stage EXCEPT ![a] = "code"] /\ stage[a] = "login" /\ client' = client
  BY DEF Begin, Wrong, WantCode, NoCode, Right, Ends, Goes
<1> QED BY <1>1, <1>2

LEMMA TypeStep == ASSUME TypeInv, [Next]_vars PROVE TypeInv'
<1>1. CASE UNCHANGED vars
  BY <1>1 DEF TypeInv, TypeOK, Sound, vars, limiter
<1>2. CASE Tick
  <2>1. now \in Nat /\ now' = now + 1 /\ now' \in Time
    BY <1>2, GateAssumption DEF Tick, TypeInv, TypeOK, Time
  <2>2. ASSUME NEW c \in Client PROVE Sound(c)'
    <3>1. UNCHANGED entry
      BY <1>2 DEF Tick, limiter
    <3>2. entry[c] # None => entry[c].first \in Time /\ entry[c].touched \in Time
      BY DEF TypeInv, TypeOK, Entry
    <3> QED BY <2>1, <3>1, <3>2, GateAssumption DEF TypeInv, Sound, Time
  <2> QED BY <1>2, <2>1, <2>2 DEF Tick, TypeInv, TypeOK, limiter
<1>3. ASSUME NEW a \in Attempt,
             (\E c \in Client : Begin(a, c)) \/ WantCode(a) \/ NoCode(a)
      PROVE  TypeInv'
  <2>1. UNCHANGED <<now, limiter>>
    BY <1>3 DEF Begin, WantCode, NoCode
  <2> QED BY <1>3, <2>1, Moves DEF TypeInv, TypeOK, Sound, limiter
<1>4. ASSUME NEW a \in Attempt, Right(a) PROVE TypeInv'
  <2>1. PICK c \in Client : c = client[a]
    BY <1>4 DEF Right, TypeInv
  <2>2. /\ entry' = [entry EXCEPT ![c] = None] /\ now' = now
        /\ guesses' = [guesses EXCEPT ![c] = NoGuesses]
        /\ through' = [through EXCEPT ![c] = 0] /\ lasted' = [lasted EXCEPT ![c] = 0]
    BY <1>4, <2>1 DEF Right, Success
  <2>3. guesses' \in [Client -> [1 .. Many -> Time \cup {Never}]]
    BY <2>1, <2>2, NoGuessesType DEF TypeInv, TypeOK
  <2>4. through' \in [Client -> Nat] /\ lasted' \in [Client -> 0 .. Hour]
    <3>1. 0 \in 0 .. Hour /\ through \in [Client -> Nat] /\ lasted \in [Client -> 0 .. Hour]
      BY GateAssumption DEF TypeInv, TypeOK
    <3> QED BY <2>1, <2>2, <3>1
  <2>5. /\ entry' \in [Client -> Entry \cup {None}]
        /\ \A d \in Client : entry'[d] = None \/ entry'[d] = entry[d]
    BY <2>1, <2>2 DEF TypeInv, TypeOK
  <2> QED BY <1>4, <2>2, <2>3, <2>4, <2>5, Moves DEF TypeInv, TypeOK, Sound
<1>5. ASSUME NEW a \in Attempt, Wrong(a) PROVE TypeInv'
  <2>1. PICK c \in Client : Fail(c) /\ now' = now
    BY <1>5 DEF Wrong, TypeInv
  <2>2. PICK e : Counts(c, e)
    BY <2>1, FailFacts
  <2>3. /\ now \in Time /\ guesses \in [Client -> [1 .. Many -> Time \cup {Never}]]
        /\ through \in [Client -> Nat]
    BY DEF TypeInv, TypeOK
  <2>4. guesses' \in [Client -> [1 .. Many -> Time \cup {Never}]]
    <3> DEFINE new == [i \in 1 .. Many |-> IF i = 1 THEN now ELSE guesses[c][i - 1]]
    <3>1. new \in [1 .. Many -> Time \cup {Never}]
      <4>1. ASSUME NEW i \in 1 .. Many, i # 1 PROVE guesses[c][i - 1] \in Time \cup {Never}
        <5>1. i - 1 \in 1 .. Many
          BY <4>1, GateAssumption DEF Many
        <5> QED BY <5>1, <2>1, <2>3
      <4> QED BY <4>1, <2>3
    <3>2. guesses' = [guesses EXCEPT ![c] = IF LastStraw(e) THEN NoGuesses ELSE new]
      BY <2>2 DEF Counts
    <3> HIDE DEF new
    <3> QED BY <2>1, <2>3, <3>1, <3>2, NoGuessesType
  <2>5. through' \in [Client -> Nat]
    <3>1. through' = [through EXCEPT ![c] = IF Locked(c) THEN @ + 1 ELSE 0]
      BY <2>1, FailFacts
    <3> QED BY <2>1, <2>3, <3>1
  <2>6. Sound(c)'
    <3>1. Counted(e) \in Entry /\ Fields(Counted(e)) /\ entry'[c] = Counted(e)
      BY <2>2, <2>3, CountedFields DEF Counts
    <3>2. entry'[c].first <= now /\ entry'[c].touched <= now
      BY <3>1, <2>3, GateAssumption DEF Fields, Time
    <3> QED BY <2>1, <3>2 DEF Sound
  <2>7. \A d \in Client \ {c} : Sound(d)'
    BY <2>1, FailFacts DEF Sound, TypeInv
  <2>8. lasted' \in [Client -> 0 .. Hour]
    BY <2>1, FailFacts
  <2>9. entry' \in [Client -> Entry \cup {None}]
    BY <2>1, FailFacts
  <2> QED BY <1>5, <2>1, <2>9, <2>3, <2>4, <2>5, <2>6, <2>7, <2>8, Moves DEF TypeInv, TypeOK
<1> QED BY <1>1, <1>2, <1>3, <1>4, <1>5 DEF Next

\* The declared types hold in every state: a client's count stays below the limit.
THEOREM GateTypes == Spec => []TypeOK
<1>1. Init => TypeInv
  BY TypeInit
<1>2. TypeInv /\ [Next]_vars => TypeInv'
  BY TypeStep
<1>3. TypeInv => TypeOK
  BY DEF TypeInv
<1> QED BY <1>1, <1>2, <1>3, PTL DEF Spec
-----------------------------------------------------------------------------
(***************************************************************************)
(* The bound on guesses.  The count covers the latest guesses, the ones    *)
(* since first.  The MaxFails - 1 before them may be of the window before; *)
(* all older ones lie more than a window before first.                     *)
(***************************************************************************)
Before(g, i, t) == g[i] = Never \/ g[i] < t

Remembered(c) ==
  LET e == entry[c]  g == guesses[c] IN
  /\ g[Many] # Never => g[1] - g[Many] > Window
  /\ e = None => \A i \in 1 .. Many : Before(g, i, now - Window)
  /\ e # None =>
       /\ e.fails = 0 => \A i \in 1 .. Many : g[i] = Never
       /\ e.fails # 0 => g[1] >= e.first
       /\ \A i \in 1 .. Many :
            /\ Before(g, i, e.touched + 1)
            /\ i > e.fails => Before(g, i, e.first + 1)
            /\ i > e.fails + MaxFails - 1 => Before(g, i, e.first - Window)

\* The times of the guesses are times, or Never.
LEMMA GuessesType ==
  ASSUME TypeInv, NEW c \in Client
  PROVE  /\ now \in Nat /\ \A i \in 1 .. Many : guesses[c][i] \in Nat \cup {Never}
         /\ Many \in Nat \ {0} /\ 1 \in 1 .. Many /\ Many \in 1 .. Many
         /\ guesses[c] \in [1 .. Many -> Time \cup {Never}]
<1>1. Many \in Nat \ {0}
  BY GateAssumption DEF Many
<1>2. now \in Time /\ guesses \in [Client -> [1 .. Many -> Time \cup {Never}]]
  BY DEF TypeInv, TypeOK
<1>3. Time \subseteq Nat
  BY GateAssumption DEF Time
<1>4. 1 \in 1 .. Many /\ Many \in 1 .. Many
  BY <1>1
<1> QED BY <1>1, <1>2, <1>3, <1>4

\* Once more wrong: c's entry and guesses move together.
LEMMA CountKeeps ==
  ASSUME TypeInv, NEW c \in Client, Remembered(c), NEW e, Counts(c, e), now' = now
  PROVE  Remembered(c)'
<1> DEFINE g == guesses[c]
<1>1. /\ now \in Nat /\ \A i \in 1 .. Many : g[i] \in Nat \cup {Never}
      /\ Many \in Nat \ {0} /\ 1 \in 1 .. Many /\ Many \in 1 .. Many
  BY GuessesType
<1>2. guesses \in [Client -> [1 .. Many -> Time \cup {Never}]] /\ now \in Time
  BY DEF TypeInv, TypeOK
<1>3. /\ e \in Entry /\ Fields(e) /\ entry'[c] = Counted(e) /\ Fields(Counted(e))
      /\ Counted(e).touched = now
  BY <1>2, CountedFields DEF Counts
<1>4. CASE LastStraw(e)
  <2>1. \A i \in 1 .. Many : guesses'[c][i] = Never
    BY <1>2, <1>4 DEF Counts, NoGuesses
  <2>2. Counted(e).fails = 0
    BY <1>2, <1>3, <1>4, CountedFields
  <2> QED BY <1>1, <1>3, <2>1, <2>2 DEF Remembered, Before
<1>5. CASE ~LastStraw(e)
  <2> DEFINE h == guesses'[c]  f == Counted(e)
  <2>1. h = [i \in 1 .. Many |-> IF i = 1 THEN now ELSE g[i - 1]]
    BY <1>2, <1>5 DEF Counts
  <2>2. f.fails = e.fails + 1 /\ f.first = e.first /\ entry'[c] = f /\ f.touched = now
    BY <1>2, <1>3, <1>5, CountedFields
  <2>3. entry'[c] # None
    BY <1>2, <1>3, CountedFields, NoneAssumption
  <2>4. h[1] = now /\ \A i \in 2 .. Many : h[i] = g[i - 1] /\ i - 1 \in 1 .. Many
    BY <1>1, <2>1
  <2>5. e.fails \in 0 .. MaxFails - 2 /\ e.first \in 0 .. now
    BY <1>3, <1>5, GateAssumption DEF LastStraw, Fields
  <2>12. entry[c] # None => Fields(entry[c])
    BY <1>2, EntryFields DEF TypeInv, TypeOK, Sound
  <2>6. \A i \in 1 .. Many : g[i] = Never \/ g[i] <= now
    <3>1. CASE entry[c] = None
      BY <3>1, <1>1, GateAssumption DEF Remembered, Before
    <3>2. CASE entry[c] # None
      BY <3>2, <2>12, <1>1 DEF Remembered, Before, Fields
    <3> QED BY <3>1, <3>2
\* A guess that e does not count was made before its window; one that is MaxFails
\* further back, a whole window before.
  <2>7. ASSUME NEW i \in 1 .. Many, i > e.fails PROVE Before(g, i, e.first + 1)
    <3>1. CASE e.first = now
      BY <3>1, <2>6, <1>1 DEF Before
    <3>2. CASE entry[c] # None /\ e.fails = entry[c].fails /\ e.first = entry[c].first
      BY <3>2, <2>7 DEF Remembered
    <3> QED BY <3>1, <3>2 DEF Counts
  <2>8. ASSUME NEW i \in 1 .. Many, i > e.fails + MaxFails - 1 PROVE Before(g, i, e.first - Window)
    <3>1. CASE entry[c] = None /\ e.first = now
      BY <3>1 DEF Remembered
    <3>2. CASE entry[c] # None /\ e.first = now /\ now - entry[c].touched > Hour
      <4>1. Before(g, i, entry[c].touched + 1)
        BY <3>2 DEF Remembered
      <4> QED BY <4>1, <3>2, <2>12, <1>1, GateAssumption DEF Before, Fields
    <3>3. CASE /\ entry[c] # None /\ e.fails = 0 /\ e.first = now
               /\ now - entry[c].first > Window
      <4>1. i > entry[c].fails
        BY <2>8, <3>3, <2>12, GateAssumption DEF Fields
      <4>2. Before(g, i, entry[c].first + 1)
        BY <4>1, <3>3 DEF Remembered
      <4> QED BY <4>2, <3>3, <2>12, <1>1, GateAssumption DEF Before, Fields
    <3>4. CASE entry[c] # None /\ e.fails = entry[c].fails /\ e.first = entry[c].first
      BY <3>4, <2>8 DEF Remembered
    <3> QED BY <3>1, <3>2, <3>3, <3>4 DEF Counts
  <2> HIDE DEF h, f, g
  <2>9. \A i \in 1 .. Many :
          /\ Before(h, i, now + 1)
          /\ i > e.fails + 1 => Before(h, i, e.first + 1)
          /\ i > e.fails + 1 + MaxFails - 1 => Before(h, i, e.first - Window)
    <3> TAKE i \in 1 .. Many
    <3>1. CASE i = 1
      BY <3>1, <1>1, <2>4, <2>5, GateAssumption DEF Before
    <3>2. CASE i # 1
      <4>1. i \in 2 .. Many /\ h[i] = g[i - 1] /\ i - 1 \in 1 .. Many
        BY <3>2, <2>4
      <4>2. /\ i > e.fails + 1 => i - 1 > e.fails
            /\ i > e.fails + 1 + MaxFails - 1 => i - 1 > e.fails + MaxFails - 1
        BY <2>5, GateAssumption
      <4> QED BY <4>1, <4>2, <1>1, <2>6, <2>7, <2>8 DEF Before, Never
    <3> QED BY <3>1, <3>2
  <2>10. h[Many] # Never => h[1] - h[Many] > Window
    <3> SUFFICES ASSUME h[Many] # Never PROVE now - h[Many] > Window
      BY <2>4
    <3>1. Many > e.fails + 1 + MaxFails - 1
      BY <2>5, GateAssumption DEF Many
    <3>2. h[Many] < e.first - Window
      BY <3>1, <2>9, <1>1 DEF Before
    <3>3. Many \in 2 .. Many /\ h[Many] \in Nat \cup {Never}
      BY <3>1, <2>4, <2>5, <1>1, GateAssumption
    <3> QED BY <3>2, <3>3, <2>5, <1>1, GateAssumption DEF Never
  <2>11. h[1] >= e.first /\ e.fails + 1 # 0
    BY <2>4, <2>5, <1>1
  <2> QED BY <2>2, <2>3, <2>9, <2>10, <2>11 DEF Remembered, h
<1> QED BY <1>4, <1>5

\* The others: their guesses stay, and an entry may be dropped if it is old.
LEMMA DropKeeps ==
  ASSUME TypeInv, NEW c \in Client, Remembered(c), now' = now, guesses'[c] = guesses[c],
         entry'[c] = entry[c] \/ (entry'[c] = None /\ now - entry[c].touched > Hour)
  PROVE  Remembered(c)'
<1>1. now \in Nat /\ \A i \in 1 .. Many : guesses[c][i] \in Nat \cup {Never}
  BY GuessesType
<1>2. CASE entry'[c] = entry[c]
  BY <1>2 DEF Remembered, Before
<1>3. CASE entry[c] # None /\ entry'[c] = None /\ now - entry[c].touched > Hour
  <2>1. Fields(entry[c])
    BY <1>3, EntryFields DEF TypeInv, TypeOK, Sound
  <2>2. \A i \in 1 .. Many : Before(guesses[c], i, now - Window)
    <3> TAKE i \in 1 .. Many
    <3>1. Before(guesses[c], i, entry[c].touched + 1)
      BY <1>3 DEF Remembered
    <3> QED BY <3>1, <1>1, <1>3, <2>1, GateAssumption DEF Before, Fields
  <2> QED BY <1>3, <2>2 DEF Remembered, Before
<1> QED BY <1>2, <1>3

\* Every step keeps the guesses of a client accounted for.
LEMMA RememberedStep ==
  ASSUME TypeInv, \A c \in Client : Remembered(c), [Next]_vars
  PROVE  \A c \in Client : Remembered(c)'
<1>1. ASSUME UNCHANGED <<now, entry, guesses>> PROVE \A c \in Client : Remembered(c)'
  BY <1>1 DEF Remembered, Before
<1>2. CASE Tick
  <2> TAKE c \in Client
  <2>1. now' = now + 1 /\ UNCHANGED <<entry, guesses>>
    BY <1>2 DEF Tick, limiter
  <2>2. now \in Nat /\ \A i \in 1 .. Many : guesses[c][i] \in Nat \cup {Never}
    BY GuessesType
  <2>3. ASSUME NEW i \in 1 .. Many, Before(guesses[c], i, now - Window)
        PROVE  Before(guesses'[c], i, now' - Window)
    BY <2>1, <2>2, <2>3, GateAssumption DEF Before
  <2> QED BY <2>1, <2>3 DEF Remembered, Before
<1>3. ASSUME NEW a \in Attempt, Right(a) PROVE \A c \in Client : Remembered(c)'
  <2> TAKE d \in Client
  <2>1. PICK c \in Client : c = client[a]
    BY <1>3 DEF Right, TypeInv
  <2>2. /\ entry' = [entry EXCEPT ![c] = None] /\ now' = now
        /\ guesses' = [guesses EXCEPT ![c] = NoGuesses]
    BY <1>3, <2>1 DEF Right, Success
  <2>3. /\ entry \in [Client -> Entry \cup {None}]
        /\ guesses \in [Client -> [1 .. Many -> Time \cup {Never}]]
    BY DEF TypeInv, TypeOK
  <2>4. CASE d = c
    <3>1. entry'[c] = None /\ \A i \in 1 .. Many : guesses'[c][i] = Never
      BY <2>2, <2>3 DEF NoGuesses
    <3>2. Many \in 1 .. Many
      BY GuessesType
    <3> QED BY <2>4, <3>1, <3>2 DEF Remembered, Before
  <2>5. CASE d # c
    <3>1. entry'[d] = entry[d] /\ guesses'[d] = guesses[d]
      BY <2>2, <2>3, <2>5
    <3> QED BY <2>2, <3>1 DEF Remembered, Before
  <2> QED BY <2>4, <2>5
<1>4. ASSUME NEW a \in Attempt, Wrong(a) PROVE \A c \in Client : Remembered(c)'
  <2>1. PICK c \in Client : Fail(c) /\ now' = now
    BY <1>4 DEF Wrong, TypeInv
  <2>2. PICK e : Counts(c, e)
    BY <2>1, FailFacts
  <2>3. Remembered(c)'
    BY <2>1, <2>2, CountKeeps
  <2>4. ASSUME NEW d \in Client \ {c} PROVE Remembered(d)'
    <3>1. guesses'[d] = guesses[d]
      BY <2>2 DEF Counts, TypeInv, TypeOK
    <3>2. entry'[d] = entry[d] \/ (entry'[d] = None /\ now - entry[d].touched > Hour)
      BY <2>1, FailFacts
    <3> QED BY <2>1, <3>1, <3>2, DropKeeps
  <2> QED BY <2>3, <2>4
<1> QED
  BY <1>1, <1>2, <1>3, <1>4 DEF Next, Begin, WantCode, NoCode, vars, limiter

\* No 2 * max - 1 wrong guesses fit in a window without a lock, whatever requests
\* run side by side and whatever the limiter drops.
THEOREM BoundedGuesses == Spec => []GuessesBounded
<1> DEFINE Inv == TypeInv /\ \A c \in Client : Remembered(c)
<1>1. Init => Inv
  <2>1. Init => \A c \in Client : Remembered(c)
    <3> SUFFICES ASSUME Init, NEW c \in Client PROVE Remembered(c)
      OBVIOUS
    <3>1. Many \in 1 .. Many
      BY TypeInit, GuessesType
    <3>2. entry[c] = None /\ \A i \in 1 .. Many : guesses[c][i] = Never
      BY DEF Init, NoGuesses
    <3> QED BY <3>1, <3>2 DEF Remembered, Before
  <2> QED BY <2>1, TypeInit
<1>2. Inv /\ [Next]_vars => Inv'
  BY TypeStep, RememberedStep
<1>3. Inv => GuessesBounded
  BY DEF Remembered, GuessesBounded
<1> QED BY <1>1, <1>2, <1>3, PTL DEF Spec
-----------------------------------------------------------------------------
(***************************************************************************)
(* A lock holds.  While c is locked it gets no new request through Check,  *)
(* so those it has under way and those it has had since make up no more    *)
(* than the requests there are, less the one that brought the lock.        *)
(***************************************************************************)
Busy(c) == {a \in Attempt : stage[a] # "idle" /\ client[a] = c}

Held(c) ==
  /\ through[c] < Cardinality(Attempt)
  /\ Locked(c) => through[c] + Cardinality(Busy(c)) < Cardinality(Attempt)

\* The requests a client has under way can be counted.
LEMMA BusySize ==
  ASSUME NEW c
  PROVE  /\ IsFiniteSet(Busy(c)) /\ Cardinality(Busy(c)) \in Nat
         /\ Cardinality(Attempt) \in Nat \ {0}
         /\ \A a \in Busy(c) : Cardinality(Busy(c) \ {a}) = Cardinality(Busy(c)) - 1
         /\ \A a \in Attempt : a \in Busy(c) \/ Cardinality(Busy(c)) < Cardinality(Attempt)
<1>1. Busy(c) \subseteq Attempt
  BY DEF Busy
<1>2. IsFiniteSet(Busy(c)) /\ Cardinality(Busy(c)) <= Cardinality(Attempt)
  BY <1>1, FS_Subset, AttemptAssumption
<1>3. Cardinality(Attempt) \in Nat /\ Cardinality(Busy(c)) \in Nat
  BY <1>2, FS_CardinalityType, AttemptAssumption
<1>4. Cardinality(Attempt) # 0
  BY FS_EmptySet, AttemptAssumption
<1>5. \A a \in Busy(c) : Cardinality(Busy(c) \ {a}) = Cardinality(Busy(c)) - 1
  BY <1>2, FS_RemoveElement
<1>6. \A a \in Attempt : a \in Busy(c) \/ Cardinality(Busy(c)) < Cardinality(Attempt)
  BY <1>1, <1>2, <1>3, FS_Subset, AttemptAssumption
<1> QED BY <1>2, <1>3, <1>4, <1>5, <1>6

\* Every step keeps the count of guesses that went through a lock.
LEMMA HeldStep ==
  ASSUME TypeInv, \A c \in Client : Held(c), [Next]_vars
  PROVE  \A c \in Client : Held(c)'
<1>0. /\ through \in [Client -> Nat] /\ now \in Nat
      /\ stage \in [Attempt -> {"idle", "login", "code", "inside"}]
      /\ client \in [Attempt -> Client \cup {None}]
      /\ entry \in [Client -> Entry \cup {None}]
  BY GateAssumption DEF TypeInv, TypeOK, Time
\* Nobody new is under way, and no lock is new.
<1>1. ASSUME NEW c \in Client, Busy(c)' \subseteq Busy(c), through'[c] = through[c],
             Locked(c)' => Locked(c)
      PROVE  Held(c)'
  <2>1. Cardinality(Busy(c)') <= Cardinality(Busy(c)) /\ Cardinality(Busy(c)') \in Nat
    BY <1>1, BusySize, FS_Subset, FS_CardinalityType
  <2> QED BY <1>0, <1>1, <2>1, BusySize DEF Held
<1>2. CASE Tick
  <2> TAKE c \in Client
  <2>1. entry[c] # None => entry[c].until \in Nat \cup {Never}
    BY DEF TypeInv, TypeOK, Entry
  <2>2. now' = now + 1 /\ UNCHANGED <<limiter, stage, client>>
    BY <1>2 DEF Tick
  <2>3. Busy(c)' = Busy(c) /\ through' = through /\ (Locked(c)' => Locked(c))
    BY <1>0, <2>1, <2>2 DEF Busy, Locked, limiter, Never
  <2> QED BY <2>3, <1>1
<1>3. CASE UNCHANGED vars
  <2>1. \A c \in Client : Busy(c)' = Busy(c) /\ through' = through /\ (Locked(c)' => Locked(c))
    BY <1>3 DEF Busy, Locked, vars, limiter
  <2> QED BY <2>1, <1>1
<1>4. ASSUME NEW a \in Attempt, NEW c \in Client, Begin(a, c) PROVE \A d \in Client : Held(d)'
  <2>1. /\ UNCHANGED <<now, limiter>> /\ ~Locked(c)
        /\ client' = [client EXCEPT ![a] = c]
        /\ \E next \in {"login", "inside"} : stage' = [stage EXCEPT ![a] = next]
    BY <1>4 DEF Begin, MayTry, Goes
  <2>2. \A d \in Client : Locked(d)' = Locked(d) /\ through' = through
    BY <2>1 DEF Locked, limiter
  <2>3. \A d \in Client \ {c} : Busy(d)' \subseteq Busy(d)
    BY <1>0, <2>1 DEF Busy
  <2>4. Held(c)'
    BY <2>1, <2>2 DEF Held
  <2> QED BY <2>2, <2>3, <2>4, <1>1
<1>5. ASSUME NEW a \in Attempt, WantCode(a) \/ NoCode(a) PROVE \A c \in Client : Held(c)'
  <2> TAKE c \in Client
  <2>1. Locked(c)' = Locked(c) /\ through' = through
    BY <1>5 DEF WantCode, NoCode, Locked, limiter
  <2>2. Busy(c)' \subseteq Busy(c)
    BY <1>0, <1>5 DEF WantCode, NoCode, Busy, Goes, Ends
  <2> QED BY <2>1, <2>2, <1>1
<1>6. ASSUME NEW a \in Attempt, Right(a) PROVE \A d \in Client : Held(d)'
  <2> TAKE d \in Client
  <2>1. PICK c \in Client : c = client[a]
    BY <1>6 DEF Right, TypeInv
  <2>2. /\ entry' = [entry EXCEPT ![c] = None] /\ now' = now
        /\ through' = [through EXCEPT ![c] = 0]
        /\ stage' = [stage EXCEPT ![a] = "idle"] /\ client' = [client EXCEPT ![a] = None]
    BY <1>6, <2>1 DEF Right, Success, Ends, Goes
  <2>3. CASE d = c
    BY <1>0, <2>2, <2>3, BusySize DEF Held, Locked
  <2>4. CASE d # c
    BY <1>0, <2>2, <2>4, <1>1 DEF Busy, Locked
  <2> QED BY <2>3, <2>4
<1>7. ASSUME NEW a \in Attempt, Wrong(a) PROVE \A d \in Client : Held(d)'
  <2>1. PICK c \in Client : c = client[a] /\ Fail(c) /\ now' = now
    BY <1>7 DEF Wrong, TypeInv
  <2>2. /\ stage' = [stage EXCEPT ![a] = "idle"] /\ client' = [client EXCEPT ![a] = None]
        /\ a \in Busy(c)
    BY <1>7, <2>1 DEF Wrong, Ends, Goes, Busy
  <2>3. through' = [through EXCEPT ![c] = IF Locked(c) THEN @ + 1 ELSE 0]
    BY <2>1, FailFacts
  <2>4. Busy(c)' = Busy(c) \ {a}
    BY <1>0, <2>1, <2>2, NoneAssumption DEF Busy
  <2>5. Held(c)'
    <3>1. Cardinality(Busy(c)') = Cardinality(Busy(c)) - 1
      BY <2>2, <2>4, BusySize
    <3>2. Cardinality(Busy(c)) \in Nat \ {0} /\ Cardinality(Busy(c)) <= Cardinality(Attempt)
          /\ Cardinality(Attempt) \in Nat
      <4>1. Cardinality(Busy(c)) # 0
        BY <2>2, BusySize, FS_EmptySet
      <4>2. Busy(c) \subseteq Attempt
        BY DEF Busy
      <4> QED BY <4>1, <4>2, BusySize, FS_Subset, AttemptAssumption
    <3>3. CASE Locked(c)
      BY <1>0, <2>3, <3>1, <3>2, <3>3 DEF Held
    <3>4. CASE ~Locked(c)
      BY <1>0, <2>3, <3>1, <3>2, <3>4 DEF Held
    <3> QED BY <3>3, <3>4
  <2>6. ASSUME NEW d \in Client \ {c} PROVE Held(d)'
    <3>1. through'[d] = through[d]
      BY <1>0, <2>3
    <3>2. Busy(d)' \subseteq Busy(d)
      BY <1>0, <2>2, NoneAssumption DEF Busy
    <3>3. entry'[d] = entry[d] \/ entry'[d] = None
      BY <2>1, FailFacts
    <3>4. Locked(d)' => Locked(d)
      BY <2>1, <3>3 DEF Locked
    <3> QED BY <3>1, <3>2, <3>4, <1>1
  <2> QED BY <2>5, <2>6
<1> QED BY <1>2, <1>3, <1>4, <1>5, <1>6, <1>7 DEF Next

\* A lock lets only those guesses through that were under way when it fell.
THEOREM LockIsKept == Spec => []LockHolds
<1> DEFINE Inv == TypeInv /\ \A c \in Client : Held(c)
<1>1. Init => Inv
  <2>1. Init => \A c \in Client : Held(c)
    BY BusySize DEF Init, Held, Locked
  <2> QED BY <2>1, TypeInit
<1>2. Inv /\ [Next]_vars => Inv'
  BY TypeStep, HeldStep
<1>3. Inv => LockHolds
  BY DEF Held, LockHolds
<1> QED BY <1>1, <1>2, <1>3, PTL DEF Spec
-----------------------------------------------------------------------------
(***************************************************************************)
(* Locks grow.  The last lock that the limiter has not forgotten is the    *)
(* one that its count of locks stands for.                                 *)
(***************************************************************************)
Preceding(e) == [lockouts |-> e.lockouts - 1]

Escalated(c) ==
  entry[c] # None /\ lasted[c] # 0 =>
    entry[c].lockouts # 0 /\ lasted[c] = LockFor(Preceding(entry[c]))

\* A wrong guess that is counted in e and brings a lock makes it the next longer
\* one, and one that does not leaves the last lock as it was.
LEMMA CountEscalates ==
  ASSUME TypeInv, NEW c \in Client, Escalated(c), NEW e, Counts(c, e)
  PROVE  /\ Escalated(c)'
         /\ lasted[c] # 0 /\ entry[c] # None /\ ~Stale(entry[c]) /\ entry'[c].until # entry[c].until
            => lasted'[c] = IF 2 * lasted[c] <= Hour THEN 2 * lasted[c] ELSE Hour
<1>1. /\ now \in Time /\ entry'[c] = Counted(e) /\ e \in Entry /\ Fields(e)
      /\ e.lockouts \in Nat
  BY DEF TypeInv, TypeOK, Counts, Fields
<1>2. entry[c] # None => entry[c].lockouts \in Nat
  BY DEF TypeInv, TypeOK, Entry
<1>3. CASE LastStraw(e)
  <2>1. Counted(e).lockouts = e.lockouts + 1 /\ lasted'[c] = LockFor(e)
    BY <1>1, <1>3, CountedFields DEF Counts
  <2>2. LockFor([lockouts |-> e.lockouts]) = LockFor(e)
    BY DEF LockFor
  <2>3. Escalated(c)'
    BY <1>1, <2>1, <2>2 DEF Escalated, Preceding
  <2>4. ASSUME lasted[c] # 0, entry[c] # None, ~Stale(entry[c])
        PROVE  lasted'[c] = IF 2 * lasted[c] <= Hour THEN 2 * lasted[c] ELSE Hour
    <3>1. e.lockouts = entry[c].lockouts
      BY <2>4 DEF Counts
    <3>2. entry[c].lockouts # 0 /\ lasted[c] = LockFor(Preceding(entry[c]))
      BY <2>4 DEF Escalated
    <3>3. /\ Preceding(entry[c]).lockouts \in Nat
          /\ e.lockouts = Preceding(entry[c]).lockouts + 1
      BY <1>2, <2>4, <3>1, <3>2 DEF Preceding
    <3> QED BY <2>1, <3>2, <3>3, LockForGrows
  <2> QED BY <2>3, <2>4
<1>4. CASE ~LastStraw(e)
  <2>1. Counted(e).lockouts = e.lockouts /\ Counted(e).until = e.until
    BY <1>1, <1>4, CountedFields
  <2>2. \/ lasted'[c] = 0 /\ (entry[c] = None \/ Stale(entry[c]))
        \/ /\ entry[c] # None /\ e.lockouts = entry[c].lockouts /\ e.until = entry[c].until
           /\ lasted'[c] = lasted[c]
    BY <1>4 DEF Counts
  <2>3. Escalated(c)'
    BY <1>1, <2>1, <2>2 DEF Escalated, Preceding
  <2> QED BY <1>1, <2>1, <2>2, <2>3
<1> QED BY <1>3, <1>4

\* Every step keeps the lengths of the locks in step with their number, and a new
\* lock is the next longer one.
LEMMA EscalatedStep ==
  ASSUME TypeInv, \A c \in Client : Escalated(c), [Next]_vars
  PROVE  /\ \A c \in Client : Escalated(c)'
         /\ \A c \in Client :
              /\ lasted[c] # 0 /\ entry[c] # None /\ ~Stale(entry[c])
              /\ entry'[c] # None /\ entry'[c].until # entry[c].until
              => lasted'[c] = IF 2 * lasted[c] <= Hour THEN 2 * lasted[c] ELSE Hour
<1> USE DEF Escalated
<1>1. CASE UNCHANGED <<entry, lasted>>
  BY <1>1
<1>2. ASSUME NEW a \in Attempt, Right(a)
      PROVE  \A c \in Client : entry'[c] = None \/ (entry'[c] = entry[c] /\ lasted'[c] = lasted[c])
  <2>1. PICK c \in Client : c = client[a]
    BY <1>2 DEF Right, TypeInv
  <2>2. entry' = [entry EXCEPT ![c] = None] /\ lasted' = [lasted EXCEPT ![c] = 0]
    BY <1>2, <2>1 DEF Right, Success
  <2> QED BY <2>1, <2>2 DEF TypeInv, TypeOK
<1>3. ASSUME NEW a \in Attempt, Wrong(a), NEW d \in Client
      PROVE  /\ Escalated(d)'
             /\ /\ lasted[d] # 0 /\ entry[d] # None /\ ~Stale(entry[d])
                /\ entry'[d] # None /\ entry'[d].until # entry[d].until
                => lasted'[d] = IF 2 * lasted[d] <= Hour THEN 2 * lasted[d] ELSE Hour
  <2>1. PICK c \in Client : Fail(c)
    BY <1>3 DEF Wrong, TypeInv
  <2>2. PICK e : Counts(c, e)
    BY <2>1, FailFacts
  <2>3. CASE d = c
    BY <2>2, <2>3, CountEscalates
  <2>4. CASE d # c
    <3>1. \/ entry'[d] = entry[d] /\ (entry[d] # None => lasted'[d] = lasted[d])
          \/ entry'[d] = None
      BY <2>1, <2>4, FailFacts
    <3> QED BY <3>1
  <2> QED BY <2>3, <2>4
<1>4. UNCHANGED <<entry, lasted>> \/ \E a \in Attempt : Right(a) \/ Wrong(a)
  BY DEF Next, vars, limiter, Begin, WantCode, NoCode, Tick
<1> QED BY <1>1, <1>2, <1>3, <1>4

\* Whatever the lengths of a lock and of an hour, and whatever the limiter forgets
\* of the count, each lock is twice as long as the one before, up to an hour.
THEOREM GrowingLocks == Spec => LocksGrow
<1> DEFINE Inv == TypeInv /\ \A c \in Client : Escalated(c)
           Grows == \A c \in Client :
             /\ lasted[c] # 0 /\ entry[c] # None /\ ~Stale(entry[c])
             /\ entry'[c] # None /\ entry'[c].until # entry[c].until
             => lasted'[c] = IF 2 * lasted[c] <= Hour THEN 2 * lasted[c] ELSE Hour
<1>1. Init => Inv
  <2>1. Init => \A c \in Client : Escalated(c)
    BY DEF Init, Escalated
  <2> QED BY <2>1, TypeInit
<1>2. Inv /\ [Next]_vars => Inv' /\ [Grows]_vars
  BY TypeStep, EscalatedStep
<1> HIDE DEF Inv, Grows
<1>3. Spec => [][Grows]_vars
  BY <1>1, <1>2, PTL DEF Spec
<1> QED BY <1>3 DEF LocksGrow, Grows
=============================================================================
