--------------------------- MODULE AdminAuthProofs ---------------------------
(***************************************************************************)
(* Proofs about AdminAuth, for any set of operations.  The invariant says  *)
(* what an operation under way may rely on as long as no other one has     *)
(* replaced the file, and what it has shown when it writes or signs in.    *)
(***************************************************************************)
EXTENDS AdminAuth, TLAPS

\* Which operations can be where.
KindAtPC ==
  \A o \in Op :
    /\ pc[o] \in {"second", "secret"} => kind[o] = "login"
    /\ pc[o] = "consume" => kind[o] \in {"login", "confirm"}
    /\ pc[o] \in {"read", "persist"} => kind[o] \notin {"login", "none"}
    /\ pc[o] = "revoke" => kind[o] = "password"
    /\ pc[o] = "start" => kind[o] \in {"login", "password", "setup"}

\* Steps beyond the last one have accepted nothing.
CodesInOrder ==
  /\ \A n \in Step : accepted[n] <= 1
  /\ \A n \in Step : n > lastStep => accepted[n] = 0

\* What is, or is about to be, demanded at login has been proven.
DemandProven ==
  /\ file.totp = "on" => file.secret \in proven
  /\ \A o \in Op : pc[o] = "persist" /\ copy[o].totp = "on" => copy[o].secret \in proven

\* The copy of an undisturbed operation agrees with the file where it must.
FreshCopies ==
  \A o \in Op \ disturbed :
    /\ pc[o] = "persist" /\ kind[o] \in Passwords
       => copy[o].secret = file.secret /\ copy[o].totp = file.totp
    /\ \/ pc[o] = "persist" /\ kind[o] \notin Passwords
       \/ pc[o] = "consume" /\ kind[o] = "confirm"
       => copy[o].salt = file.salt

\* A set-up or an adoption nobody has disturbed still finds no account.
StillVacant ==
  \A o \in Op \ disturbed :
    pc[o] \in {"read", "persist"} /\ kind[o] \in Firsts => Vacant

\* An operation has no session before its end, and one that was not disturbed
\* then gets the session of the password its sender knows.
KnownSessions ==
  /\ \A o \in Op : pc[o] # "end" => session[o] = None
  /\ \A k \in Token : session[k] # None => knows[k] = session[k] \/ k \in disturbed
  /\ \A o \in Op \ disturbed :
       \/ pc[o] \in {"second", "secret", "start", "revoke"}
       \/ pc[o] = "consume" /\ kind[o] = "login"
       => knows[o] = file.salt
  /\ \A o \in Op : pc[o] = "persist" /\ kind[o] \in Passwords => copy[o].salt = o

\* The invariant for the file and its copies, and the one for the sessions.
FileInv ==
  TypeOK /\ KindAtPC /\ CodesInOrder /\ DemandProven /\ FreshCopies /\ StillVacant
AuthInv == FileInv /\ KnownSessions

\* What the operations write.
LEMMA Records ==
  ASSUME TypeOK, NEW o \in Op
  PROVE  /\ NewPassword(o) \in Credentials
         /\ NewPassword(o).salt = o
         /\ NewPassword(o).secret = file.secret
         /\ NewPassword(o).totp = file.totp
         /\ Pending(o) \in Credentials
         /\ Pending(o).salt = file.salt
         /\ Pending(o).totp = "off"
         /\ Disabled \in Credentials
         /\ Disabled.salt = file.salt
         /\ Disabled.totp = "off"
  BY DEF TypeOK, Credentials, Salt, Secret, NewPassword, Pending, Disabled

\* The copy of a confirmed enrolment.
LEMMA Confirmed ==
  ASSUME TypeOK, NEW o \in Op
  PROVE  /\ Enabled(o) \in Credentials
         /\ Enabled(o).salt = copy[o].salt
         /\ Enabled(o).secret = copy[o].secret
  <1>1. copy[o] \in Credentials
    BY DEF TypeOK
  <1> QED BY <1>1 DEF Credentials, Enabled

\* What a change knows once it has read the file.
LEMMA ReadFacts ==
  ASSUME TypeOK, NEW o \in Op, Read(o)
  PROVE  /\ copy' \in [Op -> Credentials]
         /\ \A p \in Op \ {o} : copy'[p] = copy[p]
         /\ \/ /\ pc' = [pc EXCEPT ![o] = "persist"]
               /\ \/ /\ kind[o] \in Passwords
                     /\ copy'[o].salt = o
                     /\ copy'[o].secret = file.secret
                     /\ copy'[o].totp = file.totp
                  \/ /\ kind[o] \in {"begin", "disable", "recover"}
                     /\ copy'[o].salt = file.salt
                     /\ copy'[o].totp = "off"
            \/ /\ pc' = [pc EXCEPT ![o] = "consume"]
               /\ kind[o] = "confirm"
               /\ copy'[o] = file
            \/ pc' = [pc EXCEPT ![o] = "end"]
  <1> USE DEF TypeOK, Passwords, Firsts
  <1>1. CASE kind[o] \in Passwords
    BY <1>1, Records DEF Read, Goto
  <1>2. CASE kind[o] = "begin" /\ Exists
    BY <1>2, Records DEF Read, Goto
  <1>3. CASE kind[o] = "confirm" /\ Exists
    BY <1>3 DEF Read, Goto
  <1>4. CASE kind[o] \in {"disable", "recover"} /\ Exists
    BY <1>4, Records DEF Read, Goto
  <1>5. CASE kind[o] \notin Passwords /\ ~Exists
    BY <1>5 DEF Read, Goto
  <1> QED BY <1>1, <1>2, <1>3, <1>4, <1>5 DEF Read

\* What is left alone by reading.
LEMMA ReadLeaves ==
  ASSUME NEW o, Read(o)
  PROVE  /\ pc[o] = "read"
         /\ disturbed' = IF kind[o] \in Firsts THEN disturbed ELSE disturbed \ {o}
         /\ UNCHANGED <<kind, file, damaged, session, now, lastStep, knows, accepted, proven>>
  BY DEF Read, clock

\* The fields of the file and of a copy.
LEMMA Fields ==
  ASSUME TypeOK
  PROVE  /\ file.salt \in Salt
         /\ \A o \in Op : copy[o].secret \in Secret
  BY DEF TypeOK, Credentials

\* What all changes of the file have in common when they start.
Started(o) == \E k \in Kinds \ {"login"} : Begins(o, k) /\ (k \in Firsts => Vacant)

\* What a file that is gone leaves of the account.
LEMMA NoAccountFacts ==
  NoAccount \in Credentials /\ NoAccount.totp = "off" /\ NoAccount.salt = None
  BY DEF NoAccount, Credentials, Salt, Secret

\* What a restart leaves, and the adoption it may begin.
LEMMA RestartFacts ==
  ASSUME Restart, TypeOK
  PROVE  /\ kind' \in [Op -> Kinds \cup {"none"}]
         /\ pc' \in [Op -> PC]
         /\ \A o \in Op :
              \/ kind'[o] = kind[o] /\ pc'[o] = pc[o]
                 /\ kind[o] \in Commands \cup {"none"}
              \/ kind'[o] = kind[o] /\ pc'[o] = "end"
              \/ kind'[o] = "adopt" /\ pc'[o] = "read" /\ Vacant /\ pc[o] = "idle"
         /\ session' = [k \in Token |-> None]
         /\ lastStep' = 0
         /\ accepted' = [n \in Step |-> 0]
         /\ UNCHANGED <<file, damaged, copy, now, knows, proven, disturbed>>
  <1>1. PICK o \in Op, adopts \in BOOLEAN :
          /\ adopts => pc[o] = "idle" /\ Vacant
          /\ kind' = IF adopts THEN [kind EXCEPT ![o] = "adopt"] ELSE kind
          /\ pc' = [p \in Op |->
                      IF adopts /\ p = o THEN "read"
                      ELSE IF kind[p] \notin Commands \cup {"none"} THEN "end" ELSE pc[p]]
    BY DEF Restart, Adoptable
  <1>2. "adopt" \in Kinds /\ "read" \in PC /\ "end" \in PC
    BY DEF Kinds, Firsts, PC
  <1>3. CASE adopts
    BY <1>1, <1>2, <1>3 DEF Restart, TypeOK
  <1>4. CASE ~adopts
    BY <1>1, <1>2, <1>4 DEF Restart, TypeOK
  <1> QED BY <1>3, <1>4

\* The disjuncts of the next-state relation.
LEMMA NextCases ==
  ASSUME Next
  PROVE  \/ Tick \/ Restart \/ LoseFile
         \/ \E k \in Token : SignOut(k)
         \/ \E o \in Op :
              \/ Login(o) \/ SecondFactor(o) \/ ReadSecret(o) \/ LoginCode(o)
              \/ ConfirmCode(o) \/ RefuseCode(o) \/ StartSession(o) \/ Started(o)
              \/ Read(o) \/ Persist(o) \/ PersistError(o) \/ Revoke(o)
  BY DEF Next, Started, Request, Setup, RunPasswd, RunTOTP, Kinds, Requests, Commands, Firsts

\* Every step keeps the types.
LEMMA TypeStep ==
  ASSUME AuthInv, [Next]_vars
  PROVE  TypeOK'
  <1> USE AuthAssumption DEF TypeOK, Salt, Secret, Token, PC, Kinds, Requests, Commands, Firsts, Passwords, Step
  <1>0. TypeOK
    BY DEF AuthInv, FileInv
  <1>1. CASE Tick
    BY <1>0, <1>1 DEF Tick, history
  <1>2. CASE Restart
    BY <1>0, <1>2, RestartFacts
  <1>6. CASE LoseFile
    BY <1>0, <1>6, NoAccountFacts DEF LoseFile, Disturbs, Running, clock
  <1>3. ASSUME NEW o \in Op,
               \/ Login(o) \/ SecondFactor(o) \/ ReadSecret(o) \/ LoginCode(o)
               \/ ConfirmCode(o) \/ RefuseCode(o) \/ StartSession(o) \/ Started(o)
               \/ Read(o) \/ Persist(o) \/ PersistError(o) \/ Revoke(o)
        PROVE  TypeOK'
    <2>1. CASE Login(o)
      BY <1>0, <2>1, Fields DEF Login, Goto, clock, history
    <2>2. CASE SecondFactor(o)
      BY <1>0, <2>2 DEF SecondFactor, Goto, clock, history
    <2>3. CASE ReadSecret(o)
      BY <1>0, <2>3 DEF ReadSecret, Goto, clock, history
    <2>4. CASE LoginCode(o)
      BY <1>0, <2>4, Fields DEF LoginCode, Goto, AcceptCode, Newer, Shown, clock, history
    <2>5. CASE ConfirmCode(o)
      BY <1>0, <2>5, Confirmed, Fields DEF ConfirmCode, Goto, AcceptCode, Newer, Shown, clock, history
    <2>6. CASE RefuseCode(o)
      BY <1>0, <2>6 DEF RefuseCode, Goto, clock, history
    <2>7. CASE StartSession(o)
      BY <1>0, <2>7, Fields DEF StartSession, Goto, WithSession, clock, history
    <2>8. CASE Started(o)
      BY <1>0, <2>8 DEF Started, Begins, Goto, clock, history
    <2>9. CASE Read(o)
      BY <1>0, <2>9, ReadFacts, ReadLeaves
    <2>10. CASE Persist(o)
      <3>1. pc' \in [Op -> PC] /\ knows' \in [Token -> Salt]
        <4>1. CASE kind[o] \in {"password", "setup"}
          <5>1. \/ pc' = [pc EXCEPT ![o] = "start"]
                \/ pc' = [pc EXCEPT ![o] = "revoke"]
            BY <2>10, <4>1 DEF Persist, Goto
          <5>2. knows' = [knows EXCEPT ![o] = o]
            BY <2>10, <4>1 DEF Persist
          <5> QED BY <1>0, <5>1, <5>2
        <4>2. CASE kind[o] \notin {"password", "setup"}
          BY <1>0, <2>10, <4>2 DEF Persist, Goto
        <4> QED BY <4>1, <4>2
      <3>2. file' \in Credentials /\ damaged' \in BOOLEAN /\ disturbed' \subseteq Op
        BY <1>0, <2>10 DEF Persist, Disturbs
      <3> QED BY <1>0, <2>10, <3>1, <3>2 DEF Persist, clock
    <2>11. CASE PersistError(o)
      BY <1>0, <2>11 DEF PersistError, Goto, clock, history
    <2>12. CASE Revoke(o)
      BY <1>0, <2>12 DEF Revoke, Goto, clock, history
    <2> QED BY <1>3, <2>1, <2>2, <2>3, <2>4, <2>5, <2>6, <2>7, <2>8, <2>9, <2>10, <2>11, <2>12
  <1>4. ASSUME NEW k \in Token, SignOut(k)
        PROVE  TypeOK'
    BY <1>0, <1>4 DEF SignOut, clock, history
  <1>5. CASE UNCHANGED vars
    BY <1>0, <1>5 DEF vars, clock, history
  <1> QED BY NextCases, <1>1, <1>2, <1>3, <1>4, <1>5, <1>6

\* Every step moves an operation on the path of its kind.
LEMMA KindStep ==
  ASSUME AuthInv, [Next]_vars
  PROVE  KindAtPC'
  <1> USE AuthAssumption DEF TypeOK, KindAtPC, PC, Kinds, Requests, Commands, Firsts, Passwords
  <1>0. TypeOK /\ KindAtPC
    BY DEF AuthInv, FileInv
  <1>1. CASE Tick
    BY <1>0, <1>1 DEF Tick, history
  <1>2. CASE Restart
    BY <1>0, <1>2, RestartFacts
  <1>6. CASE LoseFile
    BY <1>0, <1>6, NoAccountFacts DEF LoseFile, Disturbs, Running, clock
  <1>3. ASSUME NEW o \in Op,
               \/ Login(o) \/ SecondFactor(o) \/ ReadSecret(o) \/ LoginCode(o)
               \/ ConfirmCode(o) \/ RefuseCode(o) \/ StartSession(o) \/ Started(o)
               \/ Read(o) \/ Persist(o) \/ PersistError(o) \/ Revoke(o)
        PROVE  KindAtPC'
    <2>1. CASE Login(o)
      BY <1>0, <2>1 DEF Login, Goto, clock, history
    <2>2. CASE SecondFactor(o)
      BY <1>0, <2>2 DEF SecondFactor, Goto, clock, history
    <2>3. CASE ReadSecret(o)
      BY <1>0, <2>3 DEF ReadSecret, Goto, clock, history
    <2>4. CASE LoginCode(o)
      BY <1>0, <2>4 DEF LoginCode, Goto, AcceptCode, Newer, Shown, clock, history
    <2>5. CASE ConfirmCode(o)
      BY <1>0, <2>5, Confirmed DEF ConfirmCode, Goto, AcceptCode, Newer, Shown, clock, history
    <2>6. CASE RefuseCode(o)
      BY <1>0, <2>6 DEF RefuseCode, Goto, clock, history
    <2>7. CASE StartSession(o)
      BY <1>0, <2>7 DEF StartSession, Goto, WithSession, clock, history
    <2>8. CASE Started(o)
      BY <1>0, <2>8 DEF Started, Begins, Goto, clock, history
    <2>9. CASE Read(o)
      BY <1>0, <2>9, ReadFacts, ReadLeaves
    <2>10. CASE Persist(o)
      BY <1>0, <2>10 DEF Persist, Disturbs, Running, Goto, clock, history
    <2>11. CASE PersistError(o)
      BY <1>0, <2>11 DEF PersistError, Goto, clock, history
    <2>12. CASE Revoke(o)
      BY <1>0, <2>12 DEF Revoke, Goto, clock, history
    <2> QED BY <1>3, <2>1, <2>2, <2>3, <2>4, <2>5, <2>6, <2>7, <2>8, <2>9, <2>10, <2>11, <2>12
  <1>4. ASSUME NEW k \in Token, SignOut(k)
        PROVE  KindAtPC'
    BY <1>0, <1>4 DEF SignOut, clock, history
  <1>5. CASE UNCHANGED vars
    BY <1>0, <1>5 DEF vars, clock, history
  <1> QED BY NextCases, <1>1, <1>2, <1>3, <1>4, <1>5, <1>6

\* Every step keeps the codes in order.
LEMMA CodesStep ==
  ASSUME AuthInv, [Next]_vars
  PROVE  CodesInOrder'
  <1> USE AuthAssumption DEF TypeOK, CodesInOrder, Step
  <1>0. TypeOK /\ CodesInOrder
    BY DEF AuthInv, FileInv
  <1>1. CASE Tick
    BY <1>0, <1>1 DEF Tick, history
  <1>2. CASE Restart
    <2>1. lastStep' = 0 /\ accepted' = [n \in Step |-> 0]
      BY <1>2 DEF Restart
    <2> QED BY <2>1
  <1>6. CASE LoseFile
    BY <1>0, <1>6, NoAccountFacts DEF LoseFile, Disturbs, Running, clock
  <1>3. ASSUME NEW o \in Op,
               \/ Login(o) \/ SecondFactor(o) \/ ReadSecret(o) \/ LoginCode(o)
               \/ ConfirmCode(o) \/ RefuseCode(o) \/ StartSession(o) \/ Started(o)
               \/ Read(o) \/ Persist(o) \/ PersistError(o) \/ Revoke(o)
        PROVE  CodesInOrder'
    <2>1. CASE Login(o)
      BY <1>0, <2>1 DEF Login, Goto, clock, history
    <2>2. CASE SecondFactor(o)
      BY <1>0, <2>2 DEF SecondFactor, Goto, clock, history
    <2>3. CASE ReadSecret(o)
      BY <1>0, <2>3 DEF ReadSecret, Goto, clock, history
    <2>4. CASE LoginCode(o)
      BY <1>0, <2>4 DEF LoginCode, Goto, AcceptCode, Newer, Shown, clock, history
    <2>5. CASE ConfirmCode(o)
      BY <1>0, <2>5, Confirmed DEF ConfirmCode, Goto, AcceptCode, Newer, Shown, clock, history
    <2>6. CASE RefuseCode(o)
      BY <1>0, <2>6 DEF RefuseCode, Goto, clock, history
    <2>7. CASE StartSession(o)
      BY <1>0, <2>7 DEF StartSession, Goto, WithSession, clock, history
    <2>8. CASE Started(o)
      BY <1>0, <2>8 DEF Started, Begins, Goto, clock, history
    <2>9. CASE Read(o)
      BY <1>0, <2>9, ReadFacts, ReadLeaves
    <2>10. CASE Persist(o)
      BY <1>0, <2>10 DEF Persist, Disturbs, Running, Goto, clock, history
    <2>11. CASE PersistError(o)
      BY <1>0, <2>11 DEF PersistError, Goto, clock, history
    <2>12. CASE Revoke(o)
      BY <1>0, <2>12 DEF Revoke, Goto, clock, history
    <2> QED BY <1>3, <2>1, <2>2, <2>3, <2>4, <2>5, <2>6, <2>7, <2>8, <2>9, <2>10, <2>11, <2>12
  <1>4. ASSUME NEW k \in Token, SignOut(k)
        PROVE  CodesInOrder'
    BY <1>0, <1>4 DEF SignOut, clock, history
  <1>5. CASE UNCHANGED vars
    BY <1>0, <1>5 DEF vars, clock, history
  <1> QED BY NextCases, <1>1, <1>2, <1>3, <1>4, <1>5, <1>6

\* Every step demands only proven secrets.
LEMMA DemandStep ==
  ASSUME AuthInv, [Next]_vars
  PROVE  DemandProven'
  <1> USE AuthAssumption DEF TypeOK, KindAtPC, DemandProven, Passwords, Firsts
  <1>0. TypeOK /\ KindAtPC /\ DemandProven
    BY DEF AuthInv, FileInv
  <1>1. CASE Tick
    BY <1>0, <1>1 DEF Tick, history
  <1>2. CASE Restart
    BY <1>0, <1>2, RestartFacts
  <1>6. CASE LoseFile
    BY <1>0, <1>6, NoAccountFacts DEF LoseFile, Disturbs, Running, clock
  <1>3. ASSUME NEW o \in Op,
               \/ Login(o) \/ SecondFactor(o) \/ ReadSecret(o) \/ LoginCode(o)
               \/ ConfirmCode(o) \/ RefuseCode(o) \/ StartSession(o) \/ Started(o)
               \/ Read(o) \/ Persist(o) \/ PersistError(o) \/ Revoke(o)
        PROVE  DemandProven'
    <2>1. CASE Login(o)
      BY <1>0, <2>1 DEF Login, Goto, clock, history
    <2>2. CASE SecondFactor(o)
      BY <1>0, <2>2 DEF SecondFactor, Goto, clock, history
    <2>3. CASE ReadSecret(o)
      BY <1>0, <2>3 DEF ReadSecret, Goto, clock, history
    <2>4. CASE LoginCode(o)
      BY <1>0, <2>4 DEF LoginCode, Goto, AcceptCode, Newer, Shown, clock, history
    <2>5. CASE ConfirmCode(o)
      BY <1>0, <2>5, Confirmed DEF ConfirmCode, Goto, AcceptCode, Newer, Shown, clock, history
    <2>6. CASE RefuseCode(o)
      BY <1>0, <2>6 DEF RefuseCode, Goto, clock, history
    <2>7. CASE StartSession(o)
      BY <1>0, <2>7 DEF StartSession, Goto, WithSession, clock, history
    <2>8. CASE Started(o)
      BY <1>0, <2>8 DEF Started, Begins, Goto, clock, history
    <2>9. CASE Read(o)
      BY <1>0, <2>9, ReadFacts, ReadLeaves
    <2>10. CASE Persist(o)
      BY <1>0, <2>10 DEF Persist, Disturbs, Running, Goto, clock, history
    <2>11. CASE PersistError(o)
      BY <1>0, <2>11 DEF PersistError, Goto, clock, history
    <2>12. CASE Revoke(o)
      BY <1>0, <2>12 DEF Revoke, Goto, clock, history
    <2> QED BY <1>3, <2>1, <2>2, <2>3, <2>4, <2>5, <2>6, <2>7, <2>8, <2>9, <2>10, <2>11, <2>12
  <1>4. ASSUME NEW k \in Token, SignOut(k)
        PROVE  DemandProven'
    BY <1>0, <1>4 DEF SignOut, clock, history
  <1>5. CASE UNCHANGED vars
    BY <1>0, <1>5 DEF vars, clock, history
  <1> QED BY NextCases, <1>1, <1>2, <1>3, <1>4, <1>5, <1>6

\* Every step keeps undisturbed copies fresh.
LEMMA CopiesStep ==
  ASSUME AuthInv, [Next]_vars
  PROVE  FreshCopies'
  <1> USE AuthAssumption DEF TypeOK, KindAtPC, FreshCopies, Requests, Commands, Firsts, Passwords
  <1>0. TypeOK /\ KindAtPC /\ FreshCopies
    BY DEF AuthInv, FileInv
  <1>1. CASE Tick
    BY <1>0, <1>1 DEF Tick, history
  <1>2. CASE Restart
    BY <1>0, <1>2, RestartFacts
  <1>6. CASE LoseFile
    BY <1>0, <1>6, NoAccountFacts DEF LoseFile, Disturbs, Running, clock
  <1>3. ASSUME NEW o \in Op,
               \/ Login(o) \/ SecondFactor(o) \/ ReadSecret(o) \/ LoginCode(o)
               \/ ConfirmCode(o) \/ RefuseCode(o) \/ StartSession(o) \/ Started(o)
               \/ Read(o) \/ Persist(o) \/ PersistError(o) \/ Revoke(o)
        PROVE  FreshCopies'
    <2>1. CASE Login(o)
      BY <1>0, <2>1 DEF Login, Goto, clock, history
    <2>2. CASE SecondFactor(o)
      BY <1>0, <2>2 DEF SecondFactor, Goto, clock, history
    <2>3. CASE ReadSecret(o)
      BY <1>0, <2>3 DEF ReadSecret, Goto, clock, history
    <2>4. CASE LoginCode(o)
      BY <1>0, <2>4 DEF LoginCode, Goto, AcceptCode, Newer, Shown, clock, history
    <2>5. CASE ConfirmCode(o)
      BY <1>0, <2>5, Confirmed DEF ConfirmCode, Goto, AcceptCode, Newer, Shown, clock, history
    <2>6. CASE RefuseCode(o)
      BY <1>0, <2>6 DEF RefuseCode, Goto, clock, history
    <2>7. CASE StartSession(o)
      BY <1>0, <2>7 DEF StartSession, Goto, WithSession, clock, history
    <2>8. CASE Started(o)
      BY <1>0, <2>8 DEF Started, Begins, Goto, clock, history
    <2>9. CASE Read(o)
      BY <1>0, <2>9, ReadFacts, ReadLeaves
    <2>10. CASE Persist(o)
      BY <1>0, <2>10 DEF Persist, Disturbs, Running, Goto, clock, history
    <2>11. CASE PersistError(o)
      BY <1>0, <2>11 DEF PersistError, Goto, clock, history
    <2>12. CASE Revoke(o)
      BY <1>0, <2>12 DEF Revoke, Goto, clock, history
    <2> QED BY <1>3, <2>1, <2>2, <2>3, <2>4, <2>5, <2>6, <2>7, <2>8, <2>9, <2>10, <2>11, <2>12
  <1>4. ASSUME NEW k \in Token, SignOut(k)
        PROVE  FreshCopies'
    BY <1>0, <1>4 DEF SignOut, clock, history
  <1>5. CASE UNCHANGED vars
    BY <1>0, <1>5 DEF vars, clock, history
  <1> QED BY NextCases, <1>1, <1>2, <1>3, <1>4, <1>5, <1>6

\* Every step leaves an undisturbed set-up or adoption without an account.
LEMMA VacantStep ==
  ASSUME AuthInv, [Next]_vars
  PROVE  StillVacant'
  <1> USE DEF TypeOK, KindAtPC, StillVacant, Requests, Commands, Firsts
  <1>0. TypeOK /\ KindAtPC /\ StillVacant
    BY DEF AuthInv, FileInv
  <1>1. ASSUME NEW o \in Op, UNCHANGED <<file, damaged>>, disturbed \ {o} \subseteq disturbed',
               kind[o] \in Firsts => (o \in disturbed => o \in disturbed'),
               kind' = kind, \A p \in Op \ {o} : pc'[p] = pc[p],
               pc'[o] \in {"read", "persist"} => (kind[o] \in Firsts => pc[o] \in {"read", "persist"})
        PROVE  StillVacant'
    BY <1>0, <1>1 DEF Vacant, Exists
  <1>2. CASE Tick \/ UNCHANGED vars
    BY <1>0, <1>2 DEF Tick, vars, history, Vacant, Exists
  <1>3. CASE Restart
    BY <1>0, <1>3, RestartFacts DEF Vacant, Exists
  <1>4. CASE LoseFile
    BY <1>0, <1>4 DEF LoseFile, Disturbs, Running
  <1>5. ASSUME NEW k \in Token, SignOut(k)
        PROVE  StillVacant'
    BY <1>0, <1>5 DEF SignOut, history, Vacant, Exists
  <1>6. ASSUME NEW o \in Op,
               \/ Login(o) \/ SecondFactor(o) \/ ReadSecret(o) \/ LoginCode(o)
               \/ ConfirmCode(o) \/ RefuseCode(o) \/ StartSession(o) \/ Started(o)
               \/ Read(o) \/ Persist(o) \/ PersistError(o) \/ Revoke(o)
        PROVE  StillVacant'
    <2>1. CASE Login(o)
      BY <1>0, <2>1 DEF Login, Goto, Vacant, Exists
    <2>2. CASE SecondFactor(o)
      BY <1>0, <1>1, <2>2 DEF SecondFactor, Goto, history
    <2>3. CASE ReadSecret(o)
      BY <1>0, <1>1, <2>3 DEF ReadSecret, Goto, history
    <2>4. CASE LoginCode(o)
      BY <1>0, <1>1, <2>4 DEF LoginCode, Goto
    <2>5. CASE ConfirmCode(o)
      BY <1>0, <1>1, <2>5 DEF ConfirmCode, AcceptCode, Goto
    <2>6. CASE RefuseCode(o)
      BY <1>0, <1>1, <2>6 DEF RefuseCode, Goto, history
    <2>7. CASE StartSession(o)
      BY <1>0, <1>1, <2>7 DEF StartSession, Goto, history
    <2>8. CASE Started(o)
      BY <1>0, <2>8 DEF Started, Begins, Goto, history, Vacant, Exists
    <2>9. CASE Read(o)
      BY <1>0, <1>1, <2>9, ReadFacts, ReadLeaves
    <2>10. CASE Persist(o)
      BY <1>0, <2>10 DEF Persist, Disturbs, Running, Goto
    <2>11. CASE PersistError(o)
      BY <1>0, <1>1, <2>11 DEF PersistError, Goto, history
    <2>12. CASE Revoke(o)
      BY <1>0, <1>1, <2>12 DEF Revoke, Goto, history
    <2> QED BY <1>6, <2>1, <2>2, <2>3, <2>4, <2>5, <2>6, <2>7, <2>8, <2>9, <2>10, <2>11, <2>12
  <1> QED BY NextCases, <1>2, <1>3, <1>4, <1>5, <1>6

\* Every step gives sessions only to those who know their password.
LEMMA SessionsStep ==
  ASSUME AuthInv, [Next]_vars
  PROVE  KnownSessions'
  <1> USE AuthAssumption DEF TypeOK, KindAtPC, KnownSessions, Token, Salt, Secret, Firsts, Passwords
  <1>0. TypeOK /\ KindAtPC /\ KnownSessions
    BY DEF AuthInv, FileInv
  <1>1. CASE Tick
    BY <1>0, <1>1 DEF Tick, history
  <1>2. CASE Restart
    BY <1>0, <1>2, RestartFacts
  <1>6. CASE LoseFile
    BY <1>0, <1>6, NoAccountFacts DEF LoseFile, Disturbs, Running, clock
  <1>3. ASSUME NEW o \in Op,
               \/ Login(o) \/ SecondFactor(o) \/ ReadSecret(o) \/ LoginCode(o)
               \/ ConfirmCode(o) \/ RefuseCode(o) \/ StartSession(o) \/ Started(o)
               \/ Read(o) \/ Persist(o) \/ PersistError(o) \/ Revoke(o)
        PROVE  KnownSessions'
    <2>1. CASE Login(o)
      BY <1>0, <2>1 DEF Login, Goto, clock, history
    <2>2. CASE SecondFactor(o)
      BY <1>0, <2>2 DEF SecondFactor, Goto, clock, history
    <2>3. CASE ReadSecret(o)
      BY <1>0, <2>3 DEF ReadSecret, Goto, clock, history
    <2>4. CASE LoginCode(o)
      BY <1>0, <2>4 DEF LoginCode, Goto, AcceptCode, Newer, Shown, clock, history
    <2>5. CASE ConfirmCode(o)
      BY <1>0, <2>5, Confirmed DEF ConfirmCode, Goto, AcceptCode, Newer, Shown, clock, history
    <2>6. CASE RefuseCode(o)
      BY <1>0, <2>6 DEF RefuseCode, Goto, clock, history
    <2>7. CASE StartSession(o)
      BY <1>0, <2>7 DEF StartSession, Goto, WithSession, clock, history
    <2>8. CASE Started(o)
      BY <1>0, <2>8 DEF Started, Begins, Goto, clock, history
    <2>9. CASE Read(o)
      BY <1>0, <2>9, ReadFacts, ReadLeaves
    <2>10. CASE Persist(o)
      BY <1>0, <2>10 DEF Persist, Disturbs, Running, Goto, clock, history
    <2>11. CASE PersistError(o)
      BY <1>0, <2>11 DEF PersistError, Goto, clock, history
    <2>12. CASE Revoke(o)
      BY <1>0, <2>12 DEF Revoke, Goto, clock, history
    <2> QED BY <1>3, <2>1, <2>2, <2>3, <2>4, <2>5, <2>6, <2>7, <2>8, <2>9, <2>10, <2>11, <2>12
  <1>4. ASSUME NEW k \in Token, SignOut(k)
        PROVE  KnownSessions'
    BY <1>0, <1>4 DEF SignOut, clock, history
  <1>5. CASE UNCHANGED vars
    BY <1>0, <1>5 DEF vars, clock, history
  <1> QED BY NextCases, <1>1, <1>2, <1>3, <1>4, <1>5, <1>6

\* The invariant holds at first ...
LEMMA AuthInit == ASSUME Init PROVE AuthInv
  <1>1. file \in Credentials /\ (file.totp = "on" => file.secret = First)
        /\ file.salt \in {First, None}
    BY DEF Init, NoAccount, Credentials, Salt, Secret
  <1>2. TypeOK
    <2>1. session \in [Token -> Salt \cup {None}] /\ knows \in [Token -> Salt]
      BY <1>1 DEF Init, Salt
    <2>2. pc \in [Op -> PC] /\ kind \in [Op -> Kinds \cup {"none"}]
      BY DEF Init, PC
    <2>3. copy \in [Op -> Credentials] /\ damaged \in BOOLEAN
      BY <1>1 DEF Init
    <2> QED BY <1>1, <2>1, <2>2, <2>3, AuthAssumption DEF Init, TypeOK, Secret, Step
  <1>3. KindAtPC /\ CodesInOrder
    BY DEF Init, KindAtPC, CodesInOrder, Step
  <1>4. DemandProven /\ FreshCopies /\ StillVacant
    BY <1>1 DEF Init, DemandProven, FreshCopies, StillVacant
  <1>5. KnownSessions
    BY <1>1, AuthAssumption DEF Init, KnownSessions, Token
  <1> QED
    BY <1>2, <1>3, <1>4, <1>5 DEF AuthInv, FileInv

\* ... and always.
LEMMA AuthInvariant == Spec => []AuthInv
  <1>1. AuthInv /\ [Next]_vars => AuthInv'
    <2> SUFFICES ASSUME AuthInv, [Next]_vars PROVE AuthInv'
      OBVIOUS
    <2> QED
      BY TypeStep, KindStep, CodesStep, DemandStep, CopiesStep, VacantStep, SessionsStep
      DEF AuthInv, FileInv
  <1> QED BY AuthInit, <1>1, PTL DEF Spec

\* The declared types hold for any operations and any bound of the clock.
THEOREM AuthTypes == Spec => []TypeOK
  <1>1. AuthInv => TypeOK
    BY DEF AuthInv, FileInv
  <1> QED BY AuthInvariant, <1>1, PTL

\* No code is accepted twice while the server runs.
THEOREM OneUsePerCode == Spec => []CodeOnce
  <1>1. AuthInv => CodeOnce
    BY DEF AuthInv, FileInv, CodesInOrder, CodeOnce
  <1> QED BY AuthInvariant, <1>1, PTL

\* No pending enrolment becomes a login requirement.
THEOREM NoLockOut == Spec => []OnlyProvenSecrets
  <1>1. AuthInv => OnlyProvenSecrets
    BY DEF AuthInv, FileInv, DemandProven, OnlyProvenSecrets
  <1> QED BY AuthInvariant, <1>1, PTL

\* A valid session belongs to somebody who knows the current password, or to a
\* login that overlapped a change of the file.
THEOREM SessionBinding == Spec => []SessionsFollowPassword
  <1>1. AuthInv => SessionsFollowPassword
    <2> SUFFICES ASSUME AuthInv, NEW k \in Token, Valid(k)
                 PROVE  knows[k] = file.salt \/ k \in disturbed
      BY DEF SessionsFollowPassword
    <2> QED BY DEF AuthInv, KnownSessions, Valid, Exists
  <1> QED BY AuthInvariant, <1>1, PTL

\* A change that no other change overlaps touches only its own fields.
THEOREM FieldsKept == Spec => UndisturbedKeepsFields
  <1>1. AuthInv /\ [Next]_vars
        => [\A o \in Op \ disturbed : Writes(o) => OwnFieldsOnly(o)]_vars
    <2> SUFFICES ASSUME AuthInv, NEW o \in Op \ disturbed, Writes(o)
                 PROVE  OwnFieldsOnly(o)
      OBVIOUS
    <2> QED
      BY DEF AuthInv, FileInv, FreshCopies, StillVacant, Writes, OwnFieldsOnly
  <1> QED BY AuthInvariant, <1>1, PTL DEF Spec, UndisturbedKeepsFields
=============================================================================
