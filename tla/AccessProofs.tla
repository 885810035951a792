----------------------------- MODULE AccessProofs -----------------------------
(***************************************************************************)
(* Proofs about the access file.  The lemmas on Normalize come first: what *)
(* it returns is canonical, and normalising it again changes nothing.      *)
(* Then the inductive invariant; the refinement of PolicyGate; and last    *)
(* what a written policy means, which normalising does not change.         *)
(***************************************************************************)
EXTENDS AccessStore, Induction, TLAPS

LEMMA NumberFacts ==
  ASSUME NEW w \in Written
  PROVE  /\ NumberOK(w) => /\ NormalizeNumber(w) \in [digits : Digits, form : {"plain"}]
                           /\ NormalizeNumber(w).digits = w.digits
                           /\ NumberOK(NormalizeNumber(w))
                           /\ NormalizeNumber(NormalizeNumber(w)) = NormalizeNumber(w)
         /\ ~NumberOK(Blank)
<1>1. ~NumberOK(Blank)
  BY DEF NumberOK, Blank
<1>2. ASSUME NumberOK(w)
      PROVE  /\ NormalizeNumber(w) \in [digits : Digits, form : {"plain"}]
             /\ NormalizeNumber(w).digits = w.digits
             /\ NumberOK(NormalizeNumber(w))
             /\ NormalizeNumber(NormalizeNumber(w)) = NormalizeNumber(w)
  <2>1. w \in [digits : Digits, form : {"plain", "pretty", "junk"}]
    BY <1>1, <1>2 DEF Written
  <2>2. NormalizeNumber(w) = [digits |-> w.digits, form |-> "plain"]
    BY <2>1 DEF NormalizeNumber
  <2>3. NormalizeNumber([digits |-> w.digits, form |-> "plain"])
          = [digits |-> w.digits, form |-> "plain"]
    BY DEF NormalizeNumber
  <2> QED
    BY <2>1, <2>2, <2>3 DEF NumberOK
<1> QED
  BY <1>1, <1>2

LEMMA LIDFacts ==
  ASSUME NEW j \in JID
  PROVE  /\ NormalizeLID(j) \in [user : Digits \cup {""}, server : {""}]
         /\ NormalizeLID(NormalizeLID(j)) = NormalizeLID(j)
  BY DEF JID, NormalizeLID

LEMMA RosterFacts ==
  ASSUME NEW ms \in Roster
  PROVE  /\ DOMAIN ms \subseteq Slot
         /\ \A i \in DOMAIN ms : ms[i] \in Member
  BY DEF Roster

CanonicalNumber == [digits : Digits, form : {"plain"}] \cup {Blank}
CanonicalMember == [phone : CanonicalNumber \ {Blank},
                    lid : [user : Digits \cup {""}, server : {""}]]
CanonicalGroup == {NoJID} \cup [user : Digits \cup Group, server : {"group"}]
CanonicalRoster == UNION {[S -> CanonicalMember] : S \in SUBSET Slot}

LEMMA CanonicalIs ==
  Canonical = [mode : {"personal", "team", "none"}, number : CanonicalNumber,
               group : CanonicalGroup, members : CanonicalRoster]
  BY DEF Canonical, CanonicalNumber, CanonicalMember, CanonicalGroup, CanonicalRoster

Canon(m) == [phone |-> NormalizeNumber(m.phone), lid |-> NormalizeLID(m.lid)]
Normal(ms) == [i \in FirstEntries(ms) |-> Canon(ms[i])]

LEMMA NormalizeIs ==
  ASSUME NEW c
  PROVE  Normalize(c) =
    [mode |-> c.mode,
     number |-> IF NumberOK(c.number) THEN NormalizeNumber(c.number) ELSE Blank,
     group |-> IF IsGroupJID(c.group) THEN c.group ELSE NoJID,
     members |-> Normal(c.members)]
  BY DEF Normalize, Normal, Canon

LEMMA CanonFacts ==
  ASSUME NEW m \in Member, NumberOK(m.phone)
  PROVE  /\ Canon(m) \in CanonicalMember
         /\ Canon(m).phone.digits = m.phone.digits
         /\ NumberOK(Canon(m).phone)
         /\ Canon(Canon(m)) = Canon(m)
<1>1. m.phone \in Written /\ m.lid \in JID
  BY DEF Member
<1>2. Canon(m).phone = NormalizeNumber(m.phone) /\ Canon(m).lid = NormalizeLID(m.lid)
  BY DEF Canon
<1>3. NormalizeNumber(m.phone) # Blank
  BY <1>1, NumberFacts
<1>4. Canon(m) \in CanonicalMember
  BY <1>1, <1>3, NumberFacts, LIDFacts DEF Canon, CanonicalMember, CanonicalNumber
<1>5. Canon(Canon(m)) = Canon(m)
  BY <1>1, <1>2, NumberFacts, LIDFacts DEF Canon
<1> QED
  BY <1>1, <1>2, <1>4, <1>5, NumberFacts

(* A roster that was normalised is valid, and stays as it is. *)
LEMMA NormalRoster ==
  ASSUME NEW ms \in Roster, \A i \in DOMAIN ms : NumberOK(ms[i].phone)
  PROVE  /\ Normal(ms) \in CanonicalRoster
         /\ \A i \in DOMAIN Normal(ms) : NumberOK(Normal(ms)[i].phone)
         /\ Normal(Normal(ms)) = Normal(ms)
<1> DEFINE F == FirstEntries(ms)
           ns == Normal(ms)
<1>1. F \subseteq DOMAIN ms /\ F \subseteq Slot
  BY RosterFacts DEF FirstEntries
<1>2. DOMAIN ns = F /\ \A i \in F : ns[i] = Canon(ms[i])
  BY DEF Normal
<1>3. \A i \in F : /\ Canon(ms[i]) \in CanonicalMember
                   /\ Canon(ms[i]).phone.digits = ms[i].phone.digits
                   /\ NumberOK(Canon(ms[i]).phone)
                   /\ Canon(Canon(ms[i])) = Canon(ms[i])
  BY <1>1, RosterFacts, CanonFacts
<1>4. ns \in CanonicalRoster
  <2>1. ns \in [F -> CanonicalMember]
    BY <1>3 DEF Normal
  <2> QED
    BY <1>1, <2>1 DEF CanonicalRoster
<1>5. FirstEntries(ns) = F
  BY <1>1, <1>2, <1>3 DEF FirstEntries
<1>6. Normal(ns) = [i \in F |-> Canon(ns[i])]
  BY <1>5 DEF Normal
<1>7. [i \in F |-> Canon(ns[i])] = [i \in F |-> Canon(ms[i])]
  BY <1>2, <1>3
<1>8. Normal(ns) = ns
  BY <1>6, <1>7 DEF Normal
<1> QED
  BY <1>2, <1>3, <1>4, <1>8

LEMMA CanonicalIsConfig == Canonical \subseteq Config
<1>1. CanonicalNumber \subseteq Written
  BY DEF CanonicalNumber, Written
<1>2. CanonicalGroup \subseteq JID
  <2>1. NoJID \in JID
    BY DEF NoJID, JID
  <2>2. [user : Digits \cup Group, server : {"group"}] \subseteq JID
    BY DEF JID
  <2> QED
    BY <2>1, <2>2 DEF CanonicalGroup
<1>3. CanonicalMember \subseteq Member
  BY <1>1 DEF CanonicalMember, Member, JID
<1>4. CanonicalRoster \subseteq Roster
  BY <1>3 DEF CanonicalRoster, Roster
<1> QED
  BY <1>1, <1>2, <1>4, CanonicalIs DEF Config

(* What Normalize returns is canonical, valid, and stays as it is. *)
LEMMA NormalizeFacts ==
  ASSUME NEW c \in Config, Valid(c)
  PROVE  /\ Normalize(c) \in Canonical
         /\ Valid(Normalize(c))
         /\ Normalize(Normalize(c)) = Normalize(c)
<1> DEFINE n == Normalize(c)
<1>1. /\ c.mode \in {"personal", "team"} /\ c.number \in Written
      /\ c.group \in JID /\ c.members \in Roster
      /\ \A i \in DOMAIN c.members : NumberOK(c.members[i].phone)
  BY DEF Config, Valid
<1>2. /\ n.mode = c.mode
      /\ n.number = IF NumberOK(c.number) THEN NormalizeNumber(c.number) ELSE Blank
      /\ n.group = IF IsGroupJID(c.group) THEN c.group ELSE NoJID
      /\ n.members = Normal(c.members)
  BY NormalizeIs
<1>3. /\ n.number \in CanonicalNumber
      /\ NumberOK(c.number) => NumberOK(n.number)
      /\ (IF NumberOK(n.number) THEN NormalizeNumber(n.number) ELSE Blank) = n.number
  BY <1>1, <1>2, NumberFacts DEF CanonicalNumber
<1>4. /\ n.group \in CanonicalGroup
      /\ IsGroupJID(c.group) => IsGroupJID(n.group)
      /\ (IF IsGroupJID(n.group) THEN n.group ELSE NoJID) = n.group
  BY <1>1, <1>2 DEF CanonicalGroup, IsGroupJID, JID, NoJID
<1>5. /\ n.members \in CanonicalRoster
      /\ \A i \in DOMAIN n.members : NumberOK(n.members[i].phone)
      /\ Normal(n.members) = n.members
  BY <1>1, <1>2, NormalRoster
<1>6. n = [mode |-> n.mode, number |-> n.number, group |-> n.group,
           members |-> n.members]
  BY NormalizeIs
<1>7. n \in Canonical
  BY <1>1, <1>2, <1>3, <1>4, <1>5, <1>6, CanonicalIs
<1>8. Valid(n)
  BY <1>1, <1>2, <1>3, <1>4, <1>5 DEF Valid
<1>9. Normalize(n) = n
  BY <1>3, <1>4, <1>5, <1>6, NormalizeIs
<1> QED
  BY <1>7, <1>8, <1>9

LEMMA DeniedFacts ==
  /\ Denied \in Canonical /\ Normalize(Denied) = Denied
  /\ Denied.members = NoMembers /\ Denied.mode = "none"
<1>1. FirstEntries(NoMembers) = {}
  BY DEF FirstEntries, NoMembers
<1>2. Normal(NoMembers) = NoMembers
  BY <1>1 DEF Normal, NoMembers
<1>3. NoMembers \in [{} -> CanonicalMember]
  BY DEF NoMembers
<1>4. NoMembers \in CanonicalRoster
  BY <1>3 DEF CanonicalRoster
<1>5. Blank \in CanonicalNumber /\ NoJID \in CanonicalGroup
  BY DEF CanonicalNumber, CanonicalGroup
<1>6. ~NumberOK(Blank) /\ ~IsGroupJID(NoJID)
  BY DEF NumberOK, Blank, IsGroupJID, NoJID
<1>7. Denied \in Canonical
  BY <1>4, <1>5, CanonicalIs DEF Denied
<1>8. /\ Denied.mode = "none" /\ Denied.number = Blank /\ Denied.group = NoJID
      /\ Denied.members = NoMembers
  BY DEF Denied
<1>9. Normalize(Denied) = Denied
  BY <1>2, <1>6, <1>8, NormalizeIs DEF Denied
<1> QED
  BY <1>7, <1>8, <1>9

LEMMA AnyElement ==
  ASSUME NEW S, S # {} PROVE (CHOOSE x \in S : TRUE) \in S
  OBVIOUS

LEMMA LegacyNumberFacts ==
  /\ LegacyNumber \in CanonicalNumber
  /\ (IF NumberOK(LegacyNumber) THEN NormalizeNumber(LegacyNumber) ELSE Blank)
       = LegacyNumber
<1>1. CASE FirstSender = {}
  <2>1. LegacyNumber = Blank
    BY <1>1 DEF LegacyNumber
  <2> QED
    BY <2>1, Blank \in Written, NumberFacts DEF CanonicalNumber, Written
<1>2. CASE FirstSender # {}
  <2>1. PICK i \in FirstSender : LegacyNumber = NormalizeNumber(AllowedSenders[i])
    BY <1>2, AnyElement DEF LegacyNumber
  <2>2. PICK S \in SUBSET Slot : AllowedSenders \in [S -> Written]
    BY InputAssumption
  <2>3. AllowedSenders[i] \in Written /\ NumberOK(AllowedSenders[i])
    BY <2>1, <2>2 DEF FirstSender
  <2> QED
    BY <2>1, <2>3, NumberFacts DEF CanonicalNumber
<1> QED
  BY <1>1, <1>2

LEMMA LegacyFacts ==
  /\ Legacy \in Canonical /\ Normalize(Legacy) = Legacy
<1>1. Legacy = [mode |-> "personal", number |-> LegacyNumber, group |-> NoJID,
                members |-> NoMembers]
  BY DEF Legacy
<1>2. NoMembers \in CanonicalRoster /\ Normal(NoMembers) = NoMembers
  <2>1. Denied.members \in CanonicalRoster
    BY DeniedFacts, CanonicalIs
  <2>2. Normalize(Denied).members = Normal(Denied.members)
    BY NormalizeIs
  <2> QED
    BY <2>1, <2>2, DeniedFacts
<1>3. NoJID \in CanonicalGroup /\ ~IsGroupJID(NoJID)
  BY DEF CanonicalGroup, IsGroupJID, NoJID
<1>4. Legacy \in Canonical
  BY <1>1, <1>2, <1>3, LegacyNumberFacts, CanonicalIs
<1>5. Normalize(Legacy) = Legacy
  BY <1>1, <1>2, <1>3, LegacyNumberFacts, NormalizeIs
<1> QED
  BY <1>4, <1>5
-----------------------------------------------------------------------------
(* Facts about single steps. *)

LEMMA PolicyFacts ==
  ASSUME NEW f \in File
  PROVE  /\ Policy(f) \in Canonical /\ Normalize(Policy(f)) = Policy(f)
         /\ InForce(f) \subseteq Canonical /\ Policy(f) \in InForce(f)
         /\ f.state = "absent" => Policy(f) = Legacy /\ Denied \in InForce(f)
         /\ f.state # "absent" =>
              Policy(f) = IF Usable(f) THEN Normalize(f.cfg) ELSE Denied
<1>1. f.cfg \in Config /\ f.state \in {"absent", "broken", "config"}
  BY DEF File
<1>2. Usable(f) => /\ Normalize(f.cfg) \in Canonical
                   /\ Normalize(Normalize(f.cfg)) = Normalize(f.cfg)
  BY <1>1, NormalizeFacts DEF Usable
<1> QED
  BY <1>1, <1>2, DeniedFacts, LegacyFacts DEF Policy, InForce, Usable

LEMMA AskedFacts ==
  ASSUME NEW c \in Canonical, NEW r \in Request
  PROVE  /\ Asked(c, r) \in Config
         /\ Asked(c, r).number = IF "number" \in r.sets THEN r.number ELSE c.number
         /\ Asked(c, r).group = IF "team" \in r.sets THEN r.group ELSE c.group
         /\ Asked(c, r).members = IF "team" \in r.sets THEN r.members ELSE c.members
<1>1. c \in Config
  BY CanonicalIsConfig
<1>2. /\ c.number \in Written /\ c.group \in JID /\ c.members \in Roster
      /\ r.mode \in {"personal", "team", "none"} /\ r.number \in Written
      /\ r.group \in JID /\ r.members \in Roster
  BY <1>1 DEF Config, Request
<1> QED
  BY <1>2 DEF Asked, Config

LEMMA SavedFacts ==
  ASSUME NEW c \in Config, Valid(c), file \in File
  PROVE  /\ SavedFile(c) \in File /\ SavedFile(c).at = file.at + 1
         /\ SavedFile(c).by = "save" /\ SavedFile(c).state = "config"
         /\ SavedFile(c).cfg = Normalize(c)
         /\ Policy(SavedFile(c)) = Normalize(c)
<1>1. Normalize(c) \in Canonical /\ Normalize(c) \in Config
  BY NormalizeFacts, CanonicalIsConfig
<1>2. file.at \in Nat
  BY DEF File
<1>3. /\ SavedFile(c).at = file.at + 1 /\ SavedFile(c).by = "save"
      /\ SavedFile(c).state = "config" /\ SavedFile(c).cfg = Normalize(c)
  BY DEF SavedFile
<1>4. SavedFile(c) \in File
  BY <1>1, <1>2 DEF SavedFile, File
<1>5. Policy(SavedFile(c)) = Normalize(c)
  BY <1>3, NormalizeFacts DEF Policy
<1> QED
  BY <1>3, <1>4, <1>5

(* An edit by hand is a change of the file and of nothing else. *)
ByHand(f) ==
  /\ f \in File /\ f.at = file.at + 1 /\ f.by = "hand"
  /\ Change(f)
  /\ UNCHANGED <<store, pc, req, base, sawAt, inc, verdict>>

LEMMA HandFacts ==
  ASSUME TypeOK, Edit \/ Damage \/ Remove
  PROVE  \E f : ByHand(f)
<1>1. file.at + 1 \in Nat
  BY DEF TypeOK, File
<1>2. Denied \in Config /\ HandEdits \subseteq Config
  BY DeniedFacts, CanonicalIsConfig, InputAssumption
<1>3. CASE Edit
  <2>1. PICK c \in HandEdits :
          Change([state |-> "config", cfg |-> c, at |-> file.at + 1, by |-> "hand"])
    BY <1>3 DEF Edit
  <2>2. ByHand([state |-> "config", cfg |-> c, at |-> file.at + 1, by |-> "hand"])
    BY <1>1, <1>2, <1>3, <2>1 DEF Edit, ByHand, File
  <2> QED
    BY <2>2
<1>4. CASE Damage
  <2>1. ByHand([state |-> "broken", cfg |-> Denied, at |-> file.at + 1,
                by |-> "hand"])
    BY <1>1, <1>2, <1>4 DEF Damage, ByHand, File
  <2> QED
    BY <2>1
<1>5. CASE Remove
  <2>1. ByHand([state |-> "absent", cfg |-> Denied, at |-> file.at + 1,
                by |-> "hand"])
    BY <1>1, <1>2, <1>5 DEF Remove, ByHand, File
  <2> QED
    BY <2>1
<1> QED
  BY <1>3, <1>4, <1>5

LEMMA HomeFacts ==
  ASSUME NEW t \in Task
  PROVE  /\ Home(t) \in Process
         /\ t \in Saver => t \notin Message
         /\ t \notin Saver => t \in Message
  BY TaskAssumption DEF Task, Home, Process

LEMMA StoreFacts ==
  ASSUME file \in File
  PROVE  /\ Unopened \in Store /\ Environment \in Store
         /\ \A s \in Store : /\ Loaded(s) \in Store
                             /\ Loaded(s).mtime = s.mtime /\ Loaded(s).src = s.src
                             /\ Loaded(s).init = s.init
                             /\ Loaded(s).err = IF Usable(file) THEN "no" ELSE "yes"
                             /\ Loaded(s).cfg = IF Usable(file) THEN Normalize(file.cfg)
                                                ELSE Denied
<1>1. (IF Usable(file) THEN Normalize(file.cfg) ELSE Denied) \in Canonical
  BY NormalizeFacts, DeniedFacts DEF File, Usable
<1>2. Unopened \in Store
  BY DeniedFacts DEF Unopened, Store
<1>3. Environment \in Store
  BY LegacyFacts DEF Environment, Store
<1> DEFINE pol == IF Usable(file) THEN Normalize(file.cfg) ELSE Denied
           bad == IF Usable(file) THEN "no" ELSE "yes"
<1>4. bad \in {"yes", "no"}
  OBVIOUS
<1>5. \A s : Loaded(s) = [s EXCEPT !.cfg = pol, !.err = bad]
  BY DEF Loaded
<1> HIDE DEF pol, bad
<1>6. \A s \in Store : /\ Loaded(s) \in Store
                       /\ Loaded(s).mtime = s.mtime /\ Loaded(s).src = s.src
                       /\ Loaded(s).init = s.init
                       /\ Loaded(s).err = bad /\ Loaded(s).cfg = pol
  BY <1>1, <1>4, <1>5 DEF Store, pol
<1> QED
  BY <1>2, <1>3, <1>6 DEF pol, bad

PCs == {"idle", "decide", "lookup", "put", "done"} \cup Calls \cup Reading

LEMMA ReturnFacts ==
  ASSUME TypeOK, NEW t \in Task, NEW call \in Calls, NEW s \in Store,
         Return(t, call, s)
  PROVE  /\ base' \in [Task -> Canonical] /\ pc' \in [Task -> PCs]
         /\ \A u \in Task \ {t} : base'[u] = base[u] /\ pc'[u] = pc[u]
         /\ call = "get" => /\ base'[t] = s.cfg
                            /\ pc'[t] = IF t \in Saver THEN "err" ELSE "decide"
         /\ call = "err" => /\ base'[t] = IF s.err = "yes" THEN Denied ELSE base[t]
                            /\ pc'[t] = "put"
         /\ call = "saved" => pc'[t] = "done"
<1>1. s.cfg \in Canonical /\ Denied \in Canonical
  BY DeniedFacts DEF Store
<1>2. base \in [Task -> Canonical] /\ pc \in [Task -> PCs]
  BY DEF TypeOK, PCs
<1> DEFINE b == IF call = "get" THEN s.cfg
                ELSE IF call = "err" /\ s.err = "yes" THEN Denied ELSE base[t]
           q == IF call = "get" THEN IF t \in Saver THEN "err" ELSE "decide"
                ELSE IF call = "err" THEN "put" ELSE "done"
<1>3. base' = [base EXCEPT ![t] = b] /\ pc' = [pc EXCEPT ![t] = q]
  BY DEF Return
<1>4. b \in Canonical /\ q \in PCs
  BY <1>1, <1>2 DEF PCs, Calls
<1> HIDE DEF b, q
<1>5. /\ base' \in [Task -> Canonical] /\ pc' \in [Task -> PCs]
      /\ \A u \in Task \ {t} : base'[u] = base[u] /\ pc'[u] = pc[u]
      /\ base'[t] = b /\ pc'[t] = q
  BY <1>2, <1>3, <1>4
<1> QED
  BY <1>5 DEF b, q, Calls

LEMMA ChangeFacts ==
  ASSUME TypeOK, NEW f \in File, Change(f)
  PROVE  /\ file' = f
         /\ seen' \in [Message -> SUBSET Canonical]
         /\ \A t \in Message :
              /\ pc[t] \in {"idle", "done"} => seen'[t] = seen[t]
              /\ pc[t] \notin {"idle", "done"} => seen'[t] = seen[t] \cup InForce(f)
<1>1. InForce(f) \subseteq Canonical
  BY PolicyFacts
<1> QED
  BY <1>1 DEF Change, TypeOK

LEMMA ForgetFacts ==
  ASSUME TypeOK, NEW T \in SUBSET Task, Forget(T)
  PROVE  /\ pc' \in [Task -> PCs] /\ base' \in [Task -> Canonical]
         /\ req' \in [Saver -> Request] /\ sawAt' \in [Saver -> Nat]
         /\ inc' \in [Message -> Incoming]
         /\ verdict' \in [Message -> {"none", "allow", "deny"}]
         /\ seen' \in [Message -> SUBSET Canonical]
         /\ \A t \in Task : IF t \in T THEN pc'[t] = "idle"
                            ELSE pc'[t] = pc[t] /\ base'[t] = base[t]
         /\ \A t \in Saver : IF t \in T THEN sawAt'[t] = 0
                             ELSE sawAt'[t] = sawAt[t] /\ req'[t] = req[t]
         /\ \A t \in Message : IF t \in T THEN verdict'[t] = "none"
                               ELSE /\ seen'[t] = seen[t] /\ inc'[t] = inc[t]
                                    /\ verdict'[t] = verdict[t]
<1>1. Denied \in Canonical
  BY DeniedFacts
<1>2. NoRequest \in Request
  <2>1. NoMembers \in Roster /\ Blank \in Written /\ NoJID \in JID
    BY DeniedFacts, CanonicalIsConfig DEF Config, Denied
  <2> QED
    BY <2>1 DEF NoRequest, Request
<1>3. NoMessage \in Incoming
  BY DEF NoMessage, Incoming, NoJID, JID
<1>4. pc' \in [Task -> PCs] /\ base' \in [Task -> Canonical]
  BY <1>1 DEF Forget, TypeOK, PCs
<1>5. req' \in [Saver -> Request] /\ sawAt' \in [Saver -> Nat]
  BY <1>2 DEF Forget, TypeOK
<1>6. /\ inc' \in [Message -> Incoming]
      /\ verdict' \in [Message -> {"none", "allow", "deny"}]
      /\ seen' \in [Message -> SUBSET Canonical]
  BY <1>3 DEF Forget, TypeOK
<1> QED
  BY <1>4, <1>5, <1>6 DEF Forget
-----------------------------------------------------------------------------
(* The inductive invariant. *)

(* A Store knows no later version than the file's, and what it took from   *)
(* the environment is the environment's policy.                            *)
KnownVersions ==
  \A p \in Process :
    /\ store[p].mtime <= file.at
    /\ store[p].src = "env" =>
         store[p].err = "no" /\ (store[p].init = "yes" => store[p].cfg = Legacy)

(* While a task reads the file, nobody takes the Store back to the         *)
(* environment.                                                            *)
ReadsFile == \A t \in Task : pc[t] \in Reading => store[Home(t)].src = "file"

(* While a webhook reads the policy, what is in force is recorded; the     *)
(* policy it then holds is one of those.                                   *)
Watched ==
  \A t \in Message :
    /\ pc[t] \in {"get", "getRead"} => InForce(file) \subseteq seen[t]
    /\ pc[t] \in {"decide", "lookup"} => base[t] \in seen[t]
    /\ verdict[t] # "none" => pc[t] = "done"

(* A save that nothing overtook holds the policy of the file.              *)
Started ==
  \A t \in Saver :
    /\ sawAt[t] <= file.at
    /\ sawAt[t] = file.at =>
         /\ pc[t] \in {"getRead", "errRead"} => file.state # "absent"
         /\ pc[t] \in {"err", "errRead", "put"} => base[t] = Policy(file)

AccessInv ==
  /\ TypeOK
  /\ KnownVersions /\ ReadsFile /\ CacheHonest
  /\ Watched /\ JudgedByPolicyInForce
  /\ Started /\ SavedIsEnforced

LEMMA InitAccess == Init => AccessInv
<1> SUFFICES ASSUME Init PROVE AccessInv
  OBVIOUS
<1>1. Denied \in Canonical /\ Denied \in Config
  BY DeniedFacts, CanonicalIsConfig
<1>2. NoRequest \in Request
  <2>1. NoMembers \in Roster /\ Blank \in Written /\ NoJID \in JID
    BY <1>1 DEF Config, Denied
  <2> QED
    BY <2>1 DEF NoRequest, Request
<1>3. NoMessage \in Incoming
  BY DEF NoMessage, Incoming, NoJID, JID
<1>4. file \in File /\ file.at = 0 /\ file.state = "absent" /\ file.by = "hand"
  BY <1>1 DEF Init, File
<1>5. store \in [Process -> Store] /\ \A p \in Process : store[p] = Unopened
  BY <1>4, StoreFacts DEF Init
<1>6. TypeOK
  BY <1>1, <1>2, <1>3, <1>4, <1>5 DEF Init, TypeOK
<1>7. KnownVersions /\ ReadsFile /\ CacheHonest
  BY <1>4, <1>5 DEF Init, KnownVersions, ReadsFile, Reading, CacheHonest, Unopened
<1>8. Watched /\ JudgedByPolicyInForce /\ Started /\ SavedIsEnforced
  BY <1>4, TaskAssumption DEF Init, Watched, JudgedByPolicyInForce, Started,
     SavedIsEnforced, Task
<1> QED
  BY <1>6, <1>7, <1>8 DEF AccessInv

(* What a call returns is the policy of the file; only if the file         *)
(* vanished between stat and read it is the empty policy instead.          *)
Truthful(t, s) ==
  /\ s \in Store /\ s.mtime <= file.at
  /\ s.src = "env" => s.err = "no" /\ (s.init = "yes" => s.cfg = Legacy)
  /\ \/ s.cfg = Policy(file) /\ (s.err = "yes" => Policy(file) = Denied)
     \/ s.cfg = Denied /\ file.state = "absent" /\ pc[t] \in Reading

LEMMA CallStep ==
  ASSUME AccessInv, NEW t \in Task, NEW call \in Calls, NEW s,
         Truthful(t, s), Return(t, call, s),
         ~Locked(Home(t)) \/ s.src = "file",
         store' = [store EXCEPT ![Home(t)] = s],
         pc[t] = call \/ (pc[t] \in Reading /\ CallOf(pc[t]) = call),
         pc[t] \in Reading => sawAt' = sawAt,
         pc[t] \notin Reading => Note(t, call),
         UNCHANGED <<file, req, inc, seen, verdict>>
  PROVE  AccessInv'
<1>1. s \in Store /\ file \in File /\ Home(t) \in Process /\ store \in [Process -> Store]
      /\ file.at \in Nat
  BY HomeFacts DEF AccessInv, TypeOK, Truthful, File
<1>2. /\ base' \in [Task -> Canonical] /\ pc' \in [Task -> PCs]
      /\ \A u \in Task \ {t} : base'[u] = base[u] /\ pc'[u] = pc[u]
      /\ call = "get" => /\ base'[t] = s.cfg
                         /\ pc'[t] = IF t \in Saver THEN "err" ELSE "decide"
      /\ call = "err" => /\ base'[t] = IF s.err = "yes" THEN Denied ELSE base[t]
                         /\ pc'[t] = "put"
      /\ call = "saved" => pc'[t] = "done"
  BY <1>1, ReturnFacts DEF AccessInv
<1>3. /\ store' \in [Process -> Store] /\ store'[Home(t)] = s
      /\ \A p \in Process \ {Home(t)} : store'[p] = store[p]
  BY <1>1
<1>4. /\ sawAt' \in [Saver -> Nat]
      /\ \A u \in Saver \ {t} : sawAt'[u] = sawAt[u]
      /\ t \in Saver => sawAt'[t] = IF pc[t] = "get" THEN file.at ELSE sawAt[t]
  <2>1. sawAt \in [Saver -> Nat]
    BY DEF AccessInv, TypeOK
  <2>2. CASE pc[t] \in Reading
    BY <2>1, <2>2 DEF Reading
  <2>3. CASE pc[t] \notin Reading
    <3>1. Note(t, call) /\ pc[t] = call
      BY <2>3
    <3> QED
      BY <1>1, <2>1, <3>1 DEF Note
  <2> QED
    BY <2>2, <2>3
<1>5. TypeOK'
  BY <1>2, <1>3, <1>4 DEF AccessInv, TypeOK, PCs
<1>6. KnownVersions'
  BY <1>3 DEF AccessInv, KnownVersions, Truthful
<1>12. ReadsFile'
  <2> SUFFICES ASSUME NEW u \in Task, pc'[u] \in Reading
               PROVE  store'[Home(u)].src = "file"
    BY DEF ReadsFile
  <2>1. u # t
    BY <1>2 DEF Calls, Reading
  <2>2. pc[u] \in Reading
    BY <1>2, <2>1
  <2>3. CASE Home(u) = Home(t)
    BY <1>3, <2>2, <2>3 DEF Locked
  <2>4. CASE Home(u) # Home(t)
    BY <1>3, <2>2, <2>4, HomeFacts DEF AccessInv, ReadsFile
  <2> QED
    BY <2>3, <2>4
<1>7. CacheHonest'
  <2> SUFFICES ASSUME NEW p \in Process, ~Locked(p)',
                      store'[p].init = "yes", store'[p].err = "no",
                      store'[p].src = "file", file.state # "absent",
                      store'[p].mtime = file.at
               PROVE  store'[p].cfg = Policy(file)
    BY DEF CacheHonest
  <2>1. CASE p = Home(t)
    BY <1>3, <2>1 DEF Truthful
  <2>2. CASE p # Home(t)
    <3>1. ~Locked(p)
      BY <1>2, <2>2 DEF Locked
    <3> QED
      BY <1>3, <2>2, <3>1 DEF AccessInv, CacheHonest
  <2> QED
    BY <2>1, <2>2
<1>8. s.cfg \in InForce(file)
  BY <1>1, PolicyFacts DEF Truthful
<1>9. Watched'
  <2> SUFFICES ASSUME NEW u \in Message
               PROVE  /\ pc'[u] \in {"get", "getRead"} => InForce(file) \subseteq seen[u]
                      /\ pc'[u] \in {"decide", "lookup"} => base'[u] \in seen[u]
                      /\ verdict[u] # "none" => pc'[u] = "done"
    BY DEF Watched, InForce, Policy
  <2>1. u \in Task /\ Watched
    BY DEF Task, AccessInv
  <2>2. CASE u # t
    BY <1>2, <2>1, <2>2 DEF Watched
  <2>3. CASE u = t
    <3>1. t \notin Saver /\ pc[t] # "done"
      BY <2>3, HomeFacts DEF Calls, Reading
    <3>2. call = "get" => pc[t] \in {"get", "getRead"}
      BY DEF CallOf, Reading
    <3> QED
      BY <1>2, <1>8, <2>1, <2>3, <3>1, <3>2 DEF Watched, Calls
  <2> QED
    BY <2>2, <2>3
<1>10. JudgedByPolicyInForce' /\ SavedIsEnforced'
  BY DEF AccessInv, JudgedByPolicyInForce, SavedIsEnforced, Policy
<1>11. Started'
  <2> SUFFICES ASSUME NEW u \in Saver
               PROVE  /\ sawAt'[u] <= file.at
                      /\ sawAt'[u] = file.at =>
                           /\ pc'[u] \in {"getRead", "errRead"} => file.state # "absent"
                           /\ pc'[u] \in {"err", "errRead", "put"} =>
                                base'[u] = Policy(file)
    BY DEF Started, Policy
  <2>1. u \in Task /\ Started
    BY DEF Task, AccessInv
  <2>2. CASE u # t
    BY <1>2, <1>4, <2>1, <2>2 DEF Started
  <2>3. CASE u = t
    <3>1. sawAt'[u] <= file.at
      BY <1>1, <1>4, <2>1, <2>3 DEF Started
    <3>2. pc'[u] \notin {"getRead", "errRead"}
      BY <1>2, <2>3 DEF Calls
    <3>3. ASSUME sawAt'[u] = file.at, call \in {"get", "err"}
          PROVE  base'[u] = Policy(file)
      <4>1. pc[t] \in Reading => pc[t] \in {"getRead", "errRead"} /\ sawAt[t] = file.at
        BY <1>4, <2>3, <3>3 DEF CallOf, Reading
      <4>2. pc[t] \in Reading => file.state # "absent"
        BY <2>1, <2>3, <4>1 DEF Started
      <4>3. s.cfg = Policy(file) /\ (s.err = "yes" => Policy(file) = Denied)
        BY <4>2 DEF Truthful
      <4>4. CASE call = "get"
        BY <1>2, <2>3, <4>3, <4>4
      <4>5. CASE call = "err"
        <5>1. pc[t] \in {"err", "errRead"} /\ sawAt[t] = file.at
          BY <1>4, <2>3, <3>3, <4>5 DEF CallOf, Reading
        <5>2. base[t] = Policy(file)
          BY <2>1, <2>3, <5>1 DEF Started
        <5> QED
          BY <1>2, <2>3, <4>3, <4>5, <5>2
      <4> QED
        BY <3>3, <4>4, <4>5
    <3>4. pc'[u] \in {"err", "errRead", "put"} => call \in {"get", "err"}
      BY <1>2, <2>3 DEF Calls
    <3> QED
      BY <3>1, <3>2, <3>3, <3>4
  <2> QED
    BY <2>2, <2>3
<1> QED
  BY <1>5, <1>6, <1>7, <1>9, <1>10, <1>11, <1>12 DEF AccessInv

(* What a call answers from the cache, from the environment and from the   *)
(* file is the truth.                                                      *)
LEMMA CachedTruth ==
  ASSUME AccessInv, NEW t \in Task, UseCached(t)
  PROVE  Truthful(t, store[Home(t)])
<1> DEFINE s == store[Home(t)]
<1>1. ~Locked(Home(t)) /\ Stands(t, s)
  BY DEF UseCached
<1>2. /\ Home(t) \in Process /\ s \in Store /\ file \in File
  BY HomeFacts DEF AccessInv, TypeOK
<1>3. s.cfg = Policy(file) /\ s.err = "no"
  <2>1. CASE file.state = "absent"
    BY <1>1, <1>2, <2>1, PolicyFacts DEF Stands, AccessInv, KnownVersions
  <2>2. CASE file.state # "absent"
    BY <1>1, <1>2, <2>2 DEF Stands, AccessInv, CacheHonest
  <2> QED
    BY <2>1, <2>2
<1> QED
  BY <1>2, <1>3 DEF Truthful, AccessInv, KnownVersions

LEMMA EnvironmentTruth ==
  ASSUME AccessInv, NEW t \in Task, UseEnvironment(t)
  PROVE  Truthful(t, Environment)
<1>1. file.state = "absent"
  BY DEF UseEnvironment
<1>2. file \in File /\ Environment \in Store /\ 0 <= file.at
  BY StoreFacts DEF AccessInv, TypeOK, File
<1> QED
  BY <1>1, <1>2, PolicyFacts DEF Truthful, Environment

LEMMA ReadTruth ==
  ASSUME AccessInv, NEW t \in Task, ReadFile(t)
  PROVE  /\ Truthful(t, Loaded(store[Home(t)]))
         /\ Loaded(store[Home(t)]).src = "file"
<1> DEFINE s == Loaded(store[Home(t)])
<1>1. pc[t] \in Reading
  BY DEF ReadFile
<1>2. /\ Home(t) \in Process /\ store \in [Process -> Store]
      /\ file \in File
  BY HomeFacts DEF AccessInv, TypeOK
<1>3. /\ s \in Store /\ s.mtime = store[Home(t)].mtime /\ s.src = store[Home(t)].src
      /\ s.init = store[Home(t)].init
      /\ s.err = IF Usable(file) THEN "no" ELSE "yes"
      /\ s.cfg = IF Usable(file) THEN Normalize(file.cfg) ELSE Denied
  BY <1>2, StoreFacts
<1>4. \/ s.cfg = Policy(file) /\ (s.err = "yes" => Policy(file) = Denied)
      \/ s.cfg = Denied /\ file.state = "absent" /\ pc[t] \in Reading
  BY <1>1, <1>2, <1>3, PolicyFacts DEF Usable
<1>5. s.src = "file"
  BY <1>1, <1>3 DEF AccessInv, ReadsFile
<1> QED
  BY <1>2, <1>3, <1>4, <1>5 DEF Truthful, AccessInv, KnownVersions

LEMMA UseCachedStep ==
  ASSUME AccessInv, NEW t \in Task, UseCached(t) PROVE AccessInv'
<1> DEFINE s == store[Home(t)]
<1>1. /\ pc[t] \in Calls /\ ~Locked(Home(t))
      /\ Return(t, pc[t], s) /\ Note(t, pc[t])
      /\ UNCHANGED <<file, store, req, inc, seen, verdict>>
  BY DEF UseCached
<1>2. store' = [store EXCEPT ![Home(t)] = s]
  BY <1>1, HomeFacts DEF AccessInv, TypeOK
<1>3. pc[t] \notin Reading
  BY <1>1 DEF Calls, Reading
<1> HIDE DEF s
<1> QED
  BY <1>1, <1>2, <1>3, CachedTruth, CallStep DEF s

LEMMA UseEnvironmentStep ==
  ASSUME AccessInv, NEW t \in Task, UseEnvironment(t) PROVE AccessInv'
<1>1. /\ pc[t] \in Calls /\ ~Locked(Home(t))
      /\ store' = [store EXCEPT ![Home(t)] = Environment]
      /\ Return(t, pc[t], Environment) /\ Note(t, pc[t])
      /\ UNCHANGED <<file, req, inc, seen, verdict>>
  BY DEF UseEnvironment
<1>2. pc[t] \notin Reading
  BY <1>1 DEF Calls, Reading
<1> QED
  BY <1>1, <1>2, EnvironmentTruth, CallStep

LEMMA ReadFileStep ==
  ASSUME AccessInv, NEW t \in Task, ReadFile(t) PROVE AccessInv'
<1> DEFINE s == Loaded(store[Home(t)])
<1>1. /\ pc[t] \in Reading
      /\ store' = [store EXCEPT ![Home(t)] = s]
      /\ Return(t, CallOf(pc[t]), s)
      /\ sawAt' = sawAt
      /\ UNCHANGED <<file, req, inc, seen, verdict>>
  <2>1. Home(t) \in Process /\ store \in [Process -> Store]
    BY HomeFacts DEF AccessInv, TypeOK
  <2> QED
    BY <2>1 DEF ReadFile
<1>2. Truthful(t, s) /\ s.src = "file"
  BY ReadTruth
<1>3. CallOf(pc[t]) \in Calls
  BY DEF CallOf, Calls
<1> HIDE DEF s
<1> QED
  BY <1>1, <1>2, <1>3, CallStep

LEMMA StatStep ==
  ASSUME AccessInv, NEW t \in Task, Stat(t) PROVE AccessInv'
<1> DEFINE q == IF pc[t] = "get" THEN "getRead"
                ELSE IF pc[t] = "err" THEN "errRead" ELSE "savedRead"
<1>1. /\ pc[t] \in Calls /\ ~Locked(Home(t)) /\ file.state # "absent"
      /\ store' = [store EXCEPT ![Home(t)].init = "yes", ![Home(t)].src = "file",
                                ![Home(t)].mtime = file.at]
      /\ pc' = [pc EXCEPT ![t] = q]
      /\ Note(t, pc[t])
      /\ UNCHANGED <<file, req, base, inc, seen, verdict>>
  BY DEF Stat
<1>2. /\ Home(t) \in Process /\ store \in [Process -> Store] /\ file \in File
      /\ file.at \in Nat /\ pc \in [Task -> PCs] /\ sawAt \in [Saver -> Nat]
  BY HomeFacts DEF AccessInv, TypeOK, File, PCs
<1>3. q \in Reading /\ (q = "getRead" <=> pc[t] = "get")
      /\ (q = "errRead" <=> pc[t] = "err")
  BY <1>1 DEF Calls, Reading
<1> HIDE DEF q
<1>4. /\ pc' \in [Task -> PCs] /\ pc'[t] = q
      /\ \A u \in Task \ {t} : pc'[u] = pc[u]
  BY <1>1, <1>2, <1>3 DEF PCs
<1>5. /\ store' \in [Process -> Store]
      /\ store'[Home(t)].src = "file" /\ store'[Home(t)].mtime = file.at
      /\ \A p \in Process \ {Home(t)} : store'[p] = store[p]
  BY <1>1, <1>2 DEF Store
<1>6. /\ sawAt' \in [Saver -> Nat]
      /\ \A u \in Saver \ {t} : sawAt'[u] = sawAt[u]
      /\ t \in Saver => sawAt'[t] = IF pc[t] = "get" THEN file.at ELSE sawAt[t]
  BY <1>1, <1>2 DEF Note
<1>7. TypeOK'
  BY <1>1, <1>2, <1>4, <1>5, <1>6 DEF AccessInv, TypeOK, PCs
<1>8. KnownVersions'
  BY <1>1, <1>2, <1>5 DEF AccessInv, KnownVersions
<1>9. ReadsFile'
  BY <1>4, <1>5, HomeFacts DEF AccessInv, ReadsFile
<1>10. CacheHonest'
  <2> SUFFICES ASSUME NEW p \in Process, ~Locked(p)',
                      store'[p].init = "yes", store'[p].err = "no",
                      store'[p].src = "file", file.state # "absent",
                      store'[p].mtime = file.at
               PROVE  store'[p].cfg = Policy(file)
    BY <1>1 DEF CacheHonest
  <2>1. p # Home(t)
    BY <1>3, <1>4 DEF Locked
  <2>2. ~Locked(p)
    BY <1>4, <2>1 DEF Locked
  <2> QED
    BY <1>5, <2>1, <2>2 DEF AccessInv, CacheHonest
<1>11. Watched'
  <2> SUFFICES ASSUME NEW u \in Message
               PROVE  /\ pc'[u] \in {"get", "getRead"} => InForce(file) \subseteq seen[u]
                      /\ pc'[u] \in {"decide", "lookup"} => base[u] \in seen[u]
                      /\ verdict[u] # "none" => pc'[u] = "done"
    BY <1>1 DEF Watched, InForce, Policy
  <2>1. u \in Task /\ Watched
    BY DEF Task, AccessInv
  <2>2. CASE u # t
    BY <1>4, <2>1, <2>2 DEF Watched
  <2>3. CASE u = t
    BY <1>1, <1>3, <1>4, <2>1, <2>3 DEF Watched, Calls, Reading
  <2> QED
    BY <2>2, <2>3
<1>12. JudgedByPolicyInForce' /\ SavedIsEnforced'
  BY <1>1 DEF AccessInv, JudgedByPolicyInForce, SavedIsEnforced, Policy
<1>13. Started'
  <2> SUFFICES ASSUME NEW u \in Saver
               PROVE  /\ sawAt'[u] <= file.at
                      /\ sawAt'[u] = file.at =>
                           /\ pc'[u] \in {"getRead", "errRead"} => file.state # "absent"
                           /\ pc'[u] \in {"err", "errRead", "put"} =>
                                base[u] = Policy(file)
    BY <1>1 DEF Started, Policy
  <2>1. u \in Task /\ Started
    BY DEF Task, AccessInv
  <2>2. CASE u # t
    BY <1>4, <1>6, <2>1, <2>2 DEF Started
  <2>3. CASE u = t
    BY <1>1, <1>2, <1>3, <1>4, <1>6, <2>1, <2>3 DEF Started, Reading
  <2> QED
    BY <2>2, <2>3
<1> QED
  BY <1>7, <1>8, <1>9, <1>10, <1>11, <1>12, <1>13 DEF AccessInv

(* A task goes from one place to another outside the file and the Stores.  *)
LEMMA MoveStep ==
  ASSUME AccessInv, NEW t \in Task, NEW q \in PCs,
         q \notin Reading \cup {"err", "put"}, pc[t] \notin Reading,
         pc' = [pc EXCEPT ![t] = q],
         req' \in [Saver -> Request], inc' \in [Message -> Incoming],
         verdict' \in [Message -> {"none", "allow", "deny"}],
         seen' \in [Message -> SUBSET Canonical],
         \A u \in Message \ {t} :
           seen'[u] = seen[u] /\ inc'[u] = inc[u] /\ verdict'[u] = verdict[u],
         t \in Message => /\ q = "get" => InForce(file) \subseteq seen'[t]
                          /\ q \in {"decide", "lookup"} => base[t] \in seen'[t]
                          /\ verdict'[t] # "none" =>
                               /\ q = "done"
                               /\ \E c \in seen'[t], lid \in {"", BotLID} :
                                    verdict'[t] = Ruling(c, inc'[t], Account(lid)),
         UNCHANGED <<file, store, base, sawAt>>
  PROVE  AccessInv'
<1>1. /\ pc \in [Task -> PCs] /\ pc' \in [Task -> PCs] /\ pc'[t] = q
      /\ \A u \in Task \ {t} : pc'[u] = pc[u]
  BY DEF AccessInv, TypeOK, PCs
<1>2. TypeOK'
  BY <1>1 DEF AccessInv, TypeOK, PCs
<1>3. \A p \in Process : Locked(p)' = Locked(p)
  BY <1>1 DEF Locked
<1>4. KnownVersions' /\ ReadsFile'
  BY <1>1 DEF AccessInv, KnownVersions, ReadsFile
<1>5. CacheHonest'
  BY <1>3 DEF AccessInv, CacheHonest, Policy
<1>6. Watched'
  <2> SUFFICES ASSUME NEW u \in Message
               PROVE  /\ pc'[u] \in {"get", "getRead"} => InForce(file) \subseteq seen'[u]
                      /\ pc'[u] \in {"decide", "lookup"} => base[u] \in seen'[u]
                      /\ verdict'[u] # "none" => pc'[u] = "done"
    BY DEF Watched, InForce, Policy
  <2>1. u \in Task /\ Watched
    BY DEF Task, AccessInv
  <2>2. CASE u # t
    BY <1>1, <2>1, <2>2 DEF Watched
  <2>3. CASE u = t
    BY <1>1, <2>3 DEF Reading
  <2> QED
    BY <2>2, <2>3
<1>7. JudgedByPolicyInForce'
  <2> SUFFICES ASSUME NEW u \in Message, verdict'[u] # "none"
               PROVE  \E c \in seen'[u], lid \in {"", BotLID} :
                        verdict'[u] = Ruling(c, inc'[u], Account(lid))
    BY DEF JudgedByPolicyInForce, Ruling, Account, Decide, Authorize
  <2> QED
    BY DEF AccessInv, JudgedByPolicyInForce
<1>8. SavedIsEnforced'
  BY DEF AccessInv, SavedIsEnforced, Policy
<1>9. Started'
  <2> SUFFICES ASSUME NEW u \in Saver
               PROVE  /\ sawAt[u] <= file.at
                      /\ sawAt[u] = file.at =>
                           /\ pc'[u] \in {"getRead", "errRead"} => file.state # "absent"
                           /\ pc'[u] \in {"err", "errRead", "put"} =>
                                base[u] = Policy(file)
    BY DEF Started, Policy
  <2>1. u \in Task /\ Started
    BY DEF Task, AccessInv
  <2> QED
    BY <1>1, <2>1 DEF Started, Reading
<1> QED
  BY <1>2, <1>4, <1>5, <1>6, <1>7, <1>8, <1>9 DEF AccessInv
-----------------------------------------------------------------------------
(* Every step. *)

LEMMA MoveSteps ==
  ASSUME AccessInv,
         \/ \E t \in Saver : Submit(t) \/ Refuse(t)
         \/ \E t \in Message : Arrive(t) \/ Judge(t) \/ AskLID(t) \/ AnswerLID(t)
  PROVE  AccessInv'
<1>1. /\ req \in [Saver -> Request] /\ inc \in [Message -> Incoming]
      /\ verdict \in [Message -> {"none", "allow", "deny"}] /\ file \in File
      /\ seen \in [Message -> SUBSET Canonical]
      /\ Watched /\ JudgedByPolicyInForce
      /\ Requests \subseteq Request /\ Incomings \subseteq Incoming
  BY InputAssumption DEF AccessInv, TypeOK
<1>2. ASSUME NEW t \in Saver, Submit(t) PROVE AccessInv'
  <2>1. /\ pc[t] = "idle" /\ pc' = [pc EXCEPT ![t] = "get"]
        /\ req' \in [Saver -> Request]
        /\ UNCHANGED <<file, store, base, sawAt, inc, seen, verdict>>
    BY <1>1, <1>2 DEF Submit
  <2>2. t \in Task /\ t \notin Message
    BY HomeFacts DEF Task
  <2>3. "get" \in PCs /\ "get" \notin Reading \cup {"err", "put"}
        /\ pc[t] \notin Reading
    BY <2>1 DEF PCs, Calls, Reading
  <2> QED
    BY <1>1, <2>1, <2>2, <2>3, MoveStep
<1>3. ASSUME NEW t \in Saver, Refuse(t) PROVE AccessInv'
  <2>1. /\ pc[t] = "put" /\ pc' = [pc EXCEPT ![t] = "done"]
        /\ UNCHANGED <<file, store, req, base, sawAt, inc, seen, verdict>>
    BY <1>3 DEF Refuse
  <2>2. t \in Task /\ t \notin Message
    BY HomeFacts DEF Task
  <2>3. "done" \in PCs /\ "done" \notin Reading \cup {"err", "put"}
        /\ pc[t] \notin Reading
    BY <2>1 DEF PCs, Reading
  <2> QED
    BY <1>1, <2>1, <2>2, <2>3, MoveStep
<1>4. ASSUME NEW t \in Message, Arrive(t) PROVE AccessInv'
  <2>1. /\ pc[t] = "idle" /\ pc' = [pc EXCEPT ![t] = "get"]
        /\ inc' \in [Message -> Incoming]
        /\ \A u \in Message \ {t} : inc'[u] = inc[u] /\ seen'[u] = seen[u]
        /\ seen'[t] = InForce(file) /\ seen' \in [Message -> SUBSET Canonical]
        /\ UNCHANGED <<file, store, req, base, sawAt, verdict>>
    BY <1>1, <1>4, PolicyFacts DEF Arrive
  <2>2. t \in Task /\ verdict[t] = "none"
    BY <1>1, <2>1 DEF Watched, Task
  <2>3. "get" \in PCs /\ "get" \notin Reading \cup {"err", "put"}
        /\ pc[t] \notin Reading
    BY <2>1 DEF PCs, Calls, Reading
  <2> QED
    BY <1>1, <2>1, <2>2, <2>3, MoveStep
<1>5. ASSUME NEW t \in Message, Judge(t) PROVE AccessInv'
  <2>1. /\ pc[t] = "decide" /\ pc' = [pc EXCEPT ![t] = "done"]
        /\ verdict' = [verdict EXCEPT ![t] = Ruling(base[t], inc[t], Account(""))]
        /\ UNCHANGED <<file, store, req, base, sawAt, inc, seen>>
    BY <1>5 DEF Judge
  <2>2. t \in Task /\ base[t] \in seen[t]
    BY <1>1, <2>1 DEF Watched, Task
  <2>3. "done" \in PCs /\ "done" \notin Reading \cup {"err", "put"}
        /\ pc[t] \notin Reading
    BY <2>1 DEF PCs, Reading
  <2>4. Ruling(base[t], inc[t], Account("")) \in {"none", "allow", "deny"}
    BY DEF Ruling
  <2>5. /\ verdict' \in [Message -> {"none", "allow", "deny"}]
        /\ verdict'[t] = Ruling(base[t], inc'[t], Account(""))
        /\ \A u \in Message \ {t} : verdict'[u] = verdict[u]
    BY <1>1, <2>1, <2>4
  <2> QED
    BY <1>1, <2>1, <2>2, <2>3, <2>5, MoveStep
<1>6. ASSUME NEW t \in Message, AskLID(t) PROVE AccessInv'
  <2>1. /\ pc[t] = "decide" /\ pc' = [pc EXCEPT ![t] = "lookup"]
        /\ UNCHANGED <<file, store, req, base, sawAt, inc, seen, verdict>>
    BY <1>6 DEF AskLID
  <2>2. t \in Task /\ base[t] \in seen[t] /\ verdict[t] = "none"
    BY <1>1, <2>1 DEF Watched, Task
  <2>3. "lookup" \in PCs /\ "lookup" \notin Reading \cup {"err", "put"}
        /\ pc[t] \notin Reading
    BY <2>1 DEF PCs, Reading
  <2> QED
    BY <1>1, <2>1, <2>2, <2>3, MoveStep
<1>7. ASSUME NEW t \in Message, AnswerLID(t) PROVE AccessInv'
  <2>1. PICK lid \in {"", BotLID} :
          verdict' = [verdict EXCEPT ![t] = Ruling(base[t], inc[t], Account(lid))]
    BY <1>7 DEF AnswerLID
  <2>2. /\ pc[t] = "lookup" /\ pc' = [pc EXCEPT ![t] = "done"]
        /\ UNCHANGED <<file, store, req, base, sawAt, inc, seen>>
    BY <1>7 DEF AnswerLID
  <2>3. t \in Task /\ base[t] \in seen[t]
    BY <1>1, <2>2 DEF Watched, Task
  <2>4. "done" \in PCs /\ "done" \notin Reading \cup {"err", "put"}
        /\ pc[t] \notin Reading
    BY <2>2 DEF PCs, Reading
  <2>5. Ruling(base[t], inc[t], Account(lid)) \in {"none", "allow", "deny"}
    BY DEF Ruling
  <2>6. /\ verdict' \in [Message -> {"none", "allow", "deny"}]
        /\ verdict'[t] = Ruling(base[t], inc'[t], Account(lid))
        /\ \A u \in Message \ {t} : verdict'[u] = verdict[u]
    BY <1>1, <2>1, <2>2, <2>5
  <2> QED
    BY <1>1, <2>2, <2>3, <2>4, <2>6, MoveStep
<1> QED
  BY <1>2, <1>3, <1>4, <1>5, <1>6, <1>7

LEMMA HandStep ==
  ASSUME AccessInv, Edit \/ Damage \/ Remove PROVE AccessInv'
<1>1. PICK f : ByHand(f)
  BY HandFacts DEF AccessInv
<1>2. /\ f \in File /\ f.at = file.at + 1 /\ f.by = "hand" /\ file' = f
      /\ file.at \in Nat
      /\ UNCHANGED <<store, pc, req, base, sawAt, inc, verdict>>
      /\ seen' \in [Message -> SUBSET Canonical]
      /\ \A t \in Message :
           /\ pc[t] \in {"idle", "done"} => seen'[t] = seen[t]
           /\ pc[t] \notin {"idle", "done"} => seen'[t] = seen[t] \cup InForce(f)
  BY <1>1, ChangeFacts DEF ByHand, AccessInv, TypeOK, File
<1>3. TypeOK'
  BY <1>2 DEF AccessInv, TypeOK
<1>4. KnownVersions' /\ ReadsFile' /\ CacheHonest'
  <2>1. \A p \in Process : store[p].mtime \in Nat
    BY DEF AccessInv, TypeOK, Store
  <2> QED
    BY <1>2, <2>1 DEF AccessInv, KnownVersions, ReadsFile, CacheHonest
<1>5. Watched'
  BY <1>2 DEF AccessInv, Watched, InForce, Policy
<1>6. JudgedByPolicyInForce'
  <2> SUFFICES ASSUME NEW t \in Message, verdict[t] # "none"
               PROVE  \E c \in seen'[t], lid \in {"", BotLID} :
                        verdict[t] = Ruling(c, inc[t], Account(lid))
    BY <1>2 DEF JudgedByPolicyInForce
  <2>1. seen'[t] = seen[t]
    BY <1>2 DEF AccessInv, Watched
  <2> QED
    BY <2>1 DEF AccessInv, JudgedByPolicyInForce
<1>7. SavedIsEnforced'
  BY <1>2 DEF SavedIsEnforced
<1>8. Started'
  <2>1. \A t \in Saver : sawAt[t] \in Nat
    BY DEF AccessInv, TypeOK
  <2> QED
    BY <1>2, <2>1 DEF AccessInv, Started
<1> QED
  BY <1>3, <1>4, <1>5, <1>6, <1>7, <1>8 DEF AccessInv

LEMMA PutFacts ==
  ASSUME AccessInv, NEW t \in Saver, Put(t)
  PROVE  LET c == Asked(base[t], req[t]) IN
         /\ base[t] \in Canonical /\ req[t] \in Request
         /\ c \in Config /\ Valid(c)
         /\ SavedFile(c) \in File /\ SavedFile(c).at = file.at + 1
         /\ SavedFile(c).by = "save" /\ SavedFile(c).state = "config"
         /\ SavedFile(c).cfg = Normalize(c)
         /\ Policy(SavedFile(c)) = Normalize(c)
         /\ file' = SavedFile(c)
<1>1. base[t] \in Canonical /\ req[t] \in Request /\ file \in File
  BY DEF AccessInv, TypeOK, Task
<1>2. Asked(base[t], req[t]) \in Config /\ Valid(Asked(base[t], req[t]))
  BY <1>1, AskedFacts DEF Put
<1>3. file' = SavedFile(Asked(base[t], req[t]))
  BY DEF Put, Change
<1> QED
  BY <1>1, <1>2, <1>3, SavedFacts

LEMMA PutStep ==
  ASSUME AccessInv, NEW t \in Saver, Put(t) PROVE AccessInv'
<1> DEFINE f == SavedFile(Asked(base[t], req[t]))
<1>1. /\ f \in File /\ f.at = file.at + 1 /\ f.by = "save" /\ f.state = "config"
      /\ Policy(f) = f.cfg /\ file' = f
  BY PutFacts
<1>2. /\ pc[t] = "put" /\ Change(f) /\ pc' = [pc EXCEPT ![t] = "saved"]
      /\ UNCHANGED <<store, req, base, sawAt, inc, verdict>>
  BY DEF Put
<1> HIDE DEF f
<1>3. file.at \in Nat /\ t \in Task /\ t \notin Message
  BY HomeFacts DEF AccessInv, TypeOK, File, Task
<1>4. /\ pc' \in [Task -> PCs] /\ pc'[t] = "saved"
      /\ \A u \in Task \ {t} : pc'[u] = pc[u]
  BY <1>2, <1>3 DEF AccessInv, TypeOK, PCs, Calls
<1>5. /\ seen' \in [Message -> SUBSET Canonical]
      /\ \A u \in Message :
        /\ pc[u] \in {"idle", "done"} => seen'[u] = seen[u]
        /\ pc[u] \notin {"idle", "done"} => seen'[u] = seen[u] \cup InForce(f)
  BY <1>1, <1>2, ChangeFacts DEF AccessInv
<1>6. \A u \in Message : u \in Task /\ pc'[u] = pc[u]
  BY <1>3, <1>4 DEF Task
<1>7. TypeOK'
  BY <1>1, <1>2, <1>4, <1>5 DEF AccessInv, TypeOK, PCs
<1>8. KnownVersions' /\ CacheHonest'
  <2>1. \A p \in Process : store[p].mtime \in Nat
    BY DEF AccessInv, TypeOK, Store
  <2> QED
    BY <1>1, <1>2, <1>3, <2>1 DEF AccessInv, KnownVersions, CacheHonest
<1>9. ReadsFile'
  BY <1>2, <1>4 DEF AccessInv, ReadsFile, Reading
<1>10. Watched'
  BY <1>1, <1>2, <1>5, <1>6 DEF AccessInv, Watched, InForce, Policy
<1>11. JudgedByPolicyInForce'
  <2> SUFFICES ASSUME NEW u \in Message, verdict[u] # "none"
               PROVE  \E c \in seen'[u], lid \in {"", BotLID} :
                        verdict[u] = Ruling(c, inc[u], Account(lid))
    BY <1>2 DEF JudgedByPolicyInForce
  <2>1. seen'[u] = seen[u]
    BY <1>5 DEF AccessInv, Watched
  <2> QED
    BY <2>1 DEF AccessInv, JudgedByPolicyInForce
<1>12. SavedIsEnforced'
  <2>1. Policy(file') = file'.cfg
    BY <1>1
  <2>2. Policy(file)' = Policy(file')
    BY DEF Policy
  <2> QED
    BY <1>1, <2>1, <2>2 DEF SavedIsEnforced
<1>13. Started'
  <2>1. \A u \in Saver : sawAt[u] \in Nat
    BY DEF AccessInv, TypeOK
  <2> QED
    BY <1>1, <1>2, <1>3, <2>1 DEF AccessInv, Started
<1> QED
  BY <1>7, <1>8, <1>9, <1>10, <1>11, <1>12, <1>13 DEF AccessInv

(* The tasks T return; a Store stays as it is or, if all its tasks are in  *)
(* T, is opened anew.                                                      *)
LEMMA ForgetStep ==
  ASSUME AccessInv, NEW T \in SUBSET Task, Forget(T), file' = file,
         store' \in [Process -> Store],
         \A p \in Process :
           \/ store'[p] = store[p] /\ \A t \in T : Home(t) = p => pc[t] \notin Reading
           \/ store'[p] = Unopened /\ \A t \in Task : Home(t) = p => t \in T
  PROVE  AccessInv'
<1>1. /\ pc' \in [Task -> PCs] /\ base' \in [Task -> Canonical]
      /\ req' \in [Saver -> Request] /\ sawAt' \in [Saver -> Nat]
      /\ inc' \in [Message -> Incoming]
      /\ verdict' \in [Message -> {"none", "allow", "deny"}]
      /\ seen' \in [Message -> SUBSET Canonical]
  BY ForgetFacts DEF AccessInv
<1>2. /\ \A t \in Task : IF t \in T THEN pc'[t] = "idle"
                         ELSE pc'[t] = pc[t] /\ base'[t] = base[t]
      /\ \A t \in Saver : IF t \in T THEN sawAt'[t] = 0
                          ELSE sawAt'[t] = sawAt[t] /\ req'[t] = req[t]
      /\ \A t \in Message : IF t \in T THEN verdict'[t] = "none"
                            ELSE /\ seen'[t] = seen[t] /\ inc'[t] = inc[t]
                                 /\ verdict'[t] = verdict[t]
  BY ForgetFacts DEF AccessInv
<1>3. Saver \subseteq Task /\ Message \subseteq Task /\ file.at \in Nat
  BY DEF Task, AccessInv, TypeOK, File
<1>4. TypeOK'
  BY <1>1 DEF AccessInv, TypeOK, PCs
<1>5. KnownVersions'
  BY <1>3 DEF AccessInv, KnownVersions, Unopened
<1>6. ReadsFile'
  <2> SUFFICES ASSUME NEW t \in Task, pc'[t] \in Reading
               PROVE  store'[Home(t)].src = "file"
    BY DEF ReadsFile
  <2>1. t \notin T /\ pc[t] \in Reading /\ Home(t) \in Process
    BY <1>2, HomeFacts DEF Reading
  <2>2. store'[Home(t)] = store[Home(t)]
    BY <2>1
  <2> QED
    BY <2>1, <2>2 DEF AccessInv, ReadsFile
<1>7. CacheHonest'
  <2> SUFFICES ASSUME NEW p \in Process, ~Locked(p)',
                      store'[p].init = "yes", store'[p].err = "no",
                      store'[p].src = "file", file.state # "absent",
                      store'[p].mtime = file.at
               PROVE  store'[p].cfg = Policy(file)
    BY DEF CacheHonest, Policy
  <2>1. /\ store'[p] = store[p]
        /\ \A t \in T : Home(t) = p => pc[t] \notin Reading
    BY DEF Unopened
  <2>2. ~Locked(p)
    BY <1>2, <2>1 DEF Locked
  <2> QED
    BY <2>1, <2>2 DEF AccessInv, CacheHonest
<1>8. Watched'
  <2> SUFFICES ASSUME NEW t \in Message
               PROVE  /\ pc'[t] \in {"get", "getRead"} => InForce(file) \subseteq seen'[t]
                      /\ pc'[t] \in {"decide", "lookup"} => base'[t] \in seen'[t]
                      /\ verdict'[t] # "none" => pc'[t] = "done"
    BY DEF Watched, InForce, Policy
  <2> QED
    BY <1>2, <1>3 DEF AccessInv, Watched
<1>9. JudgedByPolicyInForce'
  <2> SUFFICES ASSUME NEW t \in Message, verdict'[t] # "none"
               PROVE  \E c \in seen'[t], lid \in {"", BotLID} :
                        verdict'[t] = Ruling(c, inc'[t], Account(lid))
    BY DEF JudgedByPolicyInForce, Ruling, Account, Decide, Authorize
  <2>1. seen'[t] = seen[t] /\ inc'[t] = inc[t] /\ verdict'[t] = verdict[t]
    BY <1>2
  <2> QED
    BY <2>1 DEF AccessInv, JudgedByPolicyInForce
<1>10. SavedIsEnforced'
  BY DEF AccessInv, SavedIsEnforced, Policy
<1>11. Started'
  <2> SUFFICES ASSUME NEW t \in Saver
               PROVE  /\ sawAt'[t] <= file.at
                      /\ sawAt'[t] = file.at =>
                           /\ pc'[t] \in {"getRead", "errRead"} => file.state # "absent"
                           /\ pc'[t] \in {"err", "errRead", "put"} =>
                                base'[t] = Policy(file)
    BY DEF Started, Policy
  <2> QED
    BY <1>2, <1>3 DEF AccessInv, Started
<1> QED
  BY <1>4, <1>5, <1>6, <1>7, <1>8, <1>9, <1>10, <1>11 DEF AccessInv

LEMMA LeaveStep ==
  ASSUME AccessInv, NEW t \in Task, Leave(t) PROVE AccessInv'
<1>1. pc[t] \notin Reading /\ Forget({t}) /\ UNCHANGED <<file, store>>
  BY DEF Leave, Reading
<1>2. {t} \in SUBSET Task /\ store \in [Process -> Store]
  BY DEF AccessInv, TypeOK
<1> QED
  BY <1>1, <1>2, ForgetStep

LEMMA RestartStep ==
  ASSUME AccessInv, NEW p \in Process, Restart(p) PROVE AccessInv'
<1> DEFINE T == {t \in Task : Home(t) = p}
<1>1. /\ store' = [store EXCEPT ![p] = Unopened] /\ Forget(T) /\ file' = file
  BY DEF Restart
<1>2. T \in SUBSET Task /\ store \in [Process -> Store] /\ Unopened \in Store
  BY StoreFacts DEF AccessInv, TypeOK
<1>3. store' \in [Process -> Store]
  BY <1>1, <1>2
<1>4. \A r \in Process :
        \/ store'[r] = store[r] /\ \A t \in T : Home(t) = r => pc[t] \notin Reading
        \/ store'[r] = Unopened /\ \A t \in Task : Home(t) = r => t \in T
  BY <1>1, <1>2
<1> HIDE DEF T
<1> QED
  BY <1>1, <1>2, <1>3, <1>4, ForgetStep

LEMMA StutterStep ==
  ASSUME AccessInv, UNCHANGED vars PROVE AccessInv'
  BY DEF AccessInv, vars, TypeOK, KnownVersions, ReadsFile, CacheHonest, Watched,
     JudgedByPolicyInForce, Started, SavedIsEnforced, Policy, InForce, Locked

LEMMA AccessStep == AccessInv /\ [Next]_vars => AccessInv'
<1> SUFFICES ASSUME AccessInv, [Next]_vars PROVE AccessInv'
  OBVIOUS
<1>1. CASE \E t \in Task : UseCached(t)
  BY <1>1, UseCachedStep
<1>2. CASE \E t \in Task : UseEnvironment(t)
  BY <1>2, UseEnvironmentStep
<1>3. CASE \E t \in Task : Stat(t)
  BY <1>3, StatStep
<1>4. CASE \E t \in Task : ReadFile(t)
  BY <1>4, ReadFileStep
<1>5. CASE \E t \in Task : Leave(t)
  BY <1>5, LeaveStep
<1>6. CASE \E t \in Saver : Put(t)
  BY <1>6, PutStep
<1>7. CASE \/ \E t \in Saver : Submit(t) \/ Refuse(t)
           \/ \E t \in Message : Arrive(t) \/ Judge(t) \/ AskLID(t) \/ AnswerLID(t)
  BY <1>7, MoveSteps
<1>8. CASE Edit \/ Damage \/ Remove
  BY <1>8, HandStep
<1>9. CASE \E p \in Process : Restart(p)
  BY <1>9, RestartStep
<1>10. CASE UNCHANGED vars
  BY <1>10, StutterStep
<1> QED
  BY <1>1, <1>2, <1>3, <1>4, <1>5, <1>6, <1>7, <1>8, <1>9, <1>10 DEF Next

THEOREM AccessInvariant == Spec => []AccessInv
<1> QED
  BY InitAccess, AccessStep, PTL DEF Spec
-----------------------------------------------------------------------------
(* The file, the Stores and the tasks hold values of their types; a Store  *)
(* and whoever asked it hold canonical policies only.                      *)
THEOREM AccessTypes == Spec => []TypeOK
  BY AccessInvariant, PTL DEF AccessInv

(* A Store that would answer from its cache has in it what the file says.  *)
THEOREM HonestCache == Spec => []CacheHonest
  BY AccessInvariant, PTL DEF AccessInv

(* Every message is judged by a policy that was in force while the bridge  *)
(* was handling it, whatever is saved, edited, damaged or removed when.    *)
THEOREM PolicyInForce == Spec => []JudgedByPolicyInForce
  BY AccessInvariant, PTL DEF AccessInv

(* What Save wrote, the bridge enforces as it stands.                      *)
THEOREM SavedEnforced == Spec => []SavedIsEnforced
  BY AccessInvariant, PTL DEF AccessInv

(* Normalize works section by section: what is kept as it was read is      *)
(* written as it was read.                                                 *)
LEMMA Sections ==
  ASSUME NEW c \in Canonical, NEW r \in Request, Normalize(c) = c
  PROVE  LET n == Normalize(Asked(c, r)) IN
         /\ "number" \notin r.sets => n.number = c.number
         /\ "team" \notin r.sets => n.group = c.group /\ n.members = c.members
<1> DEFINE a == Asked(c, r)
<1>1. /\ Normalize(a).number = IF NumberOK(a.number) THEN NormalizeNumber(a.number)
                               ELSE Blank
      /\ Normalize(a).group = IF IsGroupJID(a.group) THEN a.group ELSE NoJID
      /\ Normalize(a).members = Normal(a.members)
  BY NormalizeIs
<1>2. /\ c.number = IF NumberOK(c.number) THEN NormalizeNumber(c.number) ELSE Blank
      /\ c.group = IF IsGroupJID(c.group) THEN c.group ELSE NoJID
      /\ c.members = Normal(c.members)
  BY NormalizeIs
<1>3. /\ a.number = IF "number" \in r.sets THEN r.number ELSE c.number
      /\ a.group = IF "team" \in r.sets THEN r.group ELSE c.group
      /\ a.members = IF "team" \in r.sets THEN r.members ELSE c.members
  BY AskedFacts
<1> HIDE DEF a
<1> QED
  BY <1>1, <1>2, <1>3 DEF a

Keeps(t) ==
  pc[t] = "put" /\ pc'[t] = "saved" /\ sawAt[t] = file.at =>
    /\ "number" \notin req[t].sets => file'.cfg.number = Policy(file).number
    /\ "team" \notin req[t].sets =>
         /\ file'.cfg.group = Policy(file).group
         /\ file'.cfg.members = Policy(file).members

LEMMA KeepsStep ==
  ASSUME AccessInv, [Next]_vars, NEW t \in Saver PROVE Keeps(t)
<1> SUFFICES ASSUME pc[t] = "put", pc'[t] = "saved", sawAt[t] = file.at
             PROVE  /\ "number" \notin req[t].sets =>
                         file'.cfg.number = Policy(file).number
                    /\ "team" \notin req[t].sets =>
                         /\ file'.cfg.group = Policy(file).group
                         /\ file'.cfg.members = Policy(file).members
  BY DEF Keeps
<1>1. t \in Task /\ pc \in [Task -> PCs] /\ file \in File
  BY DEF Task, AccessInv, TypeOK, PCs
<1>2. Put(t)
  <2>1. ASSUME NEW u \in Task, UseCached(u) \/ UseEnvironment(u)
        PROVE  FALSE
    BY <1>1, <2>1 DEF UseCached, UseEnvironment, Return, Calls
  <2>2. ASSUME NEW u \in Task, ReadFile(u) PROVE FALSE
    BY <1>1, <2>2 DEF ReadFile, Return, Reading
  <2>3. ASSUME NEW u \in Task, Stat(u) PROVE FALSE
    BY <1>1, <2>3 DEF Stat, Calls
  <2>4. ASSUME NEW u \in Task, Leave(u) PROVE FALSE
    BY <1>1, <2>4 DEF Leave, Forget
  <2>5. ASSUME NEW u \in Saver, Submit(u) \/ Refuse(u) PROVE FALSE
    BY <1>1, <2>5 DEF Submit, Refuse
  <2>6. ASSUME NEW u \in Saver, Put(u) PROVE Put(t)
    BY <1>1, <2>6 DEF Put
  <2>7. ASSUME NEW u \in Message, Arrive(u) \/ Judge(u) \/ AskLID(u) \/ AnswerLID(u)
        PROVE  FALSE
    BY <1>1, <2>7 DEF Arrive, Judge, AskLID, AnswerLID
  <2>8. CASE Edit \/ Damage \/ Remove
    BY <2>8 DEF Edit, Damage, Remove
  <2>9. ASSUME NEW p \in Process, Restart(p) PROVE FALSE
    BY <1>1, <2>9 DEF Restart, Forget
  <2>10. CASE UNCHANGED vars
    BY <2>10 DEF vars
  <2> QED
    BY <2>1, <2>2, <2>3, <2>4, <2>5, <2>6, <2>7, <2>8, <2>9, <2>10 DEF Next
<1>3. base[t] = Policy(file)
  BY DEF AccessInv, Started
<1>4. Policy(file) \in Canonical /\ Normalize(Policy(file)) = Policy(file)
  BY <1>1, PolicyFacts
<1>5. req[t] \in Request
  BY DEF AccessInv, TypeOK
<1>6. file'.cfg = Normalize(Asked(Policy(file), req[t]))
  BY <1>2, <1>3, PutFacts
<1> QED
  BY <1>4, <1>5, <1>6, Sections

(* A save which nothing overtook keeps the section it does not mention.    *)
THEOREM SectionsKept == Spec => UndisturbedSaveKeeps
<1>1. AccessInv /\ [Next]_vars => [\A t \in Saver : Keeps(t)]_vars
  BY KeepsStep
<1>2. Spec => [][\A t \in Saver : Keeps(t)]_vars
  BY <1>1, AccessInvariant, PTL DEF Spec
<1> QED
  BY <1>2 DEF UndisturbedSaveKeeps, Keeps
-----------------------------------------------------------------------------
(* The refinement of PolicyGate: what happens to the messages, step by step. *)

(* Only a save asks whether the file is broken, and only a save writes.    *)
Askers ==
  \A t \in Message : pc[t] \in {"idle", "get", "getRead", "decide", "lookup", "done"}

LEMMA AskersStep ==
  ASSUME AccessInv, Askers, [Next]_vars PROVE Askers'
<1>1. /\ pc \in [Task -> PCs] /\ Message \subseteq Task
      /\ \A t \in Saver : t \notin Message
  BY HomeFacts DEF AccessInv, TypeOK, PCs, Task
<1>2. ASSUME NEW t \in Task,
             UseCached(t) \/ UseEnvironment(t) \/ Stat(t) \/ ReadFile(t)
      PROVE  Askers'
  <2>1. t \in Message =>
          pc'[t] \in {"idle", "get", "getRead", "decide", "lookup", "done"}
    BY <1>1, <1>2, HomeFacts DEF Askers, UseCached, UseEnvironment, Stat, ReadFile,
       Return, Calls, Reading, CallOf
  <2>2. \A u \in Task \ {t} : pc'[u] = pc[u]
    BY <1>1, <1>2 DEF UseCached, UseEnvironment, Stat, ReadFile, Return
  <2> QED
    BY <1>1, <2>1, <2>2 DEF Askers
<1>3. ASSUME NEW t \in Task, Leave(t) PROVE Askers'
  BY <1>1, <1>3 DEF Askers, Leave, Forget
<1>4. ASSUME NEW t \in Saver, Submit(t) \/ Refuse(t) \/ Put(t) PROVE Askers'
  BY <1>1, <1>4 DEF Askers, Submit, Refuse, Put
<1>5. ASSUME NEW t \in Message, Arrive(t) \/ Judge(t) \/ AskLID(t) \/ AnswerLID(t)
      PROVE  Askers'
  BY <1>1, <1>5 DEF Askers, Arrive, Judge, AskLID, AnswerLID
<1>6. CASE Edit \/ Damage \/ Remove \/ UNCHANGED vars
  BY <1>6 DEF Askers, Edit, Damage, Remove, vars
<1>7. ASSUME NEW p \in Process, Restart(p) PROVE Askers'
  BY <1>1, <1>7 DEF Askers, Restart, Forget
<1> QED
  BY <1>2, <1>3, <1>4, <1>5, <1>6, <1>7 DEF Next

(* A message moves at the gate exactly when its task does in the Store.    *)
LEMMA Places ==
  ASSUME NEW t \in Message, NEW q, pc \in [Task -> PCs],
         pc' = [pc EXCEPT ![t] = q]
  PROVE  stages' = [stages EXCEPT ![t] = StageOf(q)]
<1>1. \A u \in Message : pc'[u] = IF u = t THEN q ELSE pc[u]
  BY DEF Task
<1>2. stages' = [u \in Message |-> StageOf(pc'[u])]
  BY DEF stages
<1>3. [stages EXCEPT ![t] = StageOf(q)]
        = [u \in Message |-> IF u = t THEN StageOf(q) ELSE StageOf(pc[u])]
  BY DEF stages
<1> QED
  BY <1>1, <1>2, <1>3

(* Nothing is seen at the gate of what other tasks do with the Stores ...  *)
LEMMA Unseen ==
  ASSUME \A u \in Message : StageOf(pc'[u]) = StageOf(pc[u]) /\ base'[u] = base[u],
         UNCHANGED <<inc, verdict>>
  PROVE  Gate!Change /\ (file' = file => UNCHANGED Gate!vars)
<1>1. stages' = stages
  BY DEF stages
<1>2. policies' = policies
  BY DEF policies
<1>3. file' = file => InForce(file)' = InForce(file)
  BY DEF InForce, Policy
<1> QED
  BY <1>1, <1>2, <1>3 DEF Gate!Change, Gate!vars

(* ... and of a call of Get the answer only, which is a policy in force.   *)
LEMMA GateTakes ==
  ASSUME AccessInv, Askers, NEW t \in Task, NEW s, Truthful(t, s),
         NEW call \in Calls, Return(t, call, s),
         pc[t] = call \/ (pc[t] \in Reading /\ CallOf(pc[t]) = call),
         UNCHANGED <<file, inc, verdict>>
  PROVE  [Gate!Next]_(Gate!vars)
<1>1. /\ s \in Store /\ file \in File /\ pc \in [Task -> PCs]
      /\ base \in [Task -> Canonical] /\ Message \subseteq Task /\ TypeOK
  BY DEF AccessInv, TypeOK, Truthful, PCs, Task
<1>2. \A u \in Task \ {t} : base'[u] = base[u] /\ pc'[u] = pc[u]
  BY <1>1, ReturnFacts
<1>3. CASE t \notin Message
  BY <1>1, <1>2, <1>3, Unseen
<1>4. CASE t \in Message
  <2>1. call = "get" /\ pc[t] \in {"get", "getRead"} /\ t \notin Saver
    BY <1>4, HomeFacts DEF Askers, Calls, Reading, CallOf
  <2>2. pc' = [pc EXCEPT ![t] = "decide"] /\ base' = [base EXCEPT ![t] = s.cfg]
    BY <2>1 DEF Return
  <2>3. stages[t] = "here" /\ stages' = [stages EXCEPT ![t] = "ready"]
    BY <1>1, <1>4, <2>1, <2>2, Places DEF StageOf, stages
  <2>4. policies' = [policies EXCEPT ![t] = s.cfg]
    <3>1. \A u \in Message : base'[u] = IF u = t THEN s.cfg ELSE base[u]
      BY <1>1, <1>4, <2>2
    <3>2. policies' = [u \in Message |-> base'[u]]
      BY DEF policies
    <3>3. [policies EXCEPT ![t] = s.cfg]
            = [u \in Message |-> IF u = t THEN s.cfg ELSE base[u]]
      BY DEF policies
    <3> QED
      BY <3>1, <3>2, <3>3
  <2>5. s.cfg \in InForce(file)
    BY <1>1, PolicyFacts DEF Truthful
  <2>6. InForce(file)' = InForce(file)
    BY DEF InForce, Policy
  <2>7. Gate!Take(t)
    BY <2>3, <2>4, <2>5, <2>6 DEF Gate!Take
  <2> QED
    BY <1>4, <2>7 DEF Gate!Next
<1> QED
  BY <1>3, <1>4

LEMMA GateArrives ==
  ASSUME AccessInv, NEW t \in Message, Arrive(t)
  PROVE  Gate!Arrive(t)
<1>1. pc \in [Task -> PCs]
  BY DEF AccessInv, TypeOK, PCs
<1>2. /\ pc[t] = "idle" /\ pc' = [pc EXCEPT ![t] = "get"]
      /\ \E m \in Incomings : inc' = [inc EXCEPT ![t] = m]
      /\ UNCHANGED <<file, base, verdict>>
  BY DEF Arrive
<1>3. stages[t] = "away" /\ stages' = [stages EXCEPT ![t] = "here"]
  <2>1. StageOf("idle") = "away" /\ StageOf("get") = "here"
    BY DEF StageOf
  <2>2. stages[t] = StageOf(pc[t])
    BY DEF stages
  <2>3. stages' = [stages EXCEPT ![t] = StageOf("get")]
    BY <1>1, <1>2, Places
  <2> QED
    BY <1>2, <2>1, <2>2, <2>3
<1>4. policies' = policies
  BY <1>2 DEF policies
<1>5. InForce(file)' = InForce(file)
  BY <1>2 DEF InForce, Policy
<1> QED
  BY <1>2, <1>3, <1>4, <1>5 DEF Gate!Arrive

(* The lookup of the LID delays the verdict, not the choice of the policy. *)
LEMMA GateJudges ==
  ASSUME AccessInv, NEW t \in Message, Judge(t) \/ AnswerLID(t)
  PROVE  Gate!Judge(t)
<1>1. pc \in [Task -> PCs]
  BY DEF AccessInv, TypeOK, PCs
<1>2. /\ pc[t] \in {"decide", "lookup"} /\ pc' = [pc EXCEPT ![t] = "done"]
      /\ \E lid \in {"", BotLID} :
           verdict' = [verdict EXCEPT ![t] = Ruling(base[t], inc[t], Account(lid))]
      /\ UNCHANGED <<file, base, inc>>
  BY DEF Judge, AnswerLID
<1>3. stages[t] = "ready" /\ stages' = [stages EXCEPT ![t] = "judged"]
  BY <1>1, <1>2, Places DEF StageOf, stages
<1>4. policies[t] = base[t] /\ policies' = policies
  BY <1>2 DEF policies
<1>5. \E v \in Rulings(policies[t], inc[t]) : verdict' = [verdict EXCEPT ![t] = v]
  BY <1>2, <1>4 DEF Rulings
<1>6. InForce(file)' = InForce(file)
  BY <1>2 DEF InForce, Policy
<1> QED
  BY <1>2, <1>3, <1>4, <1>5, <1>6 DEF Gate!Judge

LEMMA GateParts ==
  ASSUME AccessInv, NEW T \in SUBSET Task, Forget(T), file' = file
  PROVE  Gate!Part(T \cap Message)
<1>1. TypeOK /\ Message \subseteq Task
  BY DEF AccessInv, Task
<1>2. /\ \A t \in Message : IF t \in T THEN pc'[t] = "idle"
                            ELSE pc'[t] = pc[t] /\ base'[t] = base[t]
      /\ \A t \in Message \ T : inc'[t] = inc[t]
      /\ verdict' = [t \in Message |-> IF t \in T THEN "none" ELSE verdict[t]]
  BY <1>1, ForgetFacts DEF Forget
<1>3. stages' = [t \in Message |-> IF t \in T \cap Message THEN "away" ELSE stages[t]]
  <2>1. stages' = [t \in Message |-> StageOf(pc'[t])]
    BY DEF stages
  <2>2. \A t \in Message : StageOf(pc'[t]) = IF t \in T \cap Message THEN "away"
                                             ELSE stages[t]
    BY <1>2 DEF stages, StageOf
  <2> QED
    BY <2>1, <2>2
<1>4. \A t \in Message \ (T \cap Message) : policies'[t] = policies[t]
  BY <1>2 DEF policies
<1>5. verdict' = [t \in Message |-> IF t \in T \cap Message THEN "none" ELSE verdict[t]]
  BY <1>2
<1>6. InForce(file)' = InForce(file)
  BY DEF InForce, Policy
<1> QED
  BY <1>2, <1>3, <1>4, <1>5, <1>6 DEF Gate!Part

LEMMA GateStep ==
  ASSUME AccessInv, Askers, [Next]_vars PROVE [Gate!Next]_(Gate!vars)
<1>1. /\ pc \in [Task -> PCs] /\ file \in File /\ store \in [Process -> Store]
      /\ Message \subseteq Task /\ \A t \in Saver : t \notin Message
  BY HomeFacts DEF AccessInv, TypeOK, PCs, Task
<1>2. ASSUME NEW t \in Task, UseCached(t) PROVE [Gate!Next]_(Gate!vars)
  <2>1. Truthful(t, store[Home(t)])
    BY <1>2, CachedTruth
  <2> QED
    BY <1>2, <2>1, GateTakes DEF UseCached
<1>3. ASSUME NEW t \in Task, UseEnvironment(t) PROVE [Gate!Next]_(Gate!vars)
  <2>1. Truthful(t, Environment)
    BY <1>3, EnvironmentTruth
  <2> QED
    BY <1>3, <2>1, GateTakes DEF UseEnvironment
<1>4. ASSUME NEW t \in Task, ReadFile(t) PROVE [Gate!Next]_(Gate!vars)
  <2>1. Truthful(t, Loaded(store[Home(t)]))
    BY <1>4, ReadTruth
  <2>2. CallOf(pc[t]) \in Calls
    BY DEF CallOf, Calls
  <2> QED
    BY <1>4, <2>1, <2>2, GateTakes DEF ReadFile
<1>5. ASSUME NEW t \in Task, Stat(t) PROVE UNCHANGED Gate!vars
  <2>1. \A u \in Message : StageOf(pc'[u]) = StageOf(pc[u])
    BY <1>1, <1>5 DEF Stat, StageOf, Calls
  <2> QED
    BY <1>5, <2>1, Unseen DEF Stat
<1>6. ASSUME NEW t \in Task, Leave(t) PROVE Gate!Part({t} \cap Message)
  BY <1>6, GateParts DEF Leave
<1>7. ASSUME NEW p \in Process, Restart(p) PROVE \E T \in SUBSET Message : Gate!Part(T)
  <2> DEFINE T == {t \in Task : Home(t) = p}
  <2>1. Gate!Part(T \cap Message)
    BY <1>7, GateParts DEF Restart
  <2> QED
    BY <2>1
<1>8. ASSUME NEW t \in Saver, Submit(t) \/ Refuse(t) \/ Put(t) PROVE Gate!Change
  <2>1. \A u \in Message : pc'[u] = pc[u] /\ base'[u] = base[u]
    BY <1>1, <1>8 DEF Submit, Refuse, Put
  <2> QED
    BY <1>8, <2>1, Unseen DEF Submit, Refuse, Put
<1>9. ASSUME NEW t \in Message, Arrive(t) PROVE Gate!Arrive(t)
  BY <1>9, GateArrives
<1>10. ASSUME NEW t \in Message, Judge(t) \/ AnswerLID(t) PROVE Gate!Judge(t)
  BY <1>10, GateJudges
<1>11. ASSUME NEW t \in Message, AskLID(t) PROVE UNCHANGED Gate!vars
  <2>1. \A u \in Message : StageOf(pc'[u]) = StageOf(pc[u])
    BY <1>1, <1>11 DEF AskLID, StageOf
  <2> QED
    BY <1>11, <2>1, Unseen DEF AskLID
<1>12. CASE Edit \/ Damage \/ Remove
  <2>1. UNCHANGED <<pc, base, inc, verdict>>
    BY <1>12 DEF Edit, Damage, Remove
  <2>2. Gate!Change
    BY <2>1, Unseen
  <2> QED
    BY <2>2 DEF Gate!Next
<1>13. CASE UNCHANGED vars
  <2>1. UNCHANGED <<file, pc, base, inc, verdict>>
    BY <1>13 DEF vars
  <2> QED
    BY <2>1, Unseen
<1>14. \A t : {t} \cap Message \in SUBSET Message
  OBVIOUS
<1> QED
  BY <1>2, <1>3, <1>4, <1>5, <1>6, <1>7, <1>8, <1>9, <1>10, <1>11, <1>12, <1>13, <1>14
  DEF Next, Gate!Next

(* Whatever is saved, edited, damaged or removed while it reads and waits, *)
(* a message is handled as if it had looked at one policy once.            *)
THEOREM GateRefined == Spec => ImplementsGate
<1>1. Init => Askers
  BY DEF Init, Askers, Task
<1>2. AccessInv /\ Askers /\ [Next]_vars => Askers'
  BY AskersStep
<1>3. Init => Gate!Init
  <2> SUFFICES ASSUME Init PROVE Gate!Init
    OBVIOUS
  <2>1. \A t \in Message : StageOf(pc[t]) = "away"
    BY DEF Init, Task, StageOf
  <2>2. stages = [t \in Message |-> "away"]
    BY <2>1 DEF stages
  <2> QED
    BY <2>2 DEF Init, Gate!Init
<1>4. AccessInv /\ Askers /\ [Next]_vars => [Gate!Next]_(Gate!vars)
  BY GateStep
<1> QED
  BY <1>1, <1>2, <1>3, <1>4, AccessInvariant, PTL DEF Spec, ImplementsGate, Gate!Spec
-----------------------------------------------------------------------------
(* What a policy says before anything is normalised: numbers as they are   *)
(* written, in a roster with duplicates.                                   *)

IsPhone(j, w) == j.server = "phone" /\ j.user = w.digits

(* The sender shows up under the LID that is written beside a number.      *)
ShowsLID(in, lid) ==
  /\ lid.user \in Digits /\ lid.server \in {"", "lid"}
  /\ \/ in.from.user = lid.user /\ in.from.server = "lid"
     \/ in.fromLID.user = lid.user /\ in.fromLID.server \in {"", "lid"}

Entitled(c, in) ==
  \/ /\ c.mode = "personal" /\ ~IsGroupJID(in.chat)
     /\ IsPhone(in.from, c.number) \/ IsPhone(in.chat, c.number)
  \/ /\ c.mode = "team" /\ IsGroupJID(in.chat) /\ in.chat.user = c.group.user
     /\ \E i \in DOMAIN c.members :
          \/ IsPhone(in.from, c.members[i].phone)
          \/ i \in FirstEntries(c.members) /\ ShowsLID(in, c.members[i].lid)

LEMMA PhoneMeans ==
  ASSUME NEW w \in Written, NumberOK(w), NEW j
  PROVE  PhoneMatches(j, NormalizeNumber(w)) <=> IsPhone(j, w)
<1>1. NormalizeNumber(w).form = "plain" /\ NormalizeNumber(w).digits = w.digits
  BY NumberFacts
<1> QED
  BY <1>1 DEF PhoneMatches, IsPhone

LEMMA LIDMeans ==
  ASSUME NEW j \in JID
  PROVE  NormalizeLID(j).user = IF j.server \in {"", "lid"} /\ j.user \in Digits
                                THEN j.user ELSE ""
  BY DEF JID, NormalizeLID

LEMMA MemberMeans ==
  ASSUME NEW m \in Member, NumberOK(m.phone), NEW in \in Incoming
  PROVE  Matches(Canon(m), in) <=> IsPhone(in.from, m.phone) \/ ShowsLID(in, m.lid)
<1>1. m.phone \in Written /\ m.lid \in JID
  BY DEF Member
<1>2. Canon(m).phone = NormalizeNumber(m.phone) /\ Canon(m).lid = NormalizeLID(m.lid)
  BY DEF Canon
<1>3. PhoneMatches(in.from, Canon(m).phone) <=> IsPhone(in.from, m.phone)
  BY <1>1, <1>2, PhoneMeans
<1> DEFINE u == IF m.lid.server \in {"", "lid"} /\ m.lid.user \in Digits
                  THEN m.lid.user ELSE ""
<1>7. NormalizeLID(m.lid).user = u
  BY <1>1, LIDMeans
<1>8. \A j : j.user = Canon(m).lid.user <=> j.user = u
  BY <1>2, <1>7
<1>4. /\ u # "" <=> m.lid.user \in Digits /\ m.lid.server \in {"", "lid"}
      /\ u # "" => u = m.lid.user
  BY InputAssumption
<1> HIDE DEF u
<1>5. (u # "" /\ \E j \in {in.from, in.fromLID} :
                   /\ j.server = "lid" \/ (j = in.fromLID /\ j.server = "")
                   /\ j.user = u)
      <=> ShowsLID(in, m.lid)
  <2>1. ASSUME u # "", NEW j \in {in.from, in.fromLID}, j.user = u,
               j.server = "lid" \/ (j = in.fromLID /\ j.server = "")
        PROVE  ShowsLID(in, m.lid)
    BY <1>4, <2>1 DEF ShowsLID
  <2>2. ASSUME ShowsLID(in, m.lid)
        PROVE  u # "" /\ \E j \in {in.from, in.fromLID} :
                 /\ j.server = "lid" \/ (j = in.fromLID /\ j.server = "")
                 /\ j.user = u
    BY <1>4, <2>2 DEF ShowsLID
  <2> QED
    BY <2>1, <2>2
<1> QED
  BY <1>2, <1>3, <1>5, <1>7, <1>8 DEF Matches

(* Every number of a roster has an entry that is kept. *)
LEMMA FirstExists ==
  ASSUME NEW ms \in Roster, NEW i \in DOMAIN ms
  PROVE  \E k \in FirstEntries(ms) : ms[k].phone.digits = ms[i].phone.digits
<1> DEFINE T == {k \in DOMAIN ms : ms[k].phone.digits = ms[i].phone.digits}
<1>1. T \in SUBSET Nat /\ T # {}
  BY RosterFacts, InputAssumption
<1>2. PICK n \in T : \A k \in T : n <= k
  BY <1>1, LeastNumber
<1>3. n \in FirstEntries(ms)
  BY <1>2 DEF FirstEntries
<1> QED
  BY <1>2, <1>3

(* Normalising changes how a policy is written and not whom it lets in.    *)
LEMMA SameMeaning ==
  ASSUME NEW c \in Config, Valid(c), NEW in \in Incoming
  PROVE  Authorize(Normalize(c), in) <=> Entitled(c, in)
<1> DEFINE n == Normalize(c)
           ms == c.members
<1>1. /\ c.mode \in {"personal", "team"} /\ c.number \in Written
      /\ ms \in Roster /\ \A i \in DOMAIN ms : NumberOK(ms[i].phone)
  BY DEF Config, Valid
<1>2. /\ n.mode = c.mode /\ n.members = Normal(ms)
      /\ n.number = IF NumberOK(c.number) THEN NormalizeNumber(c.number) ELSE Blank
      /\ n.group = IF IsGroupJID(c.group) THEN c.group ELSE NoJID
  BY NormalizeIs
<1>3. c.mode = "personal" =>
        \A j : PhoneMatches(j, n.number) <=> IsPhone(j, c.number)
  BY <1>1, <1>2, PhoneMeans DEF Valid
<1>4. c.mode = "team" => n.group.user = c.group.user
  BY <1>2 DEF Valid
<1>5. DOMAIN n.members = FirstEntries(ms) /\ FirstEntries(ms) \subseteq DOMAIN ms
  BY <1>2 DEF Normal, FirstEntries
<1>6. \A i \in FirstEntries(ms) :
        Matches(n.members[i], in) <=>
          IsPhone(in.from, ms[i].phone) \/ ShowsLID(in, ms[i].lid)
  <2> SUFFICES ASSUME NEW i \in FirstEntries(ms)
               PROVE  Matches(n.members[i], in) <=>
                        IsPhone(in.from, ms[i].phone) \/ ShowsLID(in, ms[i].lid)
    OBVIOUS
  <2>1. ms[i] \in Member /\ NumberOK(ms[i].phone)
    BY <1>1, <1>5, RosterFacts
  <2>2. n.members[i] = Canon(ms[i])
    BY <1>2 DEF Normal
  <2> QED
    BY <2>1, <2>2, MemberMeans
<1>7. (\E i \in DOMAIN n.members : Matches(n.members[i], in)) <=>
        \E i \in DOMAIN ms :
          \/ IsPhone(in.from, ms[i].phone)
          \/ i \in FirstEntries(ms) /\ ShowsLID(in, ms[i].lid)
  <2>1. ASSUME NEW i \in DOMAIN n.members, Matches(n.members[i], in)
        PROVE  \E k \in DOMAIN ms :
                 \/ IsPhone(in.from, ms[k].phone)
                 \/ k \in FirstEntries(ms) /\ ShowsLID(in, ms[k].lid)
    BY <1>5, <1>6, <2>1
  <2>2. ASSUME NEW i \in DOMAIN ms, IsPhone(in.from, ms[i].phone)
        PROVE  \E k \in DOMAIN n.members : Matches(n.members[k], in)
    <3>1. PICK k \in FirstEntries(ms) : ms[k].phone.digits = ms[i].phone.digits
      BY <1>1, FirstExists
    <3>2. IsPhone(in.from, ms[k].phone)
      BY <2>2, <3>1 DEF IsPhone
    <3> QED
      BY <1>5, <1>6, <3>2
  <2>3. ASSUME NEW i \in FirstEntries(ms), ShowsLID(in, ms[i].lid)
        PROVE  \E k \in DOMAIN n.members : Matches(n.members[k], in)
    BY <1>5, <1>6, <2>3
  <2> QED
    BY <2>1, <2>2, <2>3
<1> HIDE DEF n, ms
<1> QED
  BY <1>2, <1>3, <1>4, <1>7 DEF Authorize, Entitled, n, ms

(* Whom a file lets in, as it is written; none that cannot be read or is   *)
(* not valid lets anybody in.                                              *)
EntitledBy(f, in) ==
  \/ /\ f.state = "config" /\ Valid(f.cfg) /\ Entitled(f.cfg, in)
  \/ /\ f.state = "absent" /\ ~IsGroupJID(in.chat)
     /\ \E i \in FirstSender : \/ IsPhone(in.from, AllowedSenders[i])
                               \/ IsPhone(in.chat, AllowedSenders[i])

(* The policy a message takes lets in whom the file says, in its own       *)
(* words, and nobody else; only a file that vanishes during the read may   *)
(* turn away whom ALLOWED_SENDERS lets in.                                 *)
EnforcedAsWritten ==
  [][\A t \in Message :
       pc[t] # pc'[t] /\ pc'[t] = "decide" =>
         /\ Authorize(base'[t], inc[t]) => EntitledBy(file, inc[t])
         /\ file.state # "absent" /\ EntitledBy(file, inc[t])
              => Authorize(base'[t], inc[t])]_vars

LEMMA DeniedMeans ==
  ASSUME NEW in PROVE ~Authorize(Denied, in)
  BY DeniedFacts DEF Authorize

LEMMA LegacyMeans ==
  ASSUME NEW in \in Incoming, Authorize(Legacy, in)
  PROVE  /\ ~IsGroupJID(in.chat)
         /\ \E i \in FirstSender : \/ IsPhone(in.from, AllowedSenders[i])
                                   \/ IsPhone(in.chat, AllowedSenders[i])
<1>1. Legacy.mode = "personal" /\ Legacy.number = LegacyNumber
  BY DEF Legacy
<1>2. /\ ~IsGroupJID(in.chat)
      /\ PhoneMatches(in.from, LegacyNumber) \/ PhoneMatches(in.chat, LegacyNumber)
  BY <1>1 DEF Authorize
<1>3. FirstSender # {}
  BY <1>2 DEF LegacyNumber, PhoneMatches, Blank
<1>4. PICK i \in FirstSender : LegacyNumber = NormalizeNumber(AllowedSenders[i])
  BY <1>3, AnyElement DEF LegacyNumber
<1>5. PICK S \in SUBSET Slot : AllowedSenders \in [S -> Written]
  BY InputAssumption
<1>6. AllowedSenders[i] \in Written /\ NumberOK(AllowedSenders[i])
  BY <1>5 DEF FirstSender
<1> QED
  BY <1>2, <1>4, <1>6, PhoneMeans

LEMMA FileMeans ==
  ASSUME NEW f \in File, NEW in \in Incoming, NEW c \in InForce(f)
  PROVE  /\ Authorize(c, in) => EntitledBy(f, in)
         /\ f.state # "absent" /\ EntitledBy(f, in) => Authorize(c, in)
<1>1. f.cfg \in Config
  BY DEF File
<1>2. CASE f.state = "absent"
  <2>1. c = Legacy \/ c = Denied
    BY <1>2 DEF InForce, Policy
  <2> QED
    BY <1>2, <2>1, LegacyMeans, DeniedMeans DEF EntitledBy
<1>3. CASE f.state = "config" /\ Valid(f.cfg)
  <2>1. c = Normalize(f.cfg)
    BY <1>3 DEF InForce, Policy
  <2> QED
    BY <1>1, <1>3, <2>1, SameMeaning DEF EntitledBy
<1>4. CASE f.state # "absent" /\ ~(f.state = "config" /\ Valid(f.cfg))
  <2>1. c = Denied
    BY <1>4 DEF InForce, Policy
  <2> QED
    BY <1>4, <2>1, DeniedMeans DEF EntitledBy
<1> QED
  BY <1>2, <1>3, <1>4

(* What a message takes is a policy in force when it takes it.            *)
LEMMA TakesInForce ==
  ASSUME AccessInv, [Next]_vars, NEW t \in Message,
         pc[t] # pc'[t], pc'[t] = "decide"
  PROVE  base'[t] \in InForce(file)
<1>1. /\ pc \in [Task -> PCs] /\ base \in [Task -> Canonical] /\ file \in File
      /\ t \in Task /\ t \notin Saver /\ TypeOK
  BY HomeFacts DEF AccessInv, TypeOK, PCs, Task
<1>2. ASSUME NEW u \in Task, NEW s, Truthful(u, s), NEW call \in Calls,
             Return(u, call, s)
      PROVE  base'[t] \in InForce(file)
  <2>1. s \in Store
    BY <1>2 DEF Truthful
  <2>2. u = t /\ call = "get" /\ base'[t] = s.cfg
    BY <1>1, <1>2, <2>1, ReturnFacts DEF Calls
  <2>3. s.cfg \in InForce(file)
    BY <1>1, <1>2, PolicyFacts DEF Truthful
  <2> QED
    BY <2>2, <2>3
<1>3. ASSUME NEW u \in Task, UseCached(u) PROVE base'[t] \in InForce(file)
  BY <1>2, <1>3, CachedTruth DEF UseCached
<1>4. ASSUME NEW u \in Task, UseEnvironment(u) PROVE base'[t] \in InForce(file)
  BY <1>2, <1>4, EnvironmentTruth DEF UseEnvironment
<1>5. ASSUME NEW u \in Task, ReadFile(u) PROVE base'[t] \in InForce(file)
  <2>1. CallOf(pc[u]) \in Calls
    BY DEF CallOf, Calls
  <2> QED
    BY <1>2, <1>5, <2>1, ReadTruth DEF ReadFile
<1>6. ASSUME NEW u \in Task, Stat(u) \/ Leave(u) PROVE FALSE
  BY <1>1, <1>6 DEF Stat, Leave, Forget
<1>7. ASSUME NEW u \in Saver, Submit(u) \/ Refuse(u) \/ Put(u) PROVE FALSE
  BY <1>1, <1>7 DEF Submit, Refuse, Put
<1>8. ASSUME NEW u \in Message, Arrive(u) \/ Judge(u) \/ AskLID(u) \/ AnswerLID(u)
      PROVE  FALSE
  BY <1>1, <1>8 DEF Arrive, Judge, AskLID, AnswerLID
<1>9. CASE Edit \/ Damage \/ Remove \/ UNCHANGED vars
  BY <1>9 DEF Edit, Damage, Remove, vars
<1>10. ASSUME NEW p \in Process, Restart(p) PROVE FALSE
  BY <1>1, <1>10 DEF Restart, Forget
<1> QED
  BY <1>3, <1>4, <1>5, <1>6, <1>7, <1>8, <1>9, <1>10 DEF Next

AsWrittenFor(t) ==
  pc[t] # pc'[t] /\ pc'[t] = "decide" =>
    /\ Authorize(base'[t], inc[t]) => EntitledBy(file, inc[t])
    /\ file.state # "absent" /\ EntitledBy(file, inc[t]) => Authorize(base'[t], inc[t])

(* The policy a message takes lets in whom the file says, in its own       *)
(* words, and nobody else, whatever happens to the file meanwhile          *)
(* (access.go: refreshLocked, Normalize, Authorize).                       *)
THEOREM Enforcement == Spec => EnforcedAsWritten
<1>1. AccessInv /\ [Next]_vars => [\A t \in Message : AsWrittenFor(t)]_vars
  <2> SUFFICES ASSUME AccessInv, [Next]_vars, NEW t \in Message PROVE AsWrittenFor(t)
    OBVIOUS
  <2>1. file \in File /\ inc[t] \in Incoming
    BY DEF AccessInv, TypeOK
  <2> QED
    BY <2>1, TakesInForce, FileMeans DEF AsWrittenFor
<1>2. Spec => [][\A t \in Message : AsWrittenFor(t)]_vars
  BY <1>1, AccessInvariant, PTL DEF Spec
<1> QED
  BY <1>2 DEF EnforcedAsWritten, AsWrittenFor
=============================================================================
