----------------------------- MODULE AccessPolicy -----------------------------
(***************************************************************************)
(* Who may give Claude instructions: the rules of internal/access as       *)
(* operators.  Digit strings are members of Digits, which phone numbers    *)
(* and LIDs share, so that a LID may have the digits of somebody's number. *)
(* An absent string is "".                                                 *)
(***************************************************************************)
EXTENDS Naturals

CONSTANTS
  Digits,          \* canonical digit strings: of phone numbers and of LIDs
  Group,           \* the user parts of group JIDs
  Slot,            \* positions in a roster or a list of senders
  AllowedSenders   \* ALLOWED_SENDERS: written numbers by position

(***************************************************************************)
(* A written phone number: the digits it stands for and how it is written. *)
(* "junk" is everything NormalizeNumber refuses, "blank" the empty string. *)
(***************************************************************************)
Blank == [digits |-> "", form |-> "blank"]
Written == [digits : Digits, form : {"plain", "pretty", "junk"}] \cup {Blank}

NumberOK(w) == w.form \in {"plain", "pretty"}
NormalizeNumber(w) == [w EXCEPT !.form = "plain"]

JID == [user : Digits \cup Group \cup {""},
        server : {"phone", "lid", "group", ""}]
NoJID == [user |-> "", server |-> ""]

IsGroupJID(j) == j.user # "" /\ j.server = "group"
NormalizeLID(j) ==
  [user |-> IF j.server \in {"", "lid"} /\ j.user \in Digits
              THEN j.user ELSE "",
   server |-> ""]

(***************************************************************************)
(* A roster is a function from positions to members; only their order      *)
(* counts.  Of two entries with one number the first is kept.              *)
(***************************************************************************)
Member == [phone : Written, lid : JID]
Roster == UNION {[S -> Member] : S \in SUBSET Slot}
NoMembers == [i \in {} |-> [phone |-> Blank, lid |-> NoJID]]

Config == [mode : {"personal", "team", "none"}, number : Written,
           group : JID, members : Roster]

(* The zero Config: it has no mode, and denies everything. *)
Denied == [mode |-> "none", number |-> Blank, group |-> NoJID,
           members |-> NoMembers]

FirstEntries(ms) ==
  {i \in DOMAIN ms :
     \A j \in DOMAIN ms : ms[j].phone.digits = ms[i].phone.digits => i <= j}

(* Normalize returns no error. *)
Valid(c) ==
  /\ c.mode \in {"personal", "team"}
  /\ c.mode = "personal" => NumberOK(c.number)
  /\ c.mode = "team" => IsGroupJID(c.group)
  /\ \A i \in DOMAIN c.members : NumberOK(c.members[i].phone)

(* A mutant: the roster is dropped in personal mode. *)
ActiveOnly(c) ==
  [mode |-> c.mode,
   number |-> IF NumberOK(c.number) THEN NormalizeNumber(c.number) ELSE Blank,
   group |-> IF IsGroupJID(c.group) THEN c.group ELSE NoJID,
   members |-> [i \in {j \in FirstEntries(c.members) : c.mode = "team"} |->
                  [phone |-> NormalizeNumber(c.members[i].phone),
                   lid |-> NormalizeLID(c.members[i].lid)]]]

(* What Normalize makes of a valid config. *)
Normalize(c) ==
  [mode |-> c.mode,
   number |-> IF NumberOK(c.number) THEN NormalizeNumber(c.number) ELSE Blank,
   group |-> IF IsGroupJID(c.group) THEN c.group ELSE NoJID,
   members |-> [i \in FirstEntries(c.members) |->
                  [phone |-> NormalizeNumber(c.members[i].phone),
                   lid |-> NormalizeLID(c.members[i].lid)]]]

(* The policy of the environment: the first valid sender owns the bot. *)
FirstSender ==
  {i \in DOMAIN AllowedSenders :
     /\ NumberOK(AllowedSenders[i])
     /\ \A j \in DOMAIN AllowedSenders : NumberOK(AllowedSenders[j]) => i <= j}
LegacyNumber ==
  IF FirstSender = {} THEN Blank
  ELSE NormalizeNumber(AllowedSenders[CHOOSE i \in FirstSender : TRUE])
Legacy == [mode |-> "personal", number |-> LegacyNumber, group |-> NoJID,
           members |-> NoMembers]

(***************************************************************************)
(* Decisions.  A message body is the numbers it @mentions and whether it   *)
(* has other words.                                                        *)
(***************************************************************************)
Incoming == [chat : JID, from : JID, fromLID : JID,
             mentions : SUBSET Digits, words : {"yes", "no"},
             media : {"yes", "no"}]
Bot == [phone : Digits \cup {""}, lid : Digits \cup {""}]

PhoneMatches(j, w) == w.form = "plain" /\ j.server = "phone" /\ j.user = w.digits

Matches(m, in) ==
  \/ PhoneMatches(in.from, m.phone)
  \/ /\ m.lid.user # ""
     /\ \E j \in {in.from, in.fromLID} :
          /\ j.server = "lid" \/ (j = in.fromLID /\ j.server = "")
          /\ j.user = m.lid.user

Authorize(c, in) ==
  \/ /\ c.mode = "personal"
     /\ ~IsGroupJID(in.chat)
     /\ PhoneMatches(in.from, c.number) \/ PhoneMatches(in.chat, c.number)
  \/ /\ c.mode = "team"
     /\ IsGroupJID(in.chat)
     /\ in.chat.user = c.group.user
     /\ \E i \in DOMAIN c.members : Matches(c.members[i], in)

Names(bot) == {bot.phone, bot.lid} \ {""}
Mentioned(in, bot) == in.mentions \cap Names(bot) # {}
Emptied(in, bot) ==
  in.mentions \subseteq Names(bot) /\ in.words = "no" /\ in.media = "no"

Decide(c, in, bot) ==
  /\ Authorize(c, in)
  /\ c.mode = "team" => Mentioned(in, bot) /\ ~Emptied(in, bot)

(* The live gate must ask gowa for the bot's LID before it can tell. *)
NeedsLID(c, in, bot) ==
  /\ c.mode = "team" /\ IsGroupJID(in.chat)
  /\ ~Mentioned(in, bot)
  /\ in.mentions # {}
=============================================================================
