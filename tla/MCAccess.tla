------------------------------- MODULE MCAccess -------------------------------
(* A small instance: two numbers, one group, two saves and one webhook. *)
EXTENDS AccessStore, TLC

CONSTANTS s1, s2, m1

Number(d, f) == [digits |-> d, form |-> f]
Phone(d) == [user |-> d, server |-> "phone"]
LID(d) == [user |-> d, server |-> "lid"]
TeamGroup == [user |-> "g", server |-> "group"]
One == [i \in {1} |-> [phone |-> Number("1", "plain"), lid |-> LID("2")]]
Twice == [i \in {1, 2} |-> [phone |-> Number("1", IF i = 1 THEN "pretty" ELSE "plain"),
                            lid |-> IF i = 1 THEN NoJID ELSE LID("2")]]

MCDigits == {"1", "2", "8", "9"}
MCGroup == {"g"}
MCSlot == {1, 2}
MCSenders == <<Number("1", "junk"), Number("2", "pretty")>>

(* Switch to personal mode for another owner, which does not mention the   *)
(* roster; to team mode with a roster, which does not mention the owner.   *)
MCRequests == {
  [NoRequest EXCEPT !.mode = "personal", !.sets = {"number"},
                    !.number = Number("1", "pretty")],
  [NoRequest EXCEPT !.mode = "team", !.sets = {"team"}, !.group = TeamGroup,
                    !.members = One]}

(* A roster that names one person twice. *)
MCHandEdits == {
  [Denied EXCEPT !.mode = "team", !.group = TeamGroup, !.members = Twice]}

(* A direct message; a group message that names the bot by its LID, from a *)
(* sender who shows up under his LID.                                      *)
MCIncomings == {
  [NoMessage EXCEPT !.chat = Phone("2"), !.from = Phone("2"), !.words = "yes"],
  [NoMessage EXCEPT !.chat = TeamGroup, !.from = LID("2"),
                    !.mentions = {"8"}, !.words = "yes"]}

Savers == {s1, s2}
Messages == {m1}
Alike == Permutations(Savers)
=============================================================================
