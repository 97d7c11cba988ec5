------------------------------ MODULE MCIntake -------------------------------
(***************************************************************************)
(* Small instances of Intake: e-mail with two connections and a queue of    *)
(* one, subscriptions of one person by two spellings, and both together.    *)
(***************************************************************************)
EXTENDS Intake

CONSTANTS s1, s2, r1, r2, r3, g, h, ann, bob

L(rcpts, mails, asks, n) ==
  [rcpts |-> rcpts, mails |-> mails, asks |-> asks, faults |-> n,
   roles |-> [s \in Session |-> IF mails[s] = {} THEN {} ELSE {{"publisher"}, {"reader"}}]]

To(group, channels) == [ours |-> TRUE, group |-> group, channels |-> channels]
Plain(from) == [parses |-> TRUE, fromOK |-> TRUE, from |-> from, body |-> TRUE]
Sub(door, u) == [op |-> "subscribe", door |-> door, user |-> u]
Leave(door, u) == [op |-> "unsubscribe", door |-> door, user |-> u]

NoMails == [s \in Session |-> {}]
NoAsks == [r \in Request |-> {}]

\* One connection with every kind of address and message, and two with one kind each.
MailLoads ==
  {L({To(g, {"sms"}), To(h, {}), [To(g, {"sms"}) EXCEPT !.ours = FALSE], To(g, {"fax"})},
     [NoMails EXCEPT ![s1] = {Plain({"voice"}), Plain({}), Plain({"fax"}),
                              [Plain({}) EXCEPT !.body = FALSE]}], NoAsks, 1),
   L({To(g, {"sms"})}, [s \in Session |-> {Plain({})}], NoAsks, 0)}

SubLoads ==
  {L({}, NoMails,
     [NoAsks EXCEPT ![r1] = {Sub("form", "Ann")}, ![r2] = {Sub("api", "Ann"), Sub("api", "ann")},
                    ![r3] = {Leave("form", "Ann"), Leave("api", "ann"), Sub("form", "Ann"),
                             Sub("form", "bob")}], 1)}

\* A message and two requests race for the only place of the queue.
BothLoads ==
  {L({To(g, {"sms"})}, [NoMails EXCEPT ![s1] = {Plain({})}],
     [NoAsks EXCEPT ![r1] = {Sub("form", "Ann")}, ![r2] = {Leave("api", "ann")}], 0)}

MCFold == [u \in Spelling |-> IF u = "bob" THEN bob ELSE ann]
MCMobile == ann :> "+1" @@ bob :> "none"

MCLoads == MailLoads \cup SubLoads \cup BothLoads
=============================================================================
