----------------------------- MODULE SmtpSession -----------------------------
(***************************************************************************)
(* E-mail as a way in (smtpapi): a client authenticates, names recipients   *)
(* whose addresses encode a group and channels, and sends a message; the    *)
(* server stores one event and one notification per recipient and queues    *)
(* each. The library (go-smtp) keeps the order of the commands and clears   *)
(* the envelope after each message; it is modelled from how session uses    *)
(* it. Addresses and messages are reduced to what decides: is the domain    *)
(* ours, which channels, does it parse, is there a body. The session's      *)
(* entries in the audit log are written best effort and left out.           *)
(***************************************************************************)
EXTENDS JobQueue

CONSTANTS
  Session,       \* connections
  MaxEnvelopes,  \* bound: MAIL commands per connection
  MaxRcpt        \* bound: RCPT commands per envelope

ASSUME SessionAssumption == MaxEnvelopes \in Nat /\ MaxRcpt \in Nat

validChannels == {"sms", "voice", "email"}
Mail == Session \X (1..MaxEnvelopes)  \* the k-th envelope of a connection

VARIABLES
  conn,   \* conn[s] = [authed, mailing, recipients, n, doing, todo]: n envelopes so far,
          \* doing the next step of Data, todo the targets it has left
  asked,  \* ghost: the addresses the client was told are accepted, since its MAIL
  mail,   \* ghost: mail[e]: the channels in the From of the message sent in envelope e, and to whom
  code,   \* code[e]: the answer to its DATA; 0 before
  events, \* the envelopes with a row in events
  notifs  \* the notifications: [mail, i, group, channels]

smtpVars == <<conn, asked, mail, code, events, notifs>>

NoMail == [from |-> {}, to |-> <<>>]
Idle == [authed |-> FALSE, mailing |-> FALSE, recipients |-> <<>>, n |-> 0,
         doing |-> "command", todo |-> <<>>]

SmtpTypeOK ==
  /\ \A s \in Session :
       /\ conn[s].authed \in BOOLEAN /\ conn[s].mailing \in BOOLEAN
       /\ conn[s].n \in 0..MaxEnvelopes
       /\ conn[s].doing \in {"command", "event", "insert", "enqueue"}
       /\ conn[s].doing \in {"event", "insert", "enqueue"} <=> conn[s].todo # <<>>
       /\ conn[s].recipients # <<>> => conn[s].authed /\ conn[s].mailing
  /\ code \in [Mail -> {0, 250, 451, 452, 550}]
  /\ events \subseteq Mail
  /\ \A x \in notifs : x.mail \in events /\ x.channels # {} /\ x.channels \subseteq validChannels

SmtpInit ==
  /\ conn = [s \in Session |-> Idle]
  /\ asked = [s \in Session |-> <<>>]
  /\ mail = [e \in Mail |-> NoMail]
  /\ code = [e \in Mail |-> 0]
  /\ events = {} /\ notifs = {}

-----------------------------------------------------------------------------
Ready(s) == conn[s].doing = "command"
Current(s) == <<s, conn[s].n>>
StoredNothing == UNCHANGED <<mail, code, events, notifs>>

\* The roles that may publish.
permPublish == {"admin", "publisher"}
hasPermission(roles) == roles \cap permPublish # {}

\* PLAIN and LOGIN bring the roles of the directory, CRAM-MD5 those of the credential;
\* only who may publish gets in. Any other outcome changes nothing.
finishAuth(s, roles) ==
  /\ Ready(s) /\ ~conn[s].authed
  /\ hasPermission(roles)
  /\ conn' = [conn EXCEPT ![s].authed = TRUE]
  /\ UNCHANGED asked /\ StoredNothing

\* MAIL FROM; the library allows one at a time.
MailFrom(s) ==
  /\ Ready(s) /\ conn[s].authed /\ ~conn[s].mailing /\ conn[s].n < MaxEnvelopes
  /\ conn' = [conn EXCEPT ![s].mailing = TRUE, ![s].n = @ + 1]
  /\ UNCHANGED asked /\ StoredNothing

\* Mutant: channels are not checked when the recipient is named.
AnyChannel(a) == a.ours

\* parseRecipient and the check of the channels: another domain or an unknown channel
\* is refused with 550 and leaves the envelope as it is.
Acceptable(a) == a.ours /\ a.channels \subseteq validChannels

\* RCPT TO.
Rcpt(s, a) ==
  /\ Ready(s) /\ conn[s].authed /\ conn[s].mailing /\ Len(asked[s]) < MaxRcpt
  /\ Acceptable(a)
  /\ conn' = [conn EXCEPT ![s].recipients = Append(@, [group |-> a.group, channels |-> a.channels])]
  /\ asked' = [asked EXCEPT ![s] = Append(@, [group |-> a.group, channels |-> a.channels])]
  /\ StoredNothing

\* Mutant: Reset keeps the recipients.
StillThere(s) == conn[s].recipients

\* Reset: the envelope is cleared, the authentication kept.
Reset(s) == <<>>

\* RSET.
Rset(s) ==
  /\ Ready(s) /\ conn[s].mailing
  /\ conn' = [conn EXCEPT ![s].mailing = FALSE, ![s].recipients = Reset(s)]
  /\ asked' = [asked EXCEPT ![s] = <<>>]
  /\ StoredNothing

\* resolveTargets: a recipient's own channels, or those of the From header.
resolveTargets(recipients, fallback) ==
  [i \in DOMAIN recipients |->
     [recipients[i] EXCEPT !.channels = IF @ = {} THEN fallback ELSE @]]

\* The answer to DATA; the library then resets the session.
Answered(s, c) ==
  /\ code' = [code EXCEPT ![Current(s)] = c]
  /\ conn' = [conn EXCEPT ![s].mailing = FALSE, ![s].recipients = Reset(s),
                          ![s].doing = "command", ![s].todo = <<>>]
  /\ asked' = [asked EXCEPT ![s] = <<>>]

\* DATA: everything is checked before anything is stored.
Data(s, m) ==
  /\ Ready(s) /\ conn[s].authed /\ conn[s].mailing /\ asked[s] # <<>>
  /\ mail' = [mail EXCEPT ![Current(s)] = [from |-> m.from, to |-> asked[s]]]
  /\ LET targets == resolveTargets(conn[s].recipients, m.from)
         good == /\ m.parses /\ m.fromOK /\ m.body
                 /\ m.from \subseteq validChannels
                 /\ \A i \in DOMAIN targets : targets[i].channels # {}
     IN IF good
        THEN /\ conn' = [conn EXCEPT ![s].doing = "event", ![s].todo = targets]
             /\ UNCHANGED <<asked, code>>
        ELSE Answered(s, 550)
  /\ UNCHANGED <<events, notifs>>

InsertEvent(s) ==
  /\ conn[s].doing = "event"
  /\ events' = events \cup {Current(s)}
  /\ conn' = [conn EXCEPT ![s].doing = "insert"]
  /\ UNCHANGED <<asked, mail, code, notifs>>

Stored(s) == Cardinality({x \in notifs : x.mail = Current(s)})
InsertNotification(s) ==
  /\ conn[s].doing = "insert"
  /\ notifs' = notifs \cup {[mail |-> Current(s), i |-> Stored(s) + 1,
                             group |-> Head(conn[s].todo).group,
                             channels |-> Head(conn[s].todo).channels]}
  /\ conn' = [conn EXCEPT ![s].doing = "enqueue"]
  /\ UNCHANGED <<asked, mail, code, events>>

\* Mutant: a full queue is logged and the message accepted all the same.
EnqueueAnyway(s) ==
  /\ conn[s].doing = "enqueue"
  /\ Offer(<<Current(s), Stored(s)>>)
  /\ IF Len(conn[s].todo) = 1 THEN Answered(s, 250)
     ELSE /\ conn' = [conn EXCEPT ![s].doing = "insert", ![s].todo = Tail(@)]
          /\ UNCHANGED <<asked, code>>
  /\ UNCHANGED <<mail, events, notifs>>

\* With the queue full the message is refused half way; what is stored stays stored.
Enqueue(s) ==
  /\ conn[s].doing = "enqueue"
  /\ Offer(<<Current(s), Stored(s)>>)
  /\ IF ~Room THEN Answered(s, 452)
     ELSE IF Len(conn[s].todo) = 1 THEN Answered(s, 250)
     ELSE /\ conn' = [conn EXCEPT ![s].doing = "insert", ![s].todo = Tail(@)]
          /\ UNCHANGED <<asked, code>>
  /\ UNCHANGED <<mail, events, notifs>>

\* An insert fails: 451, with what was stored before.
InsertFails(s) ==
  /\ conn[s].doing \in {"event", "insert"}
  /\ Trouble
  /\ Answered(s, 451)
  /\ UNCHANGED <<mail, events, notifs>>

Smtp(s) ==
  \/ /\ \/ \E roles \in load.roles[s] : finishAuth(s, roles)
        \/ MailFrom(s) \/ Rset(s)
        \/ \E a \in load.rcpts : Rcpt(s, a)
        \/ \E m \in load.mails[s] : Data(s, m)
        \/ InsertEvent(s) \/ InsertNotification(s)
     /\ UNCHANGED queueVars
  \/ Enqueue(s) /\ UNCHANGED <<load, faults, taken>>
  \/ InsertFails(s)

-----------------------------------------------------------------------------
Of(e) == {x \in notifs : x.mail = e}
IsQueued(x) == Queued(<<x.mail, x.i>>)

\* The answer to a message says what became of it. 250: every recipient has its
\* notification and all of them are queued. 550: nothing is stored, the event neither.
\* 451: what was stored before the failure is queued. 452: the last one stored is
\* not queued, those before it are. Never a notification queued and not stored.
\* (Data: check, store and queue one recipient after the other.)
AnswerTells ==
  /\ \A e \in Mail :
       /\ code[e] = 250 => Cardinality(Of(e)) = Len(mail[e].to) /\ \A x \in Of(e) : IsQueued(x)
       /\ code[e] = 550 => e \notin events /\ Of(e) = {}
       /\ code[e] = 451 => \A x \in Of(e) : IsQueued(x)
       /\ code[e] = 452 => \A x \in Of(e) : IsQueued(x) <=> x.i < Cardinality(Of(e))
  /\ \A e \in Mail, i \in 1..MaxRcpt : Queued(<<e, i>>) => \E x \in Of(e) : x.i = i

\* A message reaches whom its client named for it, in that order and over the channels
\* named for each, and nobody of an earlier envelope, whether that was sent, refused or
\* reset. (Reset, called by the library between two messages.)
NoLeftovers ==
  \A x \in notifs :
    /\ x.i \in DOMAIN mail[x.mail].to
    /\ x.group = mail[x.mail].to[x.i].group
    /\ x.channels = IF mail[x.mail].to[x.i].channels = {} THEN mail[x.mail].from
                    ELSE mail[x.mail].to[x.i].channels
=============================================================================
