---------------------------- MODULE MCDispatcher ----------------------------
(***************************************************************************)
(* Small instances of Dispatcher.                                          *)
(***************************************************************************)
EXTENDS Dispatcher, TLC

CONSTANTS a, b, g, h

\* Member a is subscribed; the group holds both members, or nobody.
MCStartSubs == {{a}}
MCStartMembers == {[x \in {g} |-> {a, b}]}
\* One group has a member, the other is empty or has one.
MCStartMembersWide == {[x \in {g, h} |-> IF x = g THEN {a} ELSE S] : S \in {{}, {b}}}

\* Worker goroutines are interchangeable.
MCSymmetry == Permutations(Worker)

\* Both members have a mobile number and an address.
MCReach == [m \in {a, b} |-> Channel]
\* Member b has only a mail address.
MCReachMixed == [m \in {a, b} |-> IF m = a THEN {"sms", "voice"} ELSE {"email"}]

D(m, c) == [who |-> m, ch |-> c]
Ask(gs, cs, ds) == [groups |-> gs, channels |-> cs, dests |-> ds]

\* SMS to a group, and one person reached directly as well.
MCRequests == {Ask(<<g>>, {"sms"}, <<>>), Ask(<<>>, {}, <<D(a, "sms")>>)}

\* Every channel, a group named twice, a channel without a provider.
MCRequestsWide ==
  {Ask(<<g, h>>, {"sms", "email"}, <<>>), Ask(<<h>>, {"sms"}, <<>>),
   Ask(<<g>>, {"sms"}, <<D(b, "email"), D(b, "voice")>>)}

\* An SMS to a group and one directly, or a call. Member b has no subscription, so of the
\* first only a is sent to, but all deliveries need the token.
MCRequestsLive == {Ask(<<g>>, {"sms"}, <<D(b, "sms")>>), Ask(<<>>, {}, <<D(b, "voice")>>)}

\* Once the process is told to stop EnqueuedIsClosed holds and goes on holding.
MCRunning == ~ctxDone
=============================================================================
