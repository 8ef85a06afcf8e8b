---------------------------- MODULE MCNodeViews ----------------------------
(* A small instance of NodeViews, and so of InvoiceApi, for TLC.           *)
EXTENDS NodeViews, TLC

CONSTANTS r1, r2, r3, c1, c2, a1, a2, v1, v2, p1

Body(token, amount, asset, expires) ==
    [token |-> token, json |-> TRUE, amount |-> amount, asset |-> asset,
     expires |-> expires]

Secret == "FIBERGATE_INTERNAL_SECRET"

Junk == [token |-> Secret, json |-> FALSE, amount |-> 15, asset |-> "CKB", expires |-> 1]

\* At the bounds and between two shannons: an amount of 15 is 1.5 shannons.
Ckb == Body(Secret, 15, "CKB", 1)
Rusd == Body(Secret, 20, "RUSD", 2)

\* r1 may have a wrong token, an asset the gateway does not know or a deadline
\* at 0; r2 joins or repeats its lookup; r3 is refused, but takes its slot.
MCBodies ==
    r1 :> {Body("other", 15, "CKB", 1), Body(Secret, 15, "DOGE", 1), Body(Secret, 15, "CKB", 0),
           Ckb, Rusd} @@
    r2 :> {Rusd} @@
    r3 :> {Junk}

Channel(peer, udt, enabled, closing, local, remote) ==
    [peer |-> peer, fundingUdt |-> udt, enabled |-> enabled, closing |-> closing,
     local |-> local, remote |-> remote]

\* Two channels of one peer may be in any two states; the other peer has one kind.
MCChannelStates ==
    {Channel(a1, None, TRUE, FALSE, 1, 2), Channel(a1, v1, FALSE, FALSE, 2, 0),
     Channel(a1, v2, TRUE, TRUE, 0, 1), Channel(a2, v1, TRUE, FALSE, 1, 0)}
Symmetry == Permutations(Channels)

\* Bounds: requests of all kinds beside a node without channels or peers, the third
\* beside a whitelist that stays as it was; beside a load whose names it may share,
\* one request to its new_invoice call, and a node of one channel; and loads of any
\* node beside no request, with one change of it.  v2 is whitelisted only there.
Plain ==
    /\ whitelist # v2 /\ peers = {} /\ Open(channels) = {} /\ moves = 0
    /\ edits = 0 \/ req[r3].pc = "unsent"
    /\ \A p \in Pages : page[p].pc = "idle"
Sharing ==
    /\ now = 0 /\ whitelist # v2 /\ peers = {} /\ Cardinality(Open(channels)) <= 1
    /\ req[r1].pc = "unsent" \/ (req[r1].body = Rusd /\ created[r1] = None)
    /\ \A r \in {r2, r3} : req[r].pc = "unsent"
    /\ \A p \in Pages : page[p].kind # "info"
Alone ==
    /\ now = 0 /\ edits = 0 /\ restarts = 0
    /\ \A r \in Requests : req[r].pc = "unsent"
Focus == Plain \/ Sharing \/ Alone
=============================================================================
