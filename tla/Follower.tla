-------------------------------- MODULE Follower --------------------------------
(***************************************************************************)
(* The event loop of the follower node (moonglass-node/src/node/run.rs)    *)
(* around its engine: the clock ticks, gossip, and the backfill of the     *)
(* blocks between the anchor and the live tip, asked from one connected    *)
(* peer at a time.                                                         *)
(*                                                                         *)
(* The network's chain is a line: a block is named by its slot, 0 is the   *)
(* anchor, and Full are the blocks whose payload the next block builds on. *)
(* Of fork choice this module keeps what decides whether a block of that   *)
(* line is imported; ForkChoice has the rest.  Its head is the last block  *)
(* imported.                                                               *)
(***************************************************************************)
EXTENDS Lists

CONSTANTS Peers, NoPeer,
          Honest,                 \* peers that serve a prefix of what is asked
          Unreliable,             \* peers whose requests may time out
          Blocks, Full,
          MAX_BACKFILL_BLOCKS,
          LastSlot, MaxConnections \* bounds of the instance

ASSUME FollowerAssumption ==
  /\ NoPeer \notin Peers
  /\ Honest \subseteq Peers /\ Unreliable \subseteq Peers
  /\ MAX_BACKFILL_BLOCKS \in Nat \ {0}
  /\ LastSlot \in Nat /\ MaxConnections \in Nat
  /\ Blocks \subseteq 1..LastSlot /\ Full \subseteq Blocks \cup {0}

VARIABLES now,          \* slot of the wall clock
          time,         \* slot of the store's clock
          blocks, payloads,
          backfill,     \* BackfillState
          connections,  \* swarm: established connections of each peer
          requests,     \* request_response: requests an answer can still reach
          lost          \* those of closed connections, their failure not yet reported

engine == <<time, blocks, payloads>>
vars == <<now, engine, backfill, connections, requests, lost>>

Anchor == 0
Junk == LastSlot + 1     \* bytes that decode to no block of the chain

Init ==
  /\ now \in 0..LastSlot
  /\ time = Anchor
  /\ blocks = {Anchor}
  /\ payloads = {}
  /\ backfill = [peers |-> <<>>, in_flight |-> NoPeer]
  /\ connections = [p \in Peers |-> 0]
  /\ requests = {}
  /\ lost = {}

--------------------------------------------------------------------------------
(* The engine *)

parent(b) == Max({c \in Blocks \cup {Anchor} : c < b})

\* on_block of a block at a store whose clock has been advanced to `now`.
CanImport(known, b) ==
  /\ b \in Blocks
  /\ b <= now
  /\ parent(b) \in known
  /\ parent(b) \in Full => parent(b) \in payloads

\* The blocks of a response in the order received, and how many were accepted: a
\* block already stored is accepted again.
apply_backfill(response) ==
  FoldLeft(LAMBDA a, b : IF CanImport(a.known, b)
                         THEN [known |-> a.known \cup {b}, applied |-> a.applied + 1]
                         ELSE a,
           [known |-> blocks, applied |-> 0], response)

HeadSlot(known) == Max(known)

\* get_head fails at the slot after the anchor's once the anchor's payload is
\* recorded (ForkChoice!HeadDefined).
HasHead(slot) == ~(Anchor \in payloads /\ slot = Anchor + 1)

--------------------------------------------------------------------------------
(* BackfillState *)

add_peer(bf, p) ==
  IF p \in Range(bf.peers) THEN bf ELSE [bf EXCEPT !.peers = Append(@, p)]

Mutant_complete(bf, p) == [bf EXCEPT !.in_flight = NoPeer]
complete(bf, p) == IF bf.in_flight = p THEN [bf EXCEPT !.in_flight = NoPeer] ELSE bf

\* A list has a peer once at most, so there is one position to take out.
retain(peers, p) ==
  IF p \in Range(peers)
  THEN LET k == CHOOSE i \in DOMAIN peers : peers[i] = p
       IN  [i \in 1 .. Len(peers) - 1 |-> peers[IF i < k THEN i ELSE i + 1]]
  ELSE peers

Mutant_remove_peer(bf, p) == complete(bf, p)
remove_peer(bf, p) == complete([bf EXCEPT !.peers = retain(@, p)], p)

start(bf, p) == [bf EXCEPT !.in_flight = p]

next_peer(bf) ==
  IF bf.in_flight = NoPeer /\ bf.peers # <<>> THEN Last(bf.peers) ELSE NoPeer

\* The ranges to ask for, none or one.
backfill_request(known, slot) ==
  IF HasHead(slot) /\ HeadSlot(known) < now
  THEN {[start |-> HeadSlot(known) + 1,
         count |-> Min({now - HeadSlot(known), MAX_BACKFILL_BLOCKS})]}
  ELSE {}

\* Asks the next peer, given the state, the blocks and the store's clock that the
\* event has left and the requests still pending.
request_backfill(bf, known, slot, pending) ==
  LET p == next_peer(bf)
      asked == IF p = NoPeer THEN {} ELSE backfill_request(known, slot)
  IN  /\ backfill' = IF asked = {} THEN bf ELSE start(bf, p)
      /\ requests' = pending \cup
           {[peer |-> p, start |-> q.start, count |-> q.count] : q \in asked}

--------------------------------------------------------------------------------
(* The arms of run's select loop *)

\* A slot of wall-clock time passes.
Clock ==
  /\ now < LastSlot
  /\ now' = now + 1
  /\ UNCHANGED <<engine, backfill, connections, requests, lost>>

\* ticker.tick(): tick_engine, then ask for what is missing.
Ticker ==
  /\ time' = now
  /\ request_backfill(backfill, blocks, now, requests)
  /\ UNCHANGED <<now, blocks, payloads, connections, lost>>

\* A gossiped block: handle_message ticks the store to the arrival time first.
GossipBlock(b) ==
  /\ b <= now
  /\ time' = now
  /\ blocks' = IF CanImport(blocks, b) THEN blocks \cup {b} ELSE blocks
  /\ UNCHANGED <<now, payloads, backfill, connections, requests, lost>>

\* A gossiped payload envelope with its data: refused while its block is unknown.
GossipEnvelope(b) ==
  /\ b <= now
  /\ time' = now
  /\ payloads' = IF b \in blocks THEN payloads \cup {b} ELSE payloads
  /\ UNCHANGED <<now, blocks, backfill, connections, requests, lost>>

Mutant_Response(r, response) ==
  LET done == apply_backfill(response)
      bf == IF response # <<>> /\ done.applied = 0 THEN remove_peer(backfill, r.peer)
            ELSE backfill
  IN  /\ time' = now
      /\ blocks' = done.known
      /\ IF response # <<>> THEN request_backfill(bf, done.known, now, requests \ {r})
         ELSE backfill' = bf /\ requests' = requests \ {r}
      /\ UNCHANGED <<now, payloads, connections, lost>>

\* A peer that sent blocks of which none was accepted is not asked again.
Response(r, response) ==
  LET done == apply_backfill(response)
      completed == complete(backfill, r.peer)
      bf == IF response # <<>> /\ done.applied = 0 THEN remove_peer(completed, r.peer)
            ELSE completed
  IN  /\ time' = now
      /\ blocks' = done.known
      /\ IF response # <<>> THEN request_backfill(bf, done.known, now, requests \ {r})
         ELSE backfill' = bf /\ requests' = requests \ {r}
      /\ UNCHANGED <<now, payloads, connections, lost>>

OutboundFailure(p, pending) ==
  /\ request_backfill(remove_peer(complete(backfill, p), p), blocks, time, pending)
  /\ UNCHANGED <<now, engine, connections>>

ConnectionEstablished(p) ==
  /\ connections' = [connections EXCEPT ![p] = @ + 1]
  /\ request_backfill(add_peer(backfill, p), blocks, time, requests)
  /\ UNCHANGED <<now, engine, lost>>

\* The requests in dropped went over the connection that closes.
ConnectionClosed(p, dropped) ==
  /\ connections' = [connections EXCEPT ![p] = @ - 1]
  /\ IF connections[p] = 1
     THEN request_backfill(remove_peer(backfill, p), blocks, time, requests \ dropped)
     ELSE UNCHANGED backfill /\ requests' = requests \ dropped
  /\ lost' = lost \cup dropped
  /\ UNCHANGED <<now, engine>>

--------------------------------------------------------------------------------
(* The network.  A connection that closes takes along the requests sent over   *)
(* it, all of the peer's if it was the last; their failure is reported before  *)
(* the peer connects again.                                                    *)

Live(p) == {r \in requests : r.peer = p}
Lost(p) == {r \in lost : r.peer = p}

InRange(r) == {b \in Blocks : b <= now /\ b \in r.start .. r.start + r.count - 1}

\* parse_chunks keeps the blocks before the first chunk that is not a success: an
\* honest peer serves a first part of the range, any other what it likes.
Responses(r) ==
  LET range == Ascending(InRange(r))
  IN  IF r.peer \in Honest
      THEN {SubSeq(range, 1, n) : n \in Min({1, Len(range)}) .. Len(range)}
      ELSE {Ascending(S) : S \in SUBSET {b \in Blocks : b <= now}} \cup {<<Junk>>}

Answer(p) == \E r \in Live(p) : \E response \in Responses(r) : Response(r, response)
Timeout(p) ==
  /\ p \in Unreliable
  /\ \E r \in Live(p) : OutboundFailure(p, requests \ {r})
  /\ UNCHANGED lost
Failure(p) == \E r \in Lost(p) : OutboundFailure(p, requests) /\ lost' = lost \ {r}
Connect(p) ==
  /\ connections[p] < MaxConnections /\ Lost(p) = {}
  /\ ConnectionEstablished(p)
Disconnect(p) ==
  /\ connections[p] > 0
  /\ \E dropped \in SUBSET Live(p) :
       /\ connections[p] = 1 => dropped = Live(p)
       /\ ConnectionClosed(p, dropped)

Next ==
  \/ Clock
  \/ Ticker
  \/ \E b \in Blocks : GossipBlock(b)
  \/ \E b \in Full : GossipEnvelope(b)
  \/ \E p \in Peers : Answer(p) \/ Timeout(p) \/ Failure(p) \/ Connect(p) \/ Disconnect(p)

\* The interval timer fires every second, and request_response ends every request
\* with an answer or a failure.
Fairness ==
  /\ WF_vars(Ticker)
  /\ \A p \in Peers : WF_vars(Answer(p) \/ Timeout(p)) /\ WF_vars(Failure(p))

Spec == Init /\ [][Next]_vars /\ Fairness

--------------------------------------------------------------------------------
(* Properties *)

\* Whatever the order of answers, failures and connection events, one live request
\* is in flight at most, in_flight names its peer, and while in_flight is set an
\* event that clears it is still to come: backfill neither runs twice nor hangs.
SingleInFlight ==
  /\ \A r, q \in requests : r = q
  /\ \A r \in requests : backfill.in_flight = r.peer
  /\ backfill.in_flight # NoPeer =>
       \E r \in requests \cup lost : r.peer = backfill.in_flight

\* request_backfill only ever asks a connected peer, although a peer may have
\* several connections and its failures are reported after it is gone.
CandidatesConnected ==
  \A p \in Range(backfill.peers) \cup {backfill.in_flight} :
     p # NoPeer => connections[p] > 0

Tip == Max({b \in Blocks \cup {Anchor} : b <= now})
CaughtUp == HeadSlot(blocks) = Tip
Settled == <>[][UNCHANGED connections]_vars

EmptyAnswer == \E p \in Peers : \E r \in Live(p) : <<>> \in Responses(r) /\ Response(r, <<>>)

\* Once connections are stable the head reaches the tip, unless no honest peer is
\* left to ask or the peer asked keeps answering with nothing: an answer, a refusal,
\* a failure or a closed connection of any other peer never stops the backfill.
CatchesUp ==
  Settled => \/ []<>CaughtUp
             \/ <>[](Range(backfill.peers) \cap Honest = {})
             \/ []<><<EmptyAnswer>>_vars

\* With an honest peer connected for good whose requests never time out, the
\* backfill walks the head forward to the live tip.
WalksToTip ==
  Settled /\ <>[](\E p \in Honest \ Unreliable : connections[p] > 0) => []<>CaughtUp
================================================================================
