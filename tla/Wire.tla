-------------------------------- MODULE Wire --------------------------------
(***************************************************************************)
(* A container travels: its sender encodes it (Serialize::serialize), the  *)
(* network may change a byte, cut one off or add one, and the receiver     *)
(* decodes what arrives (Deserialize::deserialize).  Arbitrary short byte  *)
(* strings arrive too, for the types whose encoding has offsets, bits or a *)
(* delimiter in it.  Results are sets, as in SSZ.                          *)
(***************************************************************************)
EXTENDS Containers

CONSTANTS
    Seeds,      \* each seed gives one value of every container
    Deltas,     \* what a change adds to a byte
    Alphabet,   \* the bytes of the strings nobody encoded
    MaxRaw      \* their greatest length

VARIABLES stage, schema, sent, wire, received
vars == <<stage, schema, sent, wire, received>>

RawTypes ==
    [Transactions |-> Transactions,
     AggregationBits |-> Bitlist(MAX_ATTESTING_INDICES),
     JustificationBits |-> Bitvector(JUSTIFICATION_BITS_LENGTH),
     Balances |-> List(Gwei, VALIDATOR_REGISTRY_LIMIT)]

TypeOf(name) == IF name \in DOMAIN Catalogue THEN Catalogue[name] ELSE RawTypes[name]

\* A value of type T whose leaves differ from place to place.
RECURSIVE Sample(_, _)
Sample(T, seed) ==
    LET Child(k) == (5 * seed + 3 * k) % 251
        Some == IF seed % 3 < T.limit THEN seed % 3 ELSE T.limit
        Items(n) == [k \in 1..n |-> Sample(T.of, Child(k))]
        Bits(n) == [k \in 1..n |-> Child(k) % 2 = 1]
        Field(name) == CHOOSE k \in DOMAIN T.order : T.order[k] = name
    IN  CASE T.kind = "uint"      -> seed
          [] T.kind = "bool"      -> seed % 2 = 1
          [] T.kind = "bytes"     -> [k \in 1..T.size |-> Child(k)]
          [] T.kind = "bitvector" -> Bits(T.limit)
          [] T.kind = "bitlist"   -> Bits(Some)
          [] T.kind = "list"      -> Items(Some)
          [] T.kind = "vector"    -> Items(T.limit)
          [] T.kind = "container" ->
                [name \in ToSet(T.order) |-> Sample(T.fields[Field(name)], Child(Field(name)))]

Damaged(bytes) ==
    {[bytes EXCEPT ![k] = (@ + delta) % 256] : k \in DOMAIN bytes, delta \in Deltas}
        \cup {Front(bytes), Append(bytes, 0), Append(bytes, 1)}

Init ==
    /\ stage = "idle" /\ schema = "none"
    /\ sent = {} /\ wire = {} /\ received = {}

Send ==
    /\ stage = "idle"
    /\ \E name \in DOMAIN Catalogue, seed \in Seeds :
          /\ schema' = name
          /\ sent' = {Sample(Catalogue[name], seed)}
          /\ wire' = serialize(Catalogue[name], Sample(Catalogue[name], seed))
    /\ stage' = "sent"
    /\ UNCHANGED received

Inject ==
    /\ stage = "idle"
    /\ schema' \in DOMAIN RawTypes
    /\ wire' \in {{bytes} : bytes \in BoundedSeq(Alphabet, MaxRaw)}
    /\ stage' = "sent"
    /\ UNCHANGED <<sent, received>>

Damage ==
    /\ stage = "sent" /\ sent # {}
    /\ wire' \in {{bytes} : bytes \in UNION {Damaged(b) : b \in wire}}
    /\ stage' = "damaged"
    /\ UNCHANGED <<schema, sent, received>>

Receive ==
    /\ stage \in {"sent", "damaged"}
    /\ received' = UNION {deserialize(TypeOf(schema), bytes) : bytes \in wire}
    /\ stage' = "received"
    /\ UNCHANGED <<schema, sent, wire>>

Forget ==
    /\ stage = "received"
    /\ stage' = "idle" /\ schema' = "none"
    /\ sent' = {} /\ wire' = {} /\ received' = {}

Next == Send \/ Inject \/ Damage \/ Receive \/ Forget

Spec == Init /\ [][Next]_vars

-----------------------------------------------------------------------------
(* Properties. *)

\* Every container encodes, and what was encoded and arrives unchanged decodes to
\* the value sent: the offsets the encoder writes are those the decoder expects,
\* and no field is lost or read in another's place (ContainerEncoder,
\* serialize_sequence against container_field_ranges, deserialize_list_items).
RoundTrip ==
    \A value \in sent :
        stage = "received" /\ wire = serialize(TypeOf(schema), value) => received = {value}

\* Decoding is strict: whatever bytes arrive, they decode only if they are the
\* one encoding of the value they decode to, so no gap before the first offset,
\* ragged offset table, bit beyond a bitfield, missing delimiter or trailing
\* byte is accepted (validate_variable_offsets, validate_padding_bits, the
\* length checks of deserialize_list_items and deserialize_fixed_bytes).
Canonical == \A value \in received : serialize(TypeOf(schema), value) = wire

\* The hash-tree-root of a container exists and commits to every field: a
\* damaged message that still decodes to another value has another root, list
\* lengths and padding included (mix_in_length, merkleize_roots_unchecked).
RootCommits ==
    \A value \in sent, other \in received :
        LET root == hash_tree_root(TypeOf(schema), value)
        IN  root # {} /\ (value # other => root # hash_tree_root(TypeOf(schema), other))

\* The tree of height height over the leaves, zero chunks in the places left free.
RECURSIVE PaddedTree(_, _)
PaddedTree(leaves, height) ==
    IF height = 0 THEN IF leaves = <<>> THEN basic_root(<<>>) ELSE leaves[1]
    ELSE LET half == IF Len(leaves) < 2^(height - 1) THEN Len(leaves) ELSE 2^(height - 1)
         IN  hash_pair(PaddedTree(SubSeq(leaves, 1, half), height - 1),
                       PaddedTree(SubSeq(leaves, half + 1, Len(leaves)), height - 1))

\* Roots are computed level by level, with precomputed zero subtrees for what is
\* missing; the result is the root of the full tree over the chunks padded to the
\* limit, whether the limit is the chunk count or up to four times as many
\* (merkleize_roots_unchecked, ZERO_HASHES).
RootIsOfPaddedTree ==
    \A bytes \in IF stage = "sent" THEN wire ELSE {} :
        LET chunks == pack_bytes(bytes)
        IN  \A limit \in {Len(chunks), Len(chunks) + 1, 2 * Len(chunks) + 1, 4 * Len(chunks)} :
                merkleize_roots_unchecked(chunks, limit)
                    = PaddedTree(chunks, tree_depth_for_limit(limit))

\* A block and the header made from it have the same root, so that the parent
\* root a child block names (the root of latest_block_header) is the root under
\* which fork choice stores the parent (BeaconBlock::header, BeaconBlockHeader).
HeaderRootIsBlockRoot ==
    \A block \in IF schema = "BeaconBlock" THEN sent \cup received ELSE {} :
        LET made == header(block, <<>>, block.state_root)
            body == hash_tree_root(BeaconBlockBody, block.body)
            roots == Collect([k \in DOMAIN BeaconBlockHeader.order |->
                        IF BeaconBlockHeader.order[k] = "body_root" THEN body
                        ELSE hash_tree_root(BeaconBlockHeader.fields[k],
                                            made[BeaconBlockHeader.order[k]])])
        IN  {merkleize_roots(r) : r \in roots} = hash_tree_root(BeaconBlock, block)
=============================================================================
