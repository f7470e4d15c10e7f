-------------------------------- MODULE SSZ --------------------------------
(***************************************************************************)
(* The in-house SSZ codec (moonglass-core/src/ssz): sizes, encoding,       *)
(* decoding and hash-tree-roots of every type a container is built from.   *)
(*                                                                         *)
(* A type is a record: its kind, what the kind needs (element type, limit, *)
(* fields) and the three static facts of the SszSized and SimpleSerialize  *)
(* traits, variable, size and composite.  A Result is a set: {x} for Ok(x) *)
(* and {} for Err, so `?` is UNION {... : x \in result}.  Widths and the   *)
(* chunk are parameters: 4, 32 and 8 bytes in the code.                    *)
(***************************************************************************)
EXTENDS Integers, Sequences, SequencesExt

CONSTANTS BYTES_PER_LENGTH_OFFSET, BYTES_PER_CHUNK, U64_BYTES

ASSUME SszAssumption ==
    /\ {BYTES_PER_LENGTH_OFFSET, U64_BYTES} \subseteq Nat \ {0}
    /\ BYTES_PER_CHUNK >= U64_BYTES

-----------------------------------------------------------------------------
(* Types, with the facts SszSized and SimpleSerialize state of them. *)

Uint(size) == [kind |-> "uint", variable |-> FALSE, size |-> size, composite |-> FALSE]

Bool == [kind |-> "bool", variable |-> FALSE, size |-> 1, composite |-> FALSE]

ByteArray(size) == [kind |-> "bytes", variable |-> FALSE, size |-> size, composite |-> TRUE]

bitfield_byte_len(bits) == (bits + 7) \div 8

Bitvector(n) ==
    [kind |-> "bitvector", limit |-> n, variable |-> FALSE,
     size |-> bitfield_byte_len(n), composite |-> TRUE]

Bitlist(n) ==
    [kind |-> "bitlist", limit |-> n, variable |-> TRUE,
     size |-> BYTES_PER_LENGTH_OFFSET, composite |-> TRUE]

List(T, n) ==
    [kind |-> "list", of |-> T, limit |-> n, variable |-> TRUE,
     size |-> BYTES_PER_LENGTH_OFFSET, composite |-> TRUE]

\* The room one value of type T takes in a fixed section.
field_layout(T) == IF T.variable THEN BYTES_PER_LENGTH_OFFSET ELSE T.size

Vector(T, n) ==
    [kind |-> "vector", of |-> T, limit |-> n, variable |-> T.variable,
     size |-> n * field_layout(T), composite |-> TRUE]

container_is_variable_size(fields) == \E k \in DOMAIN fields : fields[k].variable

container_size_hint(fields) == FoldLeft(LAMBDA sum, T : sum + field_layout(T), 0, fields)

\* order lists the field names as the hand-written impls do; types is the struct.
Container(order, types) ==
    LET fields == [k \in DOMAIN order |-> types[order[k]]]
    IN  [kind |-> "container", order |-> order, fields |-> fields,
         variable |-> container_is_variable_size(fields),
         size |-> container_size_hint(fields), composite |-> TRUE]

-----------------------------------------------------------------------------
(* Results, bytes and bits. *)

\* collect::<Result<Vec<_>, _>>: the values of all results, or Err if one is.
Collect(results) ==
    IF \E k \in DOMAIN results : results[k] = {} THEN {}
    ELSE {[k \in DOMAIN results |-> CHOOSE x \in results[k] : TRUE]}

to_le_bytes(size, n) == [k \in 1..size |-> (n \div 256^(k - 1)) % 256]

from_le_bytes(bytes) == FoldRight(LAMBDA byte, high : byte + 256 * high, bytes, 0)

bit_at(bytes, index) == (bytes[index \div 8 + 1] \div 2^(index % 8)) % 2 = 1

pack_bits(bits) ==
    LET Bit(index) == IF index < Len(bits) /\ bits[index + 1] THEN 2^(index % 8) ELSE 0
        Octet(k) == FoldLeft(LAMBDA sum, j : sum + Bit(8 * (k - 1) + j),
                            0, <<0, 1, 2, 3, 4, 5, 6, 7>>)
    IN  [k \in 1..bitfield_byte_len(Len(bits)) |-> Octet(k)]

validate_padding_bits(bytes, bits) ==
    bits % 8 = 0 \/ bytes[Len(bytes)] < 2^(bits % 8)

write_offset(offset) ==
    IF offset < 256^BYTES_PER_LENGTH_OFFSET
    THEN {to_le_bytes(BYTES_PER_LENGTH_OFFSET, offset)} ELSE {}

read_offset_at(bytes, cursor) ==
    IF cursor + BYTES_PER_LENGTH_OFFSET > Len(bytes) THEN {}
    ELSE {from_le_bytes(SubSeq(bytes, cursor + 1, cursor + BYTES_PER_LENGTH_OFFSET))}

Mutant_validate_variable_offsets(offsets, fixed_end, input_len) ==
    IF \/ offsets = <<>> /\ fixed_end # input_len
       \/ \E k \in DOMAIN offsets :
            \/ offsets[k] > input_len
            \/ k > 1 /\ offsets[k] < offsets[k - 1]
    THEN {} ELSE {Append(offsets, input_len)}

\* The bounds of the variable parts: the first starts where the fixed section
\* ends, none starts before the one in front of it, the last ends with the input.
validate_variable_offsets(offsets, fixed_end, input_len) ==
    IF \/ offsets = <<>> /\ fixed_end # input_len
       \/ offsets # <<>> /\ offsets[1] # fixed_end
       \/ \E k \in DOMAIN offsets :
            \/ offsets[k] > input_len
            \/ k > 1 /\ offsets[k] < offsets[k - 1]
    THEN {} ELSE {Append(offsets, input_len)}

-----------------------------------------------------------------------------
(* Encoding. *)

Mutant_Assemble(fixed_size, variable, parts) ==
    LET offset[k \in 0..Len(parts)] ==
            IF k = 0 THEN 0
            ELSE offset[k - 1] + (IF variable[k] THEN Len(parts[k]) ELSE 0)
        fixed == Collect([k \in DOMAIN parts |->
                    IF variable[k] THEN write_offset(offset[k - 1]) ELSE {parts[k]}])
        heap == [k \in DOMAIN parts |-> IF variable[k] THEN parts[k] ELSE <<>>]
    IN  {FlattenSeq(f) \o FlattenSeq(heap) :
            f \in {g \in fixed : Len(FlattenSeq(g)) = fixed_size}}

\* A fixed section, in which an offset stands for each variable part, and then
\* the variable parts.  Err when the section has not the declared length.
Assemble(fixed_size, variable, parts) ==
    LET offset[k \in 0..Len(parts)] ==
            IF k = 0 THEN fixed_size
            ELSE offset[k - 1] + (IF variable[k] THEN Len(parts[k]) ELSE 0)
        fixed == Collect([k \in DOMAIN parts |->
                    IF variable[k] THEN write_offset(offset[k - 1]) ELSE {parts[k]}])
        heap == [k \in DOMAIN parts |-> IF variable[k] THEN parts[k] ELSE <<>>]
    IN  {FlattenSeq(f) \o FlattenSeq(heap) :
            f \in {g \in fixed : Len(FlattenSeq(g)) = fixed_size}}

\* The bits, closed by a one that says where they end.
SerializeBitlist(bits) ==
    LET bytes == pack_bits(bits)
        delimiter_index == Len(bits) % 8
    IN  IF delimiter_index = 0 THEN Append(bytes, 1)
        ELSE [bytes EXCEPT ![Len(bytes)] = @ + 2^delimiter_index]

RECURSIVE serialize(_, _)

serialize_sequence(T, values) ==
    UNION {Assemble(Len(values) * field_layout(T), [k \in DOMAIN values |-> T.variable], parts) :
              parts \in Collect([k \in DOMAIN values |-> serialize(T, values[k])])}

SerializeContainer(T, value) ==
    UNION {Assemble(T.size, [k \in DOMAIN T.fields |-> T.fields[k].variable], parts) :
              parts \in Collect([k \in DOMAIN T.fields |->
                                    serialize(T.fields[k], value[T.order[k]])])}

serialize(T, value) ==
    CASE T.kind = "uint"      -> {to_le_bytes(T.size, value)}
      [] T.kind = "bool"      -> {<<IF value THEN 1 ELSE 0>>}
      [] T.kind = "bytes"     -> {value}
      [] T.kind = "bitvector" -> {pack_bits(value)}
      [] T.kind = "bitlist"   -> IF Len(value) > T.limit THEN {} ELSE {SerializeBitlist(value)}
      [] T.kind = "list"      -> IF Len(value) > T.limit THEN {}
                                 ELSE serialize_sequence(T.of, value)
      [] T.kind = "vector"    -> IF Len(value) # T.limit THEN {}
                                 ELSE serialize_sequence(T.of, value)
      [] T.kind = "container" -> SerializeContainer(T, value)

-----------------------------------------------------------------------------
(* Decoding. *)

deserialize_fixed_bytes(bytes, size) == IF Len(bytes) = size THEN {bytes} ELSE {}

DeserializeBool(bytes) ==
    {byte = 1 : byte \in {from_le_bytes(b) : b \in deserialize_fixed_bytes(bytes, 1)} \cap {0, 1}}

DeserializeBitvector(bytes, n) ==
    {[k \in 1..n |-> bit_at(b, k - 1)] :
        b \in {x \in deserialize_fixed_bytes(bytes, bitfield_byte_len(n)) :
                  validate_padding_bits(x, n)}}

\* The position of the highest bit set in the last byte ends the list.
DeserializeBitlist(bytes, limit) ==
    IF bytes = <<>> \/ Last(bytes) = 0 THEN {}
    ELSE LET delimiter_index == CHOOSE j \in 0..7 :
                                    Last(bytes) \in 2^j..(2^(j + 1) - 1)
             bit_len == (Len(bytes) - 1) * 8 + delimiter_index
         IN  IF bit_len > limit THEN {} ELSE {[k \in 1..bit_len |-> bit_at(bytes, k - 1)]}

RECURSIVE deserialize(_, _)

Slice(bytes, from, to) == SubSeq(bytes, from + 1, to)

deserialize_variable_items(T, bytes, count) ==
    LET offsets == Collect([k \in 1..count |->
                        read_offset_at(bytes, (k - 1) * BYTES_PER_LENGTH_OFFSET)])
        Bounds(o) == validate_variable_offsets(o, count * BYTES_PER_LENGTH_OFFSET, Len(bytes))
    IN  UNION {Collect([k \in 1..count |-> deserialize(T, Slice(bytes, bounds[k], bounds[k + 1]))]) :
                  bounds \in UNION {Bounds(o) : o \in offsets}}

DeserializeFixedItems(T, bytes, count) ==
    Collect([k \in 1..count |-> deserialize(T, Slice(bytes, (k - 1) * T.size, k * T.size))])

\* The first offset of a list of variable items tells how many there are.
deserialize_list_items(T, bytes, limit) ==
    IF T.variable
    THEN IF bytes = <<>> THEN {<<>>}
         ELSE UNION {deserialize_variable_items(T, bytes, first \div BYTES_PER_LENGTH_OFFSET) :
                        first \in {o \in read_offset_at(bytes, 0) :
                            /\ o # 0
                            /\ o % BYTES_PER_LENGTH_OFFSET = 0
                            /\ o \div BYTES_PER_LENGTH_OFFSET <= limit}}
    ELSE IF \/ T.size = 0
            \/ Len(bytes) % T.size # 0
            \/ Len(bytes) \div T.size > limit
         THEN {} ELSE DeserializeFixedItems(T, bytes, Len(bytes) \div T.size)

deserialize_vector_items(T, bytes, n) ==
    IF T.variable
    THEN IF n = 0 THEN deserialize_fixed_bytes(bytes, 0)
         ELSE deserialize_variable_items(T, bytes, n)
    ELSE IF Len(bytes) # n * T.size THEN {} ELSE DeserializeFixedItems(T, bytes, n)

\* Where each field of a container lies, as <<from, to>>.
container_field_ranges(bytes, fields) ==
    LET cursor[k \in 0..Len(fields)] ==
            IF k = 0 THEN 0 ELSE cursor[k - 1] + field_layout(fields[k])
        variable_fields == SelectSeq([k \in DOMAIN fields |-> k], LAMBDA k : fields[k].variable)
        offsets == Collect([i \in DOMAIN variable_fields |->
                        read_offset_at(bytes, cursor[variable_fields[i] - 1])])
        bounds == UNION {validate_variable_offsets(o, cursor[Len(fields)], Len(bytes)) : o \in offsets}
        Place(k) == CHOOSE i \in DOMAIN variable_fields : variable_fields[i] = k
    IN  IF cursor[Len(fields)] > Len(bytes) THEN {}
        ELSE {[k \in DOMAIN fields |->
                  IF fields[k].variable THEN <<b[Place(k)], b[Place(k) + 1]>>
                  ELSE <<cursor[k - 1], cursor[k]>>] : b \in bounds}

DeserializeContainer(T, bytes) ==
    LET Field(name) == CHOOSE k \in DOMAIN T.order : T.order[k] = name
        Parts(ranges) == Collect([k \in DOMAIN T.fields |->
                            deserialize(T.fields[k], Slice(bytes, ranges[k][1], ranges[k][2]))])
    IN  {[name \in ToSet(T.order) |-> parts[Field(name)]] :
            parts \in UNION {Parts(ranges) : ranges \in container_field_ranges(bytes, T.fields)}}

deserialize(T, bytes) ==
    CASE T.kind = "uint"      -> {from_le_bytes(b) : b \in deserialize_fixed_bytes(bytes, T.size)}
      [] T.kind = "bool"      -> DeserializeBool(bytes)
      [] T.kind = "bytes"     -> deserialize_fixed_bytes(bytes, T.size)
      [] T.kind = "bitvector" -> DeserializeBitvector(bytes, T.limit)
      [] T.kind = "bitlist"   -> DeserializeBitlist(bytes, T.limit)
      [] T.kind = "list"      -> deserialize_list_items(T.of, bytes, T.limit)
      [] T.kind = "vector"    -> deserialize_vector_items(T.of, bytes, T.limit)
      [] T.kind = "container" -> DeserializeContainer(T, bytes)

-----------------------------------------------------------------------------
(* Hash-tree-roots.  SHA-256 is an uninterpreted, collision-free pairing:  *)
(* a node is a chunk of bytes, or -1 followed by its two children.         *)

hash_pair(left, right) == <<-1>> \o left \o right

\* Bytes padded with zeros to a chunk (basic_root, and a step of pack_bytes).
basic_root(bytes) == [k \in 1..BYTES_PER_CHUNK |-> IF k <= Len(bytes) THEN bytes[k] ELSE 0]

chunk_count(bytes) == (bytes + BYTES_PER_CHUNK - 1) \div BYTES_PER_CHUNK

pack_bytes(bytes) ==
    IF bytes = <<>> THEN <<basic_root(<<>>)>>
    ELSE [k \in 1..chunk_count(Len(bytes)) |->
             basic_root(Slice(bytes, (k - 1) * BYTES_PER_CHUNK,
                              IF k * BYTES_PER_CHUNK < Len(bytes)
                              THEN k * BYTES_PER_CHUNK ELSE Len(bytes)))]

tree_depth_for_limit(limit) ==
    IF limit <= 1 THEN 0 ELSE CHOOSE d \in 1..64 : 2^(d - 1) < limit /\ limit <= 2^d

ZERO_HASHES[depth \in 0..64] ==
    IF depth = 0 THEN basic_root(<<>>) ELSE hash_pair(ZERO_HASHES[depth - 1], ZERO_HASHES[depth - 1])

RECURSIVE Climb(_, _), Deepen(_, _, _)

Mutant_Climb(nodes, depth) ==
    IF Len(nodes) = 1 THEN <<nodes[1], depth>>
    ELSE LET padded == IF Len(nodes) % 2 = 0 THEN nodes ELSE Append(nodes, ZERO_HASHES[0])
         IN  Climb([k \in 1..(Len(padded) \div 2) |->
                      hash_pair(padded[2 * k - 1], padded[2 * k])], depth + 1)

\* Pair the nodes of a level, the odd one with a zero subtree, until one is left.
Climb(nodes, depth) ==
    IF Len(nodes) = 1 THEN <<nodes[1], depth>>
    ELSE LET padded == IF Len(nodes) % 2 = 0 THEN nodes ELSE Append(nodes, ZERO_HASHES[depth])
         IN  Climb([k \in 1..(Len(padded) \div 2) |->
                      hash_pair(padded[2 * k - 1], padded[2 * k])], depth + 1)

\* Pair a root with zero subtrees until the tree has the height of its limit.
Deepen(root, depth, height) ==
    IF depth >= height THEN root
    ELSE Deepen(hash_pair(root, ZERO_HASHES[depth]), depth + 1, height)

merkleize_roots_unchecked(roots, limit) ==
    LET height == tree_depth_for_limit(limit)
        top == Climb(roots, 0)
    IN  IF roots = <<>> THEN ZERO_HASHES[height] ELSE Deepen(top[1], top[2], height)

merkleize_roots(roots) == merkleize_roots_unchecked(roots, Len(roots))

merkleize_roots_with_limit(roots, limit) ==
    IF Len(roots) > limit THEN {} ELSE {merkleize_roots_unchecked(roots, limit)}

merkleize_byte_sequence_with_limit(bytes, byte_limit) ==
    IF Len(bytes) > byte_limit THEN {}
    ELSE {merkleize_roots_unchecked(pack_bytes(bytes), chunk_count(byte_limit))}

Mutant_mix_in_length(root, length) == root

mix_in_length(root, length) == hash_pair(root, basic_root(to_le_bytes(U64_BYTES, length)))

RECURSIVE hash_tree_root(_, _)

collection_root(T, values, limit) ==
    IF Len(values) > limit THEN {}
    ELSE IF T.composite
    THEN UNION {merkleize_roots_with_limit(roots, limit) :
                   roots \in Collect([k \in DOMAIN values |-> hash_tree_root(T, values[k])])}
    ELSE UNION {merkleize_byte_sequence_with_limit(FlattenSeq(parts), limit * T.size) :
                   parts \in Collect([k \in DOMAIN values |-> serialize(T, values[k])])}

BitsRoot(bits, limit) ==
    merkleize_byte_sequence_with_limit(pack_bits(bits), bitfield_byte_len(limit))

hash_tree_root(T, value) ==
    CASE T.kind \in {"uint", "bool"} -> {basic_root(b) : b \in serialize(T, value)}
      [] T.kind = "bytes"     -> merkleize_byte_sequence_with_limit(value, T.size)
      [] T.kind = "bitvector" -> BitsRoot(value, T.limit)
      [] T.kind = "bitlist"   -> {mix_in_length(root, Len(value)) : root \in BitsRoot(value, T.limit)}
      [] T.kind = "list"      -> {mix_in_length(root, Len(value)) :
                                     root \in collection_root(T.of, value, T.limit)}
      [] T.kind = "vector"    -> IF Len(value) # T.limit THEN {}
                                 ELSE collection_root(T.of, value, T.limit)
      [] T.kind = "container" ->
            {merkleize_roots(roots) :
                roots \in Collect([k \in DOMAIN T.fields |->
                                      hash_tree_root(T.fields[k], value[T.order[k]])])}
=============================================================================
