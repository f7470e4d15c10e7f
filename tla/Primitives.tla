----------------------------- MODULE Primitives -----------------------------
(***************************************************************************)
(* The newtypes of moonglass-core/src/primitives as SSZ types.  An integer *)
(* newtype forwards every trait to the integer in it and is basic; a byte  *)
(* newtype is composite, its root merkleized from its bytes, except        *)
(* Uint256, which is a basic value stored as bytes.                        *)
(***************************************************************************)
EXTENDS SSZ

CONSTANTS
    BLS_G1_COMPRESSED_BYTES, BLS_G2_COMPRESSED_BYTES, KZG_COMMITMENT_BYTES, KZG_PROOF_BYTES,
    UINT256_BYTES, BYTES_PER_CELL, ADDRESS_BYTES, VERSION_BYTES

U8 == Uint(1)
U64 == Uint(U64_BYTES)

Slot == U64
Epoch == U64
ValidatorIndex == U64
BuilderIndex == U64
CommitteeIndex == U64
ColumnIndex == U64
RowIndex == U64
WithdrawalIndex == U64
Gwei == U64
ParticipationFlags == U8

Root == ByteArray(BYTES_PER_CHUNK)
Hash32 == ByteArray(BYTES_PER_CHUNK)
Domain == ByteArray(BYTES_PER_CHUNK)
Bytes32 == ByteArray(BYTES_PER_CHUNK)
ExecutionAddress == ByteArray(ADDRESS_BYTES)
Version == ByteArray(VERSION_BYTES)
BLSPubkey == ByteArray(BLS_G1_COMPRESSED_BYTES)
BLSSignature == ByteArray(BLS_G2_COMPRESSED_BYTES)
KZGCommitment == ByteArray(KZG_COMMITMENT_BYTES)
KZGProof == ByteArray(KZG_PROOF_BYTES)
Cell == ByteArray(BYTES_PER_CELL)
Uint256 == [ByteArray(UINT256_BYTES) EXCEPT !.composite = FALSE]
=============================================================================
