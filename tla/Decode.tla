------------------------------- MODULE Decode -------------------------------
(***************************************************************************)
(* The A64 decoder, decode/mod.rs and decode/group/simd_fp/mod.rs: a word  *)
(* is routed by op0 to the decoder of its group.                           *)
(***************************************************************************)
EXTENDS Encoding

Immediate == INSTANCE DecodeImmediate
Branch    == INSTANCE DecodeBranch
Memory    == INSTANCE DecodeLoadStore
MemoryVec == INSTANCE DecodeLoadStoreVec
Register  == INSTANCE DecodeRegister
Scalar    == INSTANCE DecodeScalar
Neon      == INSTANCE DecodeNeon

\* EncodingGroup::of.
group_of(w) ==
    LET op0 == bits(w, 28, 25)
    IN  CASE op0 = 0              -> "Reserved"
          [] op0 \in {1, 3}       -> "Unallocated"
          [] op0 = 2              -> "Sve"
          [] op0 \in {8, 9}       -> "DataProcessingImmediate"
          [] op0 \in {10, 11}     -> "BranchesExceptionsSystem"
          [] op0 \in {4, 6, 12, 14} -> "LoadsAndStores"
          [] op0 \in {5, 13}      -> "DataProcessingRegister"
          [] op0 \in {7, 15}      -> "DataProcessingSimdFp"

data_processing_simd_fp(w) ==
    IF bit(w, 28) THEN Scalar!data_processing(w) ELSE Neon!data_processing(w)

\* Bit 26 selects the SIMD and floating-point register file.
decode(w) ==
    LET group == group_of(w)
    IN  CASE group = "DataProcessingImmediate"  -> Immediate!data_processing_immediate(w)
          [] group = "BranchesExceptionsSystem" -> Branch!branches_exceptions_system(w)
          [] group = "LoadsAndStores"           -> (IF bit(w, 26) THEN MemoryVec!loads_and_stores_vec(w)
                                                    ELSE Memory!loads_and_stores(w))
          [] group = "DataProcessingRegister"   -> Register!data_processing_register(w)
          [] group = "DataProcessingSimdFp"     -> data_processing_simd_fp(w)
          [] OTHER                              -> unallocated(w)
=============================================================================
