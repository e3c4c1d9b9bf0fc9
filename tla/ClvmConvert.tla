----------------------------- MODULE ClvmConvert -----------------------------
(***************************************************************************)
(* compiler/clvm.rs convert_to_clvm_rs and convert_from_clvm_rs: the ways  *)
(* to write an atom are lost on the way to the VM and one of them is       *)
(* chosen on the way back.                                                 *)
(*                                                                         *)
(* A value of the VM is <<"pair", a, b>>, or <<"atom", n, e>>: the shortest *)
(* bytes of the number n, or no bytes if e.  (Bytes that are not the       *)
(* shortest of their number come back as they went and are left out.)      *)
(***************************************************************************)
EXTENDS ClvmValues

NoBytes == <<"atom", 0, TRUE>>

RECURSIVE convert_to_clvm_rs(_)
convert_to_clvm_rs(v) ==
  CASE IsNil(v)   -> NoBytes
    [] IsBytes(v) -> <<"atom", v[2], v[3]>>
    [] IsInt(v)   -> IF NewStyle /\ v[2] = 0 THEN NoBytes ELSE <<"atom", v[2], FALSE>>
    [] IsCons(v)  -> <<"pair", convert_to_clvm_rs(First(v)), convert_to_clvm_rs(Rest(v))>>

RECURSIVE convert_from_clvm_rs(_)
convert_from_clvm_rs(n) ==
  CASE n = NoBytes     -> Nil
    [] n[1] = "atom" /\ n # NoBytes ->
         IF NewStyle /\ n[2] = 0 THEN Bytes(0, FALSE) ELSE Int_(n[2])
    [] n[1] = "pair"   -> Pair(convert_from_clvm_rs(n[2]), convert_from_clvm_rs(n[3]))
=============================================================================
