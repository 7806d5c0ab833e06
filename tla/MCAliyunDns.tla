---------------------------- MODULE MCAliyunDns ----------------------------
(***************************************************************************)
(* A zone of four records; yyds asks for one of two guides, that differ in *)
(* the verification value, or for one that is incomplete.                  *)
(***************************************************************************)
EXTENDS AliyunDns, TLC

R(type, host, value) == [type |-> type, host |-> host, value |-> value]

MCRecords ==
  {R("TXT", "verify", "old"), R("TXT", "verify", "new"),
   R("MX", "@", "mail"), R("MX", "*", "mail"),
   R("A", "@", "site"), R("TXT", "@", "spf"), R("NS", "@", "dns")}

Guide(value) == {R("TXT", "verify", value), R("MX", "@", "mail"), R("MX", "*", "mail")}

MCGuides ==
  {Guide("old"), Guide("new"), {R("TXT", "verify", "new"), R("MX", "@", "mail")}}

(* Record ids are interchangeable.                                          *)
IdSymmetry == Permutations(Ids)
==============================================================================
