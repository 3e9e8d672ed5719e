----------------------------- MODULE MCRfqCodes -----------------------------
(***************************************************************************)
(* Three creations over two prefixes: one with an old code, lower numbers  *)
(* free and no counter row yet, one with a migrated counter at 0.          *)
(***************************************************************************)
EXTENDS RfqCodes

BothPrefixes == {"IF", "IB"}
OldCodes == [x \in BothPrefixes |-> IF x = "IF" THEN {3} ELSE {}]
OldTop == [x \in BothPrefixes |-> IF x = "IF" THEN 3 ELSE 0]
OneMigrated == {"IB"}
=============================================================================
