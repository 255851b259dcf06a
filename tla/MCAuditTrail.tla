---------------------------- MODULE MCAuditTrail -----------------------------
(* Small instances of AuditTrail: two dual writes, a database-only write and a
   file-only write. *)
EXTENDS AuditTrail

CONSTANTS both1, both2, table1, file1

MCWrites == (both1 :> "both") @@ (both2 :> "both") @@ (table1 :> "table") @@ (file1 :> "file")

\* A hash that tells apart whatever two lines differ in.
MCDigest(entry, previous) == Append(previous, entry)
MCGenesis == <<>>
==============================================================================
