------------------------------- MODULE CatalogLoad -------------------------------
(***************************************************************************)
(* LoadCatalog (parse.go) and LoadV2Catalog (v2.go): the catalog is read   *)
(* and decoded, read again for its digest, and accepted if the lock names  *)
(* that digest.  Between the reads others may write both files.            *)
(*                                                                         *)
(* Digests are perfect: the contents of a file stand for their digest.     *)
(***************************************************************************)
EXTENDS Naturals

CONSTANTS
    Contents,    \* what the catalog's file may hold
    Decoded,     \* those of them that are a catalog of the right schema
    LockFiles,   \* what the lock's file may hold: the contents a lock of the
                 \* right schema names, or others
    MaxWrites,   \* a bound on others
    NoFile       \* no such file, nothing yet

ASSUME CatalogAssumption ==
    /\ Decoded \subseteq Contents /\ NoFile \notin Contents
    /\ MaxWrites \in Nat

VARIABLES
    catalogFile, \* what catalog.json holds, or NoFile
    lockFile,    \* what catalog.lock.json holds, or NoFile
    others,      \* how often others write during a load, at most
    writes,      \* how often they wrote during this one
    raced,       \* whether they wrote the catalog between its two reads
    catalog,     \* what was decoded from the first read
    data,        \* what the second read returned
    loading      \* "idle", "decode", "reread", "lock", "loaded" or "refused"

files  == <<catalogFile, lockFile, others, writes, raced>>
loader == <<catalog, data, loading>>

LoaderIdle == catalog = NoFile /\ data = NoFile /\ loading = "idle"

BeginLoad ==
    /\ loading' = "decode" /\ catalog' = NoFile /\ data' = NoFile
    /\ writes' = 0 /\ raced' = FALSE
    /\ UNCHANGED <<catalogFile, lockFile, others>>

(* LoadJSON on the catalog, and its schema.                                *)
DecodeCatalog ==
    /\ loading = "decode"
    /\ IF catalogFile \in Decoded
       THEN catalog' = catalogFile /\ loading' = "reread"
       ELSE catalog' = catalog /\ loading' = "refused"
    /\ UNCHANGED <<files, data>>

(* os.ReadFile on the catalog.                                             *)
ReadAgain ==
    /\ loading = "reread"
    /\ data' = catalogFile
    /\ loading' = IF catalogFile = NoFile THEN "refused" ELSE "lock"
    /\ UNCHANGED <<files, catalog>>

(* LoadJSON on the lock: it names a digest, which must be that of data.    *)
AnyLock == lockFile # NoFile \* slip: any lock that is there will do
DigestLocked == lockFile = data
HoldAgainstLock ==
    /\ loading = "lock"
    /\ loading' = IF DigestLocked THEN "loaded" ELSE "refused"
    /\ UNCHANGED <<files, catalog, data>>

LoadStep == DecodeCatalog \/ ReadAgain \/ HoldAgainstLock

(* Somebody else writes or removes a file meanwhile.                       *)
Meanwhile ==
    /\ loading \in {"decode", "reread", "lock"} /\ writes < others
    /\ \/ /\ \E c \in (Contents \cup {NoFile}) \ {catalogFile} : catalogFile' = c
          /\ raced' = (raced \/ loading = "reread") /\ lockFile' = lockFile
       \/ /\ \E l \in (LockFiles \cup {NoFile}) \ {lockFile} : lockFile' = l
          /\ UNCHANGED <<catalogFile, raced>>
    /\ writes' = writes + 1
    /\ UNCHANGED <<others, loader>>
===============================================================================
