--------------------------- MODULE ArtifactStore ---------------------------
(***************************************************************************)
(* Artifacts: content in a content-addressed store (cas.CAS, files on disk), *)
(* rows about it in the database (artifact.Store), results of nodes that     *)
(* refer to it (cache.Service), and a collector of content nobody refers to. *)
(*                                                                          *)
(* Files and database change one after the other.  A Put may die between    *)
(* the two; the collector reads the rows once and then looks at one file    *)
(* after another, its age first and its removal after that, while other     *)
(* processes write.  The grace period it is given is longer than a Put and  *)
(* than one collection take (the bound in ContentAges).                     *)
(***************************************************************************)
EXTENDS FiniteSets

CONSTANTS
    Put,            \* calls of Store.Put, each an artifact once it is committed
    Digest,
    DigestOf,       \* [Put -> the digest of its content]
    RunIn,          \* [Put -> the workflow run it belongs to]
    Key,            \* of the node cache
    RunLocal        \* the keys whose policy is RUN_LOCAL

ASSUME ArtifactAssumption == DigestOf \in [Put -> Digest]

VARIABLES
    puts,       \* [Put -> "idle", "stored", "committed", "failed" or "deleted"]
    files,      \* [Digest -> "none", "recent" or "old"]
    gc,         \* the collector
    entries,    \* [Key -> the put whose result node_cache_entries holds]
    lookup,     \* a cache lookup in progress
    kept,       \* history: puts under way that left the file that was there, with its age
    raced       \* history: puts whose file a collection may take before their row is there

artifactVars == <<puts, files, gc, entries, lookup, raced, kept>>

Resting == [phase |-> "resting", reachable |-> {}, unseen |-> {}]
NoEntry == "none"
NoLookup == [phase |-> "idle"]

ArtifactInit ==
    /\ puts = [p \in Put |-> "idle"]
    /\ files = [d \in Digest |-> "none"]
    /\ gc = Resting
    /\ entries = [k \in Key |-> NoEntry]
    /\ lookup = NoLookup /\ raced = {} /\ kept = {}

Committed == {p \in Put : puts[p] = "committed"}
ListAllArtifactDigests == {DigestOf[p] : p \in Committed}

(***************************************************************************)
(* Store.Put: a temporary file renamed to its digest, then the row.  When the *)
(* rename is refused and the file is there, its content is the same: it stays *)
(* and keeps its age.                                                       *)
(***************************************************************************)
Judged(d) == gc.phase = "removing" /\ gc.digest = d
Collectible(d) == files[d] = "old" /\ d \notin gc.reachable

Rename(p) ==
    /\ files' = [files EXCEPT ![DigestOf[p]] = "recent"]
    /\ raced' = IF Judged(DigestOf[p]) THEN raced \cup {p} ELSE raced
    /\ UNCHANGED kept

KeepFile(p) ==
    LET d == DigestOf[p] IN
    /\ files[d] # "none" /\ kept' = kept \cup {p}
    /\ raced' = IF Judged(d) \/ (gc.phase # "resting" /\ Collectible(d))
                THEN raced \cup {p} ELSE raced
    /\ UNCHANGED files

WriteContent(p) ==
    /\ puts[p] = "idle"
    /\ puts' = [puts EXCEPT ![p] = "stored"]
    /\ Rename(p) \/ KeepFile(p)
    /\ UNCHANGED <<gc, entries, lookup>>

CommitMetadata(p) ==
    /\ puts[p] = "stored"
    /\ puts' = [puts EXCEPT ![p] = "committed"]
    /\ kept' = kept \ {p}
    /\ UNCHANGED <<files, gc, entries, lookup, raced>>

(* The transaction is refused, or the process dies: the file has no row.     *)
PutFails(p) ==
    /\ puts[p] = "stored"
    /\ puts' = [puts EXCEPT ![p] = "failed"]
    /\ kept' = kept \ {p} /\ raced' = raced \ {p}
    /\ UNCHANGED <<files, gc, entries, lookup>>

DeleteArtifact(p) ==
    /\ puts[p] = "committed"
    /\ puts' = [puts EXCEPT ![p] = "deleted"]
    /\ raced' = raced \ {p}
    /\ UNCHANGED <<files, gc, entries, lookup, kept>>

(***************************************************************************)
(* Store.GC and CAS.GC.                                                     *)
(***************************************************************************)
(* Puts under way whose file was there before them, is old and has no row.   *)
Overtaken == {p \in kept : files[DigestOf[p]] = "old" /\ DigestOf[p] \notin ListAllArtifactDigests}

\* Mutant: the rows are not read.
BeginUnmarked ==
    /\ gc.phase = "resting"
    /\ gc' = [phase |-> "scanning", reachable |-> {}, unseen |-> Digest]
    /\ raced' = raced \cup Overtaken
    /\ UNCHANGED <<puts, files, entries, lookup, kept>>

BeginGC ==
    /\ gc.phase = "resting"
    /\ gc' = [phase |-> "scanning", reachable |-> ListAllArtifactDigests, unseen |-> Digest]
    /\ raced' = raced \cup Overtaken
    /\ UNCHANGED <<puts, files, entries, lookup, kept>>

JudgeFile(d) ==
    /\ gc.phase = "scanning" /\ d \in gc.unseen
    /\ gc' = IF Collectible(d)
             THEN [phase |-> "removing", reachable |-> gc.reachable, unseen |-> gc.unseen \ {d},
                   digest |-> d]
             ELSE [gc EXCEPT !.unseen = @ \ {d}]
    /\ UNCHANGED <<puts, files, entries, lookup, raced, kept>>

RemoveFile ==
    /\ gc.phase = "removing"
    /\ files' = [files EXCEPT ![gc.digest] = "none"]
    /\ gc' = [phase |-> "scanning", reachable |-> gc.reachable, unseen |-> gc.unseen]
    /\ UNCHANGED <<puts, entries, lookup, raced, kept>>

(* All files are seen, or the process dies.                                  *)
EndGC ==
    /\ gc.phase # "resting" /\ gc' = Resting
    /\ UNCHANGED <<puts, files, entries, lookup, raced, kept>>

(* The grace period of a file passes.  It is longer than a Put that wrote the *)
(* file, not than one that found it there.                                  *)
ContentAges(d) ==
    /\ files[d] = "recent" /\ gc.phase = "resting"
    /\ \A p \in Put \ kept : DigestOf[p] = d => puts[p] # "stored"
    /\ files' = [files EXCEPT ![d] = "old"]
    /\ UNCHANGED <<puts, gc, entries, lookup, raced, kept>>

(***************************************************************************)
(* The node cache.  Lookup reads the entry, looks for its outputs, and then  *)
(* touches or deletes whatever is stored under the key.                     *)
(***************************************************************************)
PutEntry(k, p) ==
    /\ p \in Committed
    /\ entries' = [entries EXCEPT ![k] = p]
    /\ UNCHANGED <<puts, files, gc, lookup, raced, kept>>

Lookup(k, p) ==
    /\ lookup = NoLookup /\ entries[k] # NoEntry
    /\ k \in RunLocal => RunIn[entries[k]] = RunIn[p]
    /\ lookup' = [phase |-> "found", key |-> k, by |-> entries[k]]
    /\ UNCHANGED <<puts, files, gc, entries, raced, kept>>

CheckOutputs ==
    /\ lookup.phase = "found"
    /\ lookup' = [lookup EXCEPT !.phase = IF files[DigestOf[lookup.by]] = "none" THEN "evict" ELSE "touch"]
    /\ UNCHANGED <<puts, files, gc, entries, raced, kept>>

EvictMissing ==
    /\ lookup.phase = "evict" /\ lookup' = NoLookup
    /\ entries' = [entries EXCEPT ![lookup.key] = NoEntry]
    /\ UNCHANGED <<puts, files, gc, raced, kept>>

TouchHit ==
    /\ lookup.phase = "touch" /\ lookup' = NoLookup
    /\ UNCHANGED <<puts, files, gc, entries, raced, kept>>

(* Evict and Invalidate; how long an entry went without a hit is left open.   *)
Evict(k) ==
    /\ entries' = [entries EXCEPT ![k] = NoEntry]
    /\ UNCHANGED <<puts, files, gc, lookup, raced, kept>>

ArtifactNext ==
    \/ \E p \in Put : WriteContent(p) \/ CommitMetadata(p) \/ PutFails(p) \/ DeleteArtifact(p)
    \/ BeginGC \/ RemoveFile \/ EndGC
    \/ \E d \in Digest : JudgeFile(d) \/ ContentAges(d)
    \/ \E k \in Key, p \in Put : PutEntry(k, p) \/ Lookup(k, p)
    \/ CheckOutputs \/ EvictMissing \/ TouchHit
    \/ \E k \in Key : Evict(k)

(* Content a committed artifact refers to is never collected, however Puts of *)
(* the same content, deletions and collections overlap or die half way       *)
(* (rows read before files, the grace period).  Two kinds of Put are excepted, *)
(* both of content whose file was orphaned: one that replaces the file       *)
(* between the collector's look at its age and its removal (cas.go:222-243), *)
(* and one whose rename is refused, which keeps an old file (cas.go:95-99)   *)
(* that a collection meets before the Put has its row.                      *)
ContentKept == \A p \in Committed \ raced : files[DigestOf[p]] # "none"
=============================================================================
