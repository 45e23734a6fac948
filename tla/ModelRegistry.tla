---------------------------- MODULE ModelRegistry ----------------------------
(***************************************************************************)
(* The model contract: MLflow's registry with its "champion" alias, and    *)
(* resolve_champion + activate_champion run by the serving supervisor,     *)
(* one remote call or file write at a time.  The artifact directory of a   *)
(* version is downloaded in place, the alias is read twice (once for the   *)
(* version's name, once by the download), and the champion cache file is   *)
(* truncated before it is written; the active-champion pointer is replaced *)
(* atomically.  Any remote call may fail.                                  *)
(***************************************************************************)
EXTENDS Naturals

CONSTANTS
  Versions,      \* model versions that are ever registered
  Compatible,    \* those whose feature_schema_version is core.schema's
  NoVersion,     \* no alias, no file, an empty directory
  Torn,          \* a file or directory whose write was cut short
  MaxMoves       \* bound: changes of the alias

ASSUME CompatibleAssumption == Compatible \subseteq Versions
ASSUME FileAssumption == NoVersion \notin Versions /\ Torn \notin Versions \cup {NoVersion}
ASSUME MaxMovesAssumption == MaxMoves \in Nat

VARIABLES
  published,  \* registered and tagged versions
  alias,      \* the version the "champion" alias names
  moves,      \* changes of the alias so far, for the bound
  crowned,    \* the versions the alias has named (history, for checking)
  artifact,   \* artifact[v]: the model whose files cached_model_dir(v) holds
  cacheFile,  \* champion_cache_file: the last ref resolved live
  pointer,    \* active_champion_file: the ref workers load
  step,       \* where the supervisor is in activate_champion
  ref,        \* ref.version
  fetching    \* the version load_model("models:/name@alias") is downloading

remoteVars == <<published, alias, moves, crowned>>
fileVars == <<artifact, cacheFile, pointer>>
resolveVars == <<step, ref, fetching>>
registryVars == <<published, alias, moves, crowned, artifact, cacheFile, pointer,
                  step, ref, fetching>>

RegistryTypeOK ==
  /\ published \in SUBSET Versions
  /\ alias \in published \cup {NoVersion}
  /\ moves \in 0..MaxMoves
  /\ crowned \in SUBSET Versions
  /\ artifact \in [Versions -> Versions \cup {NoVersion, Torn}]
  /\ cacheFile \in Versions \cup {NoVersion, Torn}
  /\ pointer \in Versions \cup {NoVersion}
  /\ step \in {"idle", "alias", "download", "write", "cache", "caching",
               "fallback", "pointer", "done", "failed"}
  /\ ref \in Versions \cup {NoVersion}
  /\ fetching \in Versions \cup {NoVersion}

RegistryInit ==
  /\ published = {}
  /\ alias = NoVersion
  /\ moves = 0
  /\ crowned = {}
  /\ artifact = [v \in Versions |-> NoVersion]
  /\ cacheFile = NoVersion
  /\ pointer = NoVersion
  /\ step = "idle"
  /\ ref = NoVersion
  /\ fetching = NoVersion
------------------------------------------------------------------------------

\* set_registered_model_alias
Alias(v) == alias' = v /\ crowned' = crowned \cup {v}

\* publish_model: registered and tagged, then optionally aliased; a publisher
\* built from other code registers a version that is not Compatible
Publish(v, asChampion) ==
  /\ v \notin published
  /\ published' = published \cup {v}
  /\ IF asChampion
     THEN moves < MaxMoves /\ moves' = moves + 1 /\ Alias(v)
     ELSE UNCHANGED <<moves, alias, crowned>>
  /\ UNCHANGED <<fileVars, resolveVars>>

\* promote_champion: refuses an incompatible version before re-aliasing
Promote(v) ==
  /\ v \in published /\ v \in Compatible
  /\ alias # v
  /\ moves < MaxMoves
  /\ moves' = moves + 1
  /\ Alias(v)
  /\ UNCHANGED <<published, fileVars, resolveVars>>

\* activate_champion is called, and its caller is done with the ref
Resolve == step = "idle" /\ step' = "alias" /\ UNCHANGED <<ref, fetching>>
Forget == step' = "idle" /\ ref' = NoVersion /\ fetching' = NoVersion

Raise == step' = "failed" /\ ref' = NoVersion /\ fetching' = NoVersion

\* mutant of ReadAlias: verify_compatible is not called
ReadAliasUnchecked ==
  /\ step = "alias"
  /\ alias # NoVersion
  /\ step' = "download" /\ ref' = alias
  /\ UNCHANGED <<remoteVars, fileVars, fetching>>

\* get_model_version_by_alias, then verify_compatible on its tags
ReadAlias ==
  /\ step = "alias"
  /\ alias # NoVersion
  /\ IF alias \in Compatible
     THEN step' = "download" /\ ref' = alias /\ UNCHANGED fetching
     ELSE Raise
  /\ UNCHANGED <<remoteVars, fileVars>>

\* load_model(dst_path) opens the files of the version the alias names NOW
\* in the directory of the version it named before
StartDownload ==
  /\ step = "download"
  /\ fetching' = alias
  /\ artifact' = [artifact EXCEPT ![ref] = Torn]
  /\ step' = "write"
  /\ UNCHANGED <<remoteVars, cacheFile, pointer, ref>>

FinishDownload ==
  /\ step = "write"
  /\ artifact' = [artifact EXCEPT ![ref] = fetching]
  /\ fetching' = NoVersion
  /\ step' = "cache"
  /\ UNCHANGED <<remoteVars, cacheFile, pointer, ref>>

\* a timeout, a refused connection, a registry without the alias: an
\* exception of _resolve_live other than IncompatibleModelError
RemoteFails ==
  /\ step \in {"alias", "download", "write"}
  /\ step' = "fallback"
  /\ ref' = NoVersion /\ fetching' = NoVersion
  /\ UNCHANGED <<remoteVars, fileVars>>

\* _write_cache: write_text truncates the file, then writes it
TruncateCache ==
  /\ step = "cache"
  /\ cacheFile' = Torn
  /\ step' = "caching"
  /\ UNCHANGED <<remoteVars, artifact, pointer, ref, fetching>>

WriteCache ==
  /\ step = "caching"
  /\ cacheFile' = ref
  /\ step' = "pointer"
  /\ UNCHANGED <<remoteVars, artifact, pointer, ref, fetching>>

\* the except branch: _read_cache, verify_compatible, load the cached artifact
Fallback ==
  /\ step = "fallback"
  /\ IF /\ cacheFile \in Compatible
        /\ artifact[cacheFile] \notin {NoVersion, Torn}
     THEN step' = "pointer" /\ ref' = cacheFile /\ UNCHANGED fetching
     ELSE Raise
  /\ UNCHANGED <<remoteVars, fileVars>>

\* mutants of WritePointer: it is written in place; it is written once
WritePointerInPlace ==
  /\ step = "pointer"
  /\ \/ pointer' = ref /\ step' = "done"
     \/ pointer' = Torn /\ UNCHANGED step
  /\ UNCHANGED <<remoteVars, artifact, cacheFile, ref, fetching>>
WritePointerOnce ==
  /\ step = "pointer"
  /\ pointer' = IF pointer = NoVersion THEN ref ELSE pointer
  /\ step' = "done"
  /\ UNCHANGED <<remoteVars, artifact, cacheFile, ref, fetching>>

\* _write_active_ref: a temporary file and os.replace
WritePointer ==
  /\ step = "pointer"
  /\ pointer' = ref
  /\ step' = "done"
  /\ UNCHANGED <<remoteVars, artifact, cacheFile, ref, fetching>>

\* the disk refuses a write
DiskFails ==
  /\ step \in {"cache", "caching", "pointer"}
  /\ Raise
  /\ UNCHANGED <<remoteVars, fileVars>>

RemoteStep ==
  \E v \in Versions : Promote(v) \/ \E c \in BOOLEAN : Publish(v, c)

ResolveStep ==
  \/ ReadAlias
  \/ StartDownload
  \/ FinishDownload
  \/ RemoteFails
  \/ TruncateCache
  \/ WriteCache
  \/ Fallback
  \/ WritePointer
  \/ DiskFails

\* the caller takes the result, or its process is killed; it will call again
Return == step # "idle" /\ Forget /\ UNCHANGED <<remoteVars, fileVars>>

RegistryNext ==
  \/ RemoteStep
  \/ ResolveStep
  \/ Resolve /\ UNCHANGED <<remoteVars, fileVars>>
  \/ Return

RegistrySpec == RegistryInit /\ [][RegistryNext]_registryVars
------------------------------------------------------------------------------

(***************************************************************************)
(* The ref workers are pointed at: through failing calls, fallbacks, cut   *)
(* downloads and moves of the alias it names a version that was champion   *)
(* and passed verify_compatible, and it is written only when its directory *)
(* holds a whole artifact, of a version that was champion too.  Not said,  *)
(* because they do not hold: that the files are those of the version named *)
(* (LabelIsLoaded), that they were verified themselves (LoadedIsVerified), *)
(* and that they stay whole while they are pointed at (FallbackIsUsable).  *)
(***************************************************************************)
ActiveRefIsVerified ==
  /\ pointer # NoVersion =>
       /\ pointer \in Compatible \cap crowned
       /\ artifact[pointer] \in crowned \cup {Torn}
  /\ step = "pointer" => ref \in Compatible /\ artifact[ref] \in crowned

(***************************************************************************)
(* Claimed by resolve_champion: after a first success, an unreachable      *)
(* MLflow "falls back to the last successfully cached ref + artifact".     *)
(* Read as: between two resolutions the cache file and the directory it    *)
(* names can be loaded.                                                    *)
(***************************************************************************)
FallbackIsUsable ==
  pointer # NoVersion /\ step \in {"idle", "done", "failed"}
    => cacheFile \in Versions /\ artifact[cacheFile] \in Versions
==============================================================================
