---------------------------- MODULE TextureCache ----------------------------
(***************************************************************************)
(* The disk cache of encoded textures (src/src/TextureLoader.cpp).  Several*)
(* metalrast processes load the same images and share one directory; a     *)
(* process looks an image up, encodes it on a miss and stores the blob by  *)
(* staging it under a name of its own and renaming it.  A process may die  *)
(* at any step, and a later one may get its pid.                           *)
(*                                                                         *)
(* The directory maps names to files.  A file is known by an identity that *)
(* outlives its name, as an open stream does; its bytes are the blob of an *)
(* image, or the part of it that holds the header, or nothing.             *)
(***************************************************************************)
EXTENDS Integers, FiniteSets

CONSTANTS
  Pid,          \* processes that may run at once
  NumTextures,  \* images of the GLB, loaded in order
  Key,          \* hashes
  KeyOf,        \* makeCacheKey of each image
  DimsOf,       \* width and height of each image
  NumFiles,     \* bound on the files there are at once
  MaxCrashes,   \* bound on the processes that die
  Absent

Texture == 1..NumTextures
File == 1..NumFiles        \* their identities; a new one is the lowest unused
Blob == [image : Texture, part : {"part", "whole"}]
Tmp == Key \X Pid \X (0..NumTextures)
Name == Key \cup Tmp

ASSUME ImageAssumption ==
  /\ NumTextures \in Nat /\ MaxCrashes \in Nat /\ NumFiles \in Nat
  /\ KeyOf \in [Texture -> Key]
\* Images that collide differ in size: the case the code guards against.
ASSUME CollisionAssumption ==
  /\ DimsOf \in [Texture -> Nat]
  /\ \A i, j \in Texture : KeyOf[i] = KeyOf[j] /\ DimsOf[i] = DimsOf[j] => i = j
ASSUME NamesAssumption ==
  /\ Key \cap Tmp = {}
  /\ Absent \notin File \cup Blob

VARIABLES
  dir,          \* the directory: a file or Absent for each name
  bytes,        \* what each file holds, Absent when empty
  place, cur,   \* each process: where it is, and at which image of encodeAll
  ctr,          \* its tmpCtr
  stream,       \* the file it has open or staged
  served,       \* the blobs it has handed to the renderer so far
  crashes

procVars == <<place, cur, ctr, stream, served>>
cacheVars == <<dir, bytes, procVars, crashes>>

Nothing == [i \in Texture |-> Absent]

CacheInit ==
  /\ dir = [n \in Name |-> Absent]
  /\ bytes = [f \in File |-> Absent]
  /\ place = [p \in Pid |-> "lookup"] /\ cur = [p \in Pid |-> 1]
  /\ ctr = [p \in Pid |-> 0] /\ stream = [p \in Pid |-> Absent]
  /\ served = [p \in Pid |-> Nothing]
  /\ crashes = 0

At(p, step) == place[p] = step /\ cur[p] <= NumTextures
Goto(p, step) == place' = [place EXCEPT ![p] = step] /\ UNCHANGED cur
NextTexture(p) ==
  /\ cur' = [cur EXCEPT ![p] = @ + 1]
  /\ place' = [place EXCEPT ![p] = "lookup"]
Entry(p) == KeyOf[cur[p]]

\* Mutant: no look at the size of the cached image.
HitAny(p) ==
  /\ dir[Entry(p)] # Absent
  /\ bytes[dir[Entry(p)]] # Absent

\* The header is there and its size is the image's.
Hit(p) ==
  /\ dir[Entry(p)] # Absent
  /\ bytes[dir[Entry(p)]] # Absent
  /\ DimsOf[bytes[dir[Entry(p)]].image] = DimsOf[cur[p]]

\* exists() and readCacheFile(): an open file stays what it is when renamed
\* over, so the whole read is one step.
Lookup(p) ==
  /\ At(p, "lookup")
  /\ IF Hit(p)
     THEN /\ served' = [served EXCEPT ![p][cur[p]] = bytes[dir[Entry(p)]]]
          /\ NextTexture(p)
     ELSE Goto(p, "encode") /\ UNCHANGED served
  /\ UNCHANGED <<dir, bytes, ctr, stream, crashes>>

\* No bytes, no size, or they do not decode or encode: the image is skipped.
EncodeFails(p) ==
  /\ At(p, "lookup") \/ At(p, "encode")
  /\ NextTexture(p)
  /\ UNCHANGED <<dir, bytes, ctr, stream, served, crashes>>

Encode(p) ==
  /\ At(p, "encode")
  /\ served' = [served EXCEPT ![p][cur[p]] = [image |-> cur[p], part |-> "whole"]]
  /\ Goto(p, "open")
  /\ UNCHANGED <<dir, bytes, ctr, stream, crashes>>

\* Mutant: one staging name for all.
StagedFixed(p, n) == <<Entry(p), CHOOSE q \in Pid : TRUE, 0>>
\* <path>.tmp.<pid>.<ctr>
Staged(p, n) == <<Entry(p), p, n>>

Unused == {f \in File : /\ \A n \in Name : dir[n] # f
                        /\ \A p \in Pid : stream[p] # f}
NewFile == {f \in Unused : \A g \in Unused : f <= g}

\* tmpCtr.fetch_add; the file of that name is emptied if there is one.
OpenStaged(p) ==
  /\ At(p, "open")
  /\ LET name == Staged(p, ctr[p])
     IN  \E f \in IF dir[name] = Absent THEN NewFile ELSE {dir[name]} :
           /\ dir' = [dir EXCEPT ![name] = f]
           /\ stream' = [stream EXCEPT ![p] = f]
           /\ bytes' = [bytes EXCEPT ![f] = Absent]
  /\ ctr' = [ctr EXCEPT ![p] = @ + 1]
  /\ Goto(p, "write")
  /\ UNCHANGED <<served, crashes>>

OpenFails(p) ==
  /\ At(p, "open")
  /\ ctr' = [ctr EXCEPT ![p] = @ + 1]
  /\ NextTexture(p)
  /\ UNCHANGED <<dir, bytes, stream, served, crashes>>

\* f.write: all but what the stream buffers is in the file.
Write(p) ==
  /\ At(p, "write")
  /\ bytes' = [bytes EXCEPT ![stream[p]] = [image |-> cur[p], part |-> "part"]]
  /\ Goto(p, "close")
  /\ UNCHANGED <<dir, ctr, stream, served, crashes>>

\* The write or the rename reports an error: the staged file is removed.
Discard(p) ==
  /\ dir' = [dir EXCEPT ![Staged(p, ctr[p] - 1)] = Absent]
  /\ stream' = [stream EXCEPT ![p] = Absent]
  /\ NextTexture(p)
  /\ UNCHANGED <<bytes, ctr, served, crashes>>
WriteFails(p) == At(p, "write") /\ Discard(p)
RenameFails(p) == At(p, "rename") /\ Discard(p)

\* Mutant: renamed before the stream is closed.
CloseLate(p) ==
  /\ At(p, "close")
  /\ Goto(p, "rename")
  /\ UNCHANGED <<dir, bytes, ctr, stream, served, crashes>>

\* The stream goes out of scope and writes the rest.
Close(p) ==
  /\ At(p, "close")
  /\ bytes' = [bytes EXCEPT ![stream[p]] = [image |-> cur[p], part |-> "whole"]]
  /\ Goto(p, "rename")
  /\ UNCHANGED <<dir, ctr, stream, served, crashes>>

Rename(p) ==
  /\ At(p, "rename")
  /\ LET name == Staged(p, ctr[p] - 1)
     IN  /\ dir[name] # Absent
         /\ dir' = [dir EXCEPT ![Entry(p)] = dir[name], ![name] = Absent]
  /\ stream' = [stream EXCEPT ![p] = Absent]
  /\ NextTexture(p)
  /\ UNCHANGED <<bytes, ctr, served, crashes>>

\* The process is killed, its staged file stays; another run gets its pid.
CrashAndRestart(p) ==
  /\ crashes < MaxCrashes
  /\ crashes' = crashes + 1
  /\ place' = [place EXCEPT ![p] = "lookup"]
  /\ cur' = [cur EXCEPT ![p] = 1]
  /\ ctr' = [ctr EXCEPT ![p] = 0]
  /\ stream' = [stream EXCEPT ![p] = Absent]
  /\ served' = [served EXCEPT ![p] = Nothing]
  /\ UNCHANGED <<dir, bytes>>

CacheNext == \E p \in Pid :
  \/ Lookup(p) \/ EncodeFails(p) \/ Encode(p) \/ OpenStaged(p) \/ OpenFails(p)
  \/ Write(p) \/ WriteFails(p) \/ Close(p) \/ Rename(p) \/ RenameFails(p)
  \/ CrashAndRestart(p)

CacheSpec == CacheInit /\ [][CacheNext]_cacheVars

-----------------------------------------------------------------------------
(* Properties.                                                             *)

TypeOK ==
  /\ dir \in [Name -> File \cup {Absent}]
  /\ bytes \in [File -> Blob \cup {Absent}]
  /\ place \in [Pid -> {"lookup", "encode", "open", "write", "close", "rename"}]
  /\ cur \in [Pid -> 1..(NumTextures + 1)]
  /\ ctr \in [Pid -> 0..NumTextures]
  /\ stream \in [Pid -> File \cup {Absent}]
  /\ served \in [Pid -> [Texture -> Blob \cup {Absent}]]
  /\ crashes \in 0..MaxCrashes

\* "Atomic write: stage [...], then rename" (TextureLoader.cpp:198): whatever
\* the other processes do and whoever dies, a cache entry is at every moment a
\* whole blob, of an image with that key.
EntriesWhole ==
  \A k \in Key : dir[k] # Absent => /\ bytes[dir[k]] # Absent
                                  /\ bytes[dir[k]].part = "whole"
                                  /\ KeyOf[bytes[dir[k]].image] = k

\* A process is handed the whole blob of the image it asked for, even when
\* another image has the same key (TextureLoader.cpp:694-703).
ServedRight ==
  \A p \in Pid, i \in Texture : served[p][i] # Absent => served[p][i] = [image |-> i, part |-> "whole"]

\* "PID + per-process atomic counter disambiguates" (TextureLoader.cpp:202):
\* the file a process is writing is no entry's and no other writer's.
WritersApart ==
  \A p \in Pid : place[p] \in {"write", "close", "rename"} =>
    /\ \A q \in Pid : stream[q] = stream[p] => q = p
    /\ \A k \in Key : dir[k] # stream[p]
=============================================================================
