--------------------------- MODULE StorageAdapters ---------------------------
(***************************************************************************)
(* Upload of the four storage adapters (worker/adapters), and the storage  *)
(* they write to.  Uploads of one destination follow or overlap each       *)
(* other: a command that is retried, or that two workers run after a lost  *)
(* lease, uploads its outputs again.                                       *)
(*                                                                         *)
(* The file adapter truncates the destination and copies block by block.   *)
(* The others send one PUT, which the storage stores as a whole, perhaps   *)
(* after the adapter has given up waiting for the answer; bunny-stream     *)
(* first has the library make an entry.  An object is the sequence of its  *)
(* blocks, each the upload that wrote it.                                  *)
(***************************************************************************)
EXTENDS Naturals, Sequences

CONSTANTS
  Uploads,    \* calls of Upload
  Names,      \* names in a path
  Dest,       \* destPath of each
  Size,       \* blocks of the local file of each
  Hole,       \* a block nobody wrote
  Adapters,   \* adapters that may be configured
  Prefixes    \* path prefixes that may be configured; <<>> for none

ASSUME UploadAssumption ==
  /\ Hole \notin Uploads
  /\ Names \cap {"base", "guid"} = {}
  /\ Dest \in [Uploads -> Names]
  /\ Size \in [Uploads -> Nat \ {0}]
  /\ Adapters \subseteq {"file", "bunny-storage", "bunny-stream", "s3"}
  /\ Prefixes \subseteq Seq(Names)

VARIABLES
  adapter,    \* the adapter of the workers
  prefix,     \* BUNNY_STORAGE_PATH_PREFIX or S3_PATH_PREFIX
  public,     \* whether a public base URL is configured
  step,       \* where each call is
  pos,        \* the file adapter's position in the file
  url,        \* what the call returned
  wire,       \* requests on their way to the storage: POST or PUT of an upload
  done,       \* requests the storage has carried out
  objects,    \* the objects stored, by key
  alone,      \* history: no other copy to the same file was open meanwhile
  last        \* history: the upload that created the file last, per destination

settings == <<adapter, prefix, public>>
history  == <<alone, last>>
vars     == <<settings, step, pos, url, wire, done, objects, history>>

File   == adapter = "file"
Stream == adapter = "bunny-stream"

\* Mutant: an entry is found again by its title.
KeyByTitle(u) ==
  CASE File   -> <<Dest[u]>>
    [] Stream -> <<"guid", Dest[u]>>
    [] OTHER  -> prefix \o <<Dest[u]>>

\* An entry's guid is new with every request that makes one.
Key(u) ==
  CASE File   -> <<Dest[u]>>
    [] Stream -> <<"guid", u>>
    [] OTHER  -> prefix \o <<Dest[u]>>

\* The public URL, or where the storage keeps it.
Address(u) ==
  CASE Stream -> Key(u)
    [] adapter = "bunny-storage" /\ ~public -> Key(u)
    [] OTHER  -> <<"base">> \o Key(u)

\* What is found under an address.
Resolve(a) == IF a[1] = "base" THEN Tail(a) ELSE a

Whole(u)     == [i \in 1 .. Size[u] |-> u]
Stored(k)    == k \in DOMAIN objects
Intact(k, o) == k \in DOMAIN o /\ \E u \in Uploads : o[k] = Whole(u)

Store(k, blocks) ==
  objects' = [j \in DOMAIN objects \cup {k} |-> IF j = k THEN blocks ELSE objects[j]]

Init ==
  /\ adapter \in Adapters
  /\ prefix \in IF adapter \in {"bunny-storage", "s3"} THEN Prefixes ELSE {<<>>}
  /\ public \in BOOLEAN
  /\ step    = [u \in Uploads |-> "idle"]
  /\ pos     = [u \in Uploads |-> 0]
  /\ url     = [u \in Uploads |-> <<>>]
  /\ wire    = {}
  /\ done    = {}
  /\ objects = <<>>
  /\ alone   = [u \in Uploads |-> TRUE]
  /\ last    = [d \in {Dest[u] : u \in Uploads} |-> CHOOSE u \in Uploads : Dest[u] = d]

Goto(u, s) == step' = [step EXCEPT ![u] = s]

\* return url, nil
ReturnUrl(u) ==
  /\ Goto(u, "ok")
  /\ url' = [url EXCEPT ![u] = Address(u)]

\* return "", fmt.Errorf(...): a file that cannot be opened or created, a
\* copy, a request or an answer that fails, or the context.
ReturnError(u) ==
  /\ step[u] \in {"idle", "copying", "creating", "created", "putting"}
  /\ Goto(u, "failed")
  /\ UNCHANGED <<settings, pos, url, wire, done, objects, history>>

(***************************************************************************)
(* The file adapter.                                                       *)
(***************************************************************************)
Copies(u) == {v \in Uploads \ {u} : step[v] = "copying" /\ Dest[v] = Dest[u]}

Opened(u) ==
  /\ alone' = [v \in Uploads |-> IF v = u THEN Copies(u) = {}
                                 ELSE alone[v] /\ v \notin Copies(u)]
  /\ last'  = [last EXCEPT ![Dest[u]] = u]

\* os.Create truncates the file.
OpenFile(u) ==
  /\ File
  /\ step[u] = "idle"
  /\ Goto(u, "copying")
  /\ Store(Key(u), <<>>)
  /\ Opened(u)
  /\ UNCHANGED <<settings, pos, url, wire, done>>

\* Mutant: one block too many.
WriteBlockPastEnd(u) ==
  /\ step[u] = "copying"
  /\ pos[u] <= Size[u]
  /\ pos' = [pos EXCEPT ![u] = @ + 1]
  /\ UNCHANGED <<settings, step, url, wire, done, objects, history>>

\* A write at a position past the end of a truncated file leaves a hole.
WriteBlock(u) ==
  LET k    == Key(u)
      at   == pos[u] + 1
      size == IF at > Len(objects[k]) THEN at ELSE Len(objects[k])
  IN
  /\ step[u] = "copying"
  /\ pos[u] < Size[u]
  /\ pos' = [pos EXCEPT ![u] = at]
  /\ Store(k, [i \in 1 .. size |-> IF i = at THEN u
                                   ELSE IF i \in DOMAIN objects[k] THEN objects[k][i]
                                   ELSE Hole])
  /\ UNCHANGED <<settings, step, url, wire, done, history>>

CopyDone(u) ==
  /\ step[u] = "copying"
  /\ pos[u] = Size[u]
  /\ ReturnUrl(u)
  /\ UNCHANGED <<settings, pos, wire, done, objects, history>>

(***************************************************************************)
(* The adapters that send requests.                                        *)
(***************************************************************************)
SendRequest(u, method, from, to) ==
  /\ step[u] = from
  /\ Goto(u, to)
  /\ wire' = wire \cup {<<method, u>>}
  /\ UNCHANGED <<settings, pos, url, done, objects, history>>

CreateVideo(u) == Stream /\ SendRequest(u, "POST", "idle", "creating")

\* A 2xx answer with a guid.
VideoCreated(u) ==
  /\ step[u] = "creating"
  /\ <<"POST", u>> \in done
  /\ Goto(u, "created")
  /\ UNCHANGED <<settings, pos, url, wire, done, objects, history>>

Put(u) ==
  \/ Stream /\ SendRequest(u, "PUT", "created", "putting")
  \/ ~Stream /\ ~File /\ SendRequest(u, "PUT", "idle", "putting")

\* Mutant: any answer counts.
PutAnswered(u) ==
  /\ step[u] = "putting"
  /\ <<"PUT", u>> \notin wire
  /\ ReturnUrl(u)
  /\ UNCHANGED <<settings, pos, wire, done, objects, history>>

\* A 2xx answer.
PutDone(u) ==
  /\ step[u] = "putting"
  /\ <<"PUT", u>> \in done
  /\ ReturnUrl(u)
  /\ UNCHANGED <<settings, pos, wire, done, objects, history>>

(***************************************************************************)
(* The storage.  A request may be refused, or be carried out late.         *)
(***************************************************************************)
\* The S3 library may have sent it twice.
CarryOut(q) ==
  /\ wire' \in {wire \ {q}} \cup (IF adapter = "s3" THEN {wire} ELSE {})
  /\ done' = done \cup {q}
  /\ IF q[1] = "POST"
     THEN Store(Key(q[2]), <<>>)
     ELSE /\ Stream => Stored(Key(q[2]))
          /\ Store(Key(q[2]), Whole(q[2]))
  /\ UNCHANGED <<settings, step, pos, url, history>>

Lose(q) ==
  /\ wire' = wire \ {q}
  /\ UNCHANGED <<settings, step, pos, url, done, objects, history>>

Upload(u) ==
  \/ OpenFile(u) \/ WriteBlock(u) \/ CopyDone(u)
  \/ CreateVideo(u) \/ VideoCreated(u) \/ Put(u) \/ PutDone(u)
  \/ ReturnError(u)

Next ==
  \/ \E u \in Uploads : Upload(u)
  \/ \E q \in wire : CarryOut(q) \/ Lose(q)

Spec == Init /\ [][Next]_vars

-----------------------------------------------------------------------------
\* The shape of the state.
TypeOK ==
  /\ adapter \in Adapters /\ prefix \in Prefixes \cup {<<>>} /\ public \in BOOLEAN
  /\ step \in [Uploads -> {"idle", "copying", "creating", "created", "putting", "ok", "failed"}]
  /\ \A u \in Uploads : pos[u] \in 0 .. Size[u]
  /\ wire \cup done \subseteq {"POST", "PUT"} \X Uploads
  /\ alone \in [Uploads -> BOOLEAN]
  /\ last \in [{Dest[u] : u \in Uploads} -> Uploads]

(***************************************************************************)
(* What a worker announces can be fetched: under every address an upload   *)
(* has returned there is a complete file of some upload, however retries,  *)
(* late requests and failures were ordered.  With the file adapter this    *)
(* holds of the last copy to the file, if it met no other on its way.      *)
(***************************************************************************)
Undisturbed(u) == File => alone[u] /\ last[Dest[u]] = u

ReturnedIsIntact ==
  \A u \in Uploads : step[u] = "ok" /\ Undisturbed(u) => Intact(Resolve(url[u]), objects)

(***************************************************************************)
(* A complete object stays complete; only the file adapter's copies, while *)
(* they run, can destroy one.                                              *)
(***************************************************************************)
CopyOf(k) == \E u \in Uploads : File /\ Key(u) = k /\ (step[u] = "copying" \/ step'[u] = "copying")

IntactIsKept ==
  [][\A k \in DOMAIN objects : Intact(k, objects) => Intact(k, objects') \/ CopyOf(k)]_vars

=============================================================================
