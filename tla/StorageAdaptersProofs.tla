------------------------ MODULE StorageAdaptersProofs ------------------------
(***************************************************************************)
(* What holds of Upload for every number of uploads, destinations and      *)
(* blocks.                                                                 *)
(*                                                                         *)
(* The argument for the adapters that send requests: a file is sent to     *)
(* bunny-stream only after its entry was made, an entry is made once, and  *)
(* the storage stores a PUT as a whole.  For the file adapter: a copy that *)
(* met no other and is the last to have truncated the file owns it.        *)
(***************************************************************************)
EXTENDS StorageAdapters, TLAPS

USE UploadAssumption DEF UploadAssumption

LEMMA SameKeys ==
  ASSUME UNCHANGED settings, NEW u
  PROVE  Key(u)' = Key(u)
BY DEF settings, Key, File, Stream

LEMMA StreamKeys ==
  ASSUME Stream, NEW u \in Uploads, NEW v \in Uploads, Key(u) = Key(v)
  PROVE  u = v
BY DEF Key, Stream, File

LEMMA FileKeys ==
  ASSUME File, NEW u \in Uploads, NEW v \in Uploads
  PROVE  Key(u) = Key(v) <=> Dest[u] = Dest[v]
<1>1. Key(u) = <<Dest[u]>> /\ Key(v) = <<Dest[v]>>
  BY DEF Key, File, Stream
<1>2. \A d, e : <<d>> = <<e>> <=> d = e
  OBVIOUS
<1> QED BY <1>1, <1>2

\* An address leads to the object it was made of.
LEMMA AddressResolves ==
  ASSUME NEW u \in Uploads, prefix \in Seq(Names)
  PROVE  Resolve(Address(u)) = Key(u)
<1>1. CASE Stream
  BY <1>1 DEF Resolve, Address, Key, Stream, File
<1>2. CASE ~Stream
  <2>1. Key(u) \in Seq(Names) /\ Len(Key(u)) > 0
    <3>1. <<Dest[u]>> \in Seq(Names)
      OBVIOUS
    <3> QED BY <1>2, <3>1 DEF Key
  <2> DEFINE k == Key(u)
  <2>2. k[1] # "base"
    <3>1. k[1] \in Names
      BY <2>1
    <3> QED BY <3>1
  <2>3. (<<"base">> \o k)[1] = "base" /\ Tail(<<"base">> \o k) = k
    <3>1. k \in Seq(Names \cup {"base"}) /\ <<"base">> \in Seq(Names \cup {"base"})
      BY <2>1
    <3> HIDE DEF k
    <3> QED BY <3>1
  <2> QED BY <1>2, <2>2, <2>3 DEF Resolve, Address
<1> QED BY <1>1, <1>2

(***************************************************************************)
(* The invariant.                                                          *)
(***************************************************************************)
Settled ==
  /\ TypeOK
  /\ pos \in [Uploads -> Nat]
  /\ url = [u \in Uploads |-> url[u]]
  /\ \A u \in Uploads : step[u] = "ok" => url[u] = Address(u)
  /\ \A u \in Uploads : step[u] = "idle" => pos[u] = 0

\* Which requests there may be, and when.
Requests ==
  /\ File => wire = {} /\ done = {}
  /\ \A u \in Uploads, m \in {"POST", "PUT"} : <<m, u>> \in wire \cup done => step[u] # "idle"
  /\ ~Stream => \A u \in Uploads : <<"POST", u>> \notin wire \cup done
  /\ Stream => \A u \in Uploads :
       /\ <<"POST", u>> \in wire => <<"POST", u>> \notin done /\ <<"PUT", u>> \notin wire \cup done
       /\ Stored(Key(u)) => <<"POST", u>> \in done
       /\ step[u] = "created" => <<"POST", u>> \in done
       /\ <<"PUT", u>> \in wire \cup done => step[u] \in {"putting", "ok", "failed"}

\* What has been put is there.
PutIsStored ==
  /\ \A u \in Uploads : <<"PUT", u>> \in done => Intact(Key(u), objects)
  /\ ~File => \A u \in Uploads : step[u] = "ok" => <<"PUT", u>> \in done

\* A copy that owns its file.
Owner(u) == step[u] \in {"copying", "ok"} /\ alone[u] /\ last[Dest[u]] = u

Files ==
  /\ \A u \in Uploads : step[u] = "copying" => File /\ Stored(Key(u))
  /\ \A k \in DOMAIN objects : objects[k] \in Seq(Uploads \cup {Hole})
  /\ File => \A u \in Uploads : Owner(u) =>
       /\ Stored(Key(u))
       /\ objects[Key(u)] = [i \in 1 .. pos[u] |-> u]
       /\ step[u] = "ok" => pos[u] = Size[u]
       /\ Copies(u) = {}

UploadInv == Settled /\ Requests /\ PutIsStored /\ Files

LEMMA UploadInvInit == Init => UploadInv
<1> SUFFICES ASSUME Init PROVE UploadInv
  OBVIOUS
<1>1. last \in [{Dest[u] : u \in Uploads} -> Uploads]
  <2>1. \A d \in {Dest[u] : u \in Uploads} : (CHOOSE u \in Uploads : Dest[u] = d) \in Uploads
    OBVIOUS
  <2> QED BY <2>1 DEF Init
<1>2. TypeOK
  <2>1. /\ adapter \in Adapters /\ prefix \in Prefixes \cup {<<>>} /\ public \in BOOLEAN
        /\ step \in [Uploads -> {"idle", "copying", "creating", "created", "putting", "ok", "failed"}]
        /\ \A u \in Uploads : pos[u] = 0
        /\ wire \cup done \subseteq {"POST", "PUT"} \X Uploads
        /\ alone \in [Uploads -> BOOLEAN]
    BY DEF Init
  <2> QED BY <1>1, <2>1 DEF TypeOK
<1>5. Settled
  BY <1>2 DEF Init, Settled
<1>3. Requests /\ PutIsStored
  BY DEF Init, Requests, PutIsStored, Stored
<1>4. Files
  <2>1. DOMAIN objects = {} /\ \A u \in Uploads : step[u] = "idle"
    BY DEF Init
  <2> QED BY <2>1 DEF Files, Owner
<1> QED BY <1>3, <1>4, <1>5 DEF UploadInv

(***************************************************************************)
(* The storage.                                                            *)
(***************************************************************************)
LEMMA StoreFacts ==
  ASSUME NEW k, NEW blocks, Store(k, blocks)
  PROVE  /\ DOMAIN objects' = DOMAIN objects \cup {k}
         /\ objects'[k] = blocks
         /\ \A j \in DOMAIN objects \ {k} : objects'[j] = objects[j]
BY DEF Store

LEMMA StoreKeeps ==
  ASSUME NEW k, NEW blocks, Store(k, blocks), NEW j, j # k
  PROVE  /\ Intact(j, objects') <=> Intact(j, objects)
         /\ Stored(j)' <=> Stored(j)
BY StoreFacts DEF Intact, Stored

LEMMA WholeIsIntact ==
  ASSUME NEW u \in Uploads, Store(Key(u), Whole(u))
  PROVE  Intact(Key(u), objects')
BY DEF Store, Intact

(***************************************************************************)
(* The steps that leave the objects alone.                                 *)
(***************************************************************************)
\* What stays of the objects and the copies when neither is touched.
LEMMA QuietFiles ==
  ASSUME UploadInv, UNCHANGED <<settings, pos, objects, history>>,
         NEW u \in Uploads, NEW s, step' = [step EXCEPT ![u] = s],
         s # "copying",
         s = "ok" /\ File => step[u] = "copying" /\ pos[u] = Size[u]
  PROVE  Files'
<1>1. \A v \in Uploads : step'[v] = IF v = u THEN s ELSE step[v]
  BY DEF UploadInv, Settled, TypeOK
<1>2. \A v \in Uploads : Key(v)' = Key(v)
  BY SameKeys
<1>3. UNCHANGED <<adapter, objects, pos, alone, last>>
  BY DEF settings, history
<1>4. \A v \in Uploads : Copies(v)' \subseteq Copies(v)
  BY <1>1 DEF Copies
<1>5. ASSUME File, NEW v \in Uploads, Owner(v)'
      PROVE  Owner(v) /\ (step'[v] = "ok" => pos[v] = Size[v])
  <2>1. alone[v] /\ last[Dest[v]] = v /\ step'[v] \in {"copying", "ok"}
    BY <1>3, <1>5 DEF Owner
  <2>2. step[v] \in {"copying", "ok"} /\ (v = u => step'[v] = "ok")
    BY <1>1, <1>5, <2>1
  <2>3. Owner(v)
    BY <2>1, <2>2 DEF Owner
  <2>4. step'[v] = "ok" => pos[v] = Size[v]
    BY <1>1, <1>5, <2>3 DEF UploadInv, Files
  <2> QED BY <2>3, <2>4
<1>6. File' <=> File
  BY <1>3 DEF File
<1>7. \A v \in Uploads : step'[v] = "copying" => File' /\ Stored(Key(v))'
  BY <1>1, <1>2, <1>3, <1>6 DEF UploadInv, Files, Stored
<1>8. ASSUME File, NEW v \in Uploads, Owner(v)'
      PROVE  /\ Stored(Key(v))'
             /\ objects'[Key(v)'] = [i \in 1 .. pos'[v] |-> v]
             /\ step'[v] = "ok" => pos'[v] = Size[v]
             /\ Copies(v)' = {}
  BY <1>2, <1>3, <1>4, <1>5, <1>8 DEF UploadInv, Files, Stored
<1>9. \A k \in DOMAIN objects' : objects'[k] \in Seq(Uploads \cup {Hole})
  BY <1>3 DEF UploadInv, Files
<1> QED BY <1>6, <1>7, <1>8, <1>9 DEF Files

LEMMA ReturnErrorInv ==
  ASSUME UploadInv, NEW u \in Uploads, ReturnError(u)
  PROVE  UploadInv'
<1>1. \A v \in Uploads : Key(v)' = Key(v) /\ Address(v)' = Address(v)
  BY DEF ReturnError, settings, Key, File, Stream, Address
<1>2. Files'
  BY QuietFiles DEF ReturnError, Goto
<1>3. Settled'
  BY <1>1 DEF UploadInv, Settled, TypeOK, ReturnError, Goto, settings, history
<1>4. Requests'
  BY <1>1 DEF UploadInv, Requests, Settled, TypeOK, ReturnError, Goto, settings, File, Stream, Stored
<1>5. PutIsStored'
  BY <1>1 DEF UploadInv, PutIsStored, Settled, TypeOK, ReturnError, Goto, settings, File, Stored
<1> QED BY <1>2, <1>3, <1>4, <1>5 DEF UploadInv

LEMMA SendInv ==
  ASSUME UploadInv, NEW u \in Uploads, CreateVideo(u) \/ Put(u) \/ VideoCreated(u)
  PROVE  UploadInv'
<1>1. \A v \in Uploads : Key(v)' = Key(v) /\ Address(v)' = Address(v)
  BY DEF CreateVideo, Put, VideoCreated, SendRequest, settings, Key, File, Stream, Address
<1>2. Files'
  BY QuietFiles DEF CreateVideo, Put, VideoCreated, SendRequest, Goto
<1>a. /\ UNCHANGED <<adapter, prefix, public, pos, url, objects, alone, last>>
      /\ step[u] \in {"idle", "creating", "created"}
      /\ step' \in [Uploads -> {"idle", "copying", "creating", "created", "putting", "ok", "failed"}]
      /\ \A v \in Uploads \ {u} : step'[v] = step[v]
      /\ step'[u] \in {"creating", "created", "putting"}
  BY DEF UploadInv, Settled, TypeOK, CreateVideo, Put, VideoCreated, SendRequest, Goto,
         settings, history
<1>b. wire' \cup done' \subseteq {"POST", "PUT"} \X Uploads
  BY DEF UploadInv, Settled, TypeOK, CreateVideo, Put, VideoCreated, SendRequest
<1>3. Settled'
  BY <1>1, <1>a, <1>b DEF UploadInv, Settled, TypeOK
<1>4. Requests'
  <2>1. CASE CreateVideo(u)
    BY <1>1, <2>1 DEF UploadInv, Requests, Settled, TypeOK, CreateVideo, SendRequest, Goto,
                      settings, File, Stream, Stored
  <2>2. CASE Put(u)
    <3>1. /\ ~File /\ step'[u] = "putting" /\ done' = done
          /\ wire' = wire \cup {<<"PUT", u>>}
          /\ step[u] = IF Stream THEN "created" ELSE "idle"
      BY <2>2 DEF UploadInv, Settled, TypeOK, Put, SendRequest, Goto, File, Stream
    <3>2. \A m \in {"POST", "PUT"}, v \in Uploads :
            <<m, v>> \in wire' <=> <<m, v>> \in wire \/ (m = "PUT" /\ v = u)
      BY <3>1
    <3> QED BY <1>1, <1>a, <3>1, <3>2 DEF UploadInv, Requests, File, Stream, Stored
  <2>3. CASE VideoCreated(u)
    <3>1. /\ ~File /\ step'[u] = "created" /\ done' = done /\ wire' = wire
          /\ <<"POST", u>> \in done
      BY <2>3 DEF UploadInv, Settled, TypeOK, Requests, VideoCreated, Goto
    <3>2. Stream /\ step[u] = "creating"
      BY <2>3, <3>1 DEF UploadInv, Requests, VideoCreated
    <3>3. <<"PUT", u>> \notin wire \cup done
      BY <3>2 DEF UploadInv, Requests
    <3> QED BY <1>1, <1>a, <3>1, <3>2, <3>3 DEF UploadInv, Requests, File, Stream, Stored
  <2> QED BY <2>1, <2>2, <2>3
<1>5. PutIsStored'
  BY <1>1 DEF UploadInv, PutIsStored, Settled, TypeOK, CreateVideo, Put, VideoCreated,
              SendRequest, Goto, settings, File, Stored
<1> QED BY <1>2, <1>3, <1>4, <1>5 DEF UploadInv

LEMMA ReturnUrlInv ==
  ASSUME UploadInv, NEW u \in Uploads, CopyDone(u) \/ PutDone(u)
  PROVE  UploadInv'
<1>1. \A v \in Uploads : Key(v)' = Key(v) /\ Address(v)' = Address(v)
  BY DEF CopyDone, PutDone, settings, Key, File, Stream, Address
<1>2. Files'
  <2>1. PutDone(u) => ~File
    BY DEF UploadInv, Requests, PutDone
  <2> QED BY <2>1, QuietFiles DEF CopyDone, PutDone, ReturnUrl, Goto
<1>3. Settled'
  BY <1>1 DEF UploadInv, Settled, TypeOK, CopyDone, PutDone, ReturnUrl, Goto, settings, history
<1>4. Requests'
  BY <1>1 DEF UploadInv, Requests, Settled, TypeOK, Files, CopyDone, PutDone, ReturnUrl, Goto,
              settings, File, Stream, Stored
<1>5. PutIsStored'
  <2>1. ~File => <<"PUT", u>> \in done
    BY DEF UploadInv, Files, CopyDone, PutDone
  <2>2. \A v \in Uploads \ {u} : step'[v] = step[v]
    BY DEF UploadInv, Settled, TypeOK, CopyDone, PutDone, ReturnUrl, Goto
  <2>3. UNCHANGED <<adapter, done, objects>>
    BY DEF CopyDone, PutDone, settings
  <2> QED BY <1>1, <2>1, <2>2, <2>3 DEF UploadInv, PutIsStored, File
<1> QED BY <1>2, <1>3, <1>4, <1>5 DEF UploadInv

(***************************************************************************)
(* The storage carries a request out, or loses it.                         *)
(***************************************************************************)
LEMMA LoseInv ==
  ASSUME UploadInv, NEW q \in wire, Lose(q)
  PROVE  UploadInv'
<1>1. \A v \in Uploads : Key(v)' = Key(v) /\ Address(v)' = Address(v)
  BY DEF Lose, settings, Key, File, Stream, Address
<1>2. wire' \subseteq wire /\ UNCHANGED <<adapter, prefix, public, step, pos, url, done, objects, alone, last>>
  BY DEF Lose, settings, history
<1>3. Settled' /\ PutIsStored'
  BY <1>1, <1>2 DEF UploadInv, Settled, TypeOK, PutIsStored, File
<1>4. Requests'
  BY <1>1, <1>2 DEF UploadInv, Requests, File, Stream, Stored
<1>5. Files'
  BY <1>1, <1>2 DEF UploadInv, Files, Owner, Copies, File, Stored
<1> QED BY <1>3, <1>4, <1>5 DEF UploadInv

\* What a request does to the objects: it makes an entry that was not there,
\* or stores a whole file.
LEMMA CarryOutKeeps ==
  ASSUME UploadInv, NEW q \in wire, CarryOut(q), NEW k, Intact(k, objects)
  PROVE  Intact(k, objects')
<1>1. PICK m \in {"POST", "PUT"}, u \in Uploads : q = <<m, u>>
  BY DEF UploadInv, Settled, TypeOK
<1>2. CASE k # Key(u)
  BY <1>1, <1>2 DEF CarryOut, Store, Intact
<1>3. CASE k = Key(u) /\ m = "PUT"
  <2>1. Store(Key(u), Whole(u))
    BY <1>1, <1>3 DEF CarryOut
  <2> QED BY <1>3, <2>1, WholeIsIntact
<1>4. CASE k = Key(u) /\ m = "POST"
  <2>1. Stream /\ <<"POST", u>> \notin done
    BY <1>1, <1>4 DEF UploadInv, Requests
  <2>2. ~Stored(Key(u))
    BY <2>1 DEF UploadInv, Requests
  <2> QED BY <1>4, <2>2 DEF Stored, Intact
<1> QED BY <1>1, <1>2, <1>3, <1>4

LEMMA CarryOutInv ==
  ASSUME UploadInv, NEW q \in wire, CarryOut(q)
  PROVE  UploadInv'
<1>1. PICK m \in {"POST", "PUT"}, u \in Uploads : q = <<m, u>>
  BY DEF UploadInv, Settled, TypeOK
<1>2. \A v \in Uploads : Key(v)' = Key(v) /\ Address(v)' = Address(v)
  BY DEF CarryOut, settings, Key, File, Stream, Address
<1>3. /\ UNCHANGED <<adapter, prefix, public, step, pos, url, alone, last>>
      /\ wire' \subseteq wire
      /\ ~(adapter = "s3") => q \notin wire'
      /\ done' = done \cup {q}
      /\ ~File
  BY DEF CarryOut, settings, history, UploadInv, Requests
<1>4. Settled'
  BY <1>1, <1>2, <1>3 DEF UploadInv, Settled, TypeOK
<1>5. PutIsStored'
  <2>1. ASSUME NEW v \in Uploads, <<"PUT", v>> \in done'
        PROVE  Intact(Key(v), objects')
    <3>1. CASE <<"PUT", v>> \in done
      BY <3>1, CarryOutKeeps DEF UploadInv, PutIsStored
    <3>2. CASE <<"PUT", v>> \notin done
      <4>1. v = u /\ m = "PUT"
        BY <1>1, <1>3, <2>1, <3>2
      <4>2. Store(Key(v), Whole(v))
        BY <1>1, <4>1 DEF CarryOut
      <4> QED BY <4>2, WholeIsIntact
    <3> QED BY <3>1, <3>2
  <2>2. \A v \in Uploads : step[v] = "ok" => <<"PUT", v>> \in done'
    BY <1>3 DEF UploadInv, PutIsStored
  <2> QED BY <1>2, <1>3, <2>1, <2>2 DEF PutIsStored
<1>6. DOMAIN objects' = DOMAIN objects \cup {Key(u)}
  BY <1>1 DEF CarryOut, Store
<1>7. Requests'
  <2>1. \A r : r \in done' <=> r \in done \/ r = q
    BY <1>3
  <2>2. CASE ~Stream
    BY <1>1, <1>3, <2>1, <2>2 DEF UploadInv, Requests, File, Stream
  <2>3. CASE Stream
    <3>1. ASSUME NEW v \in Uploads, Stored(Key(v))'
          PROVE  <<"POST", v>> \in done'
      <4>1. Key(v) \in DOMAIN objects \/ Key(v) = Key(u)
        BY <1>2, <1>6, <3>1 DEF Stored
      <4>2. CASE Key(v) \in DOMAIN objects
        BY <2>1, <2>3, <4>2 DEF UploadInv, Requests, Stored
      <4>3. CASE Key(v) = Key(u)
        <5>1. v = u
          BY <2>3, <4>3, StreamKeys
        <5>2. CASE m = "POST"
          BY <1>1, <2>1, <5>1, <5>2
        <5>3. CASE m = "PUT"
          <6>1. Stored(Key(u))
            BY <1>1, <2>3, <5>3 DEF CarryOut
          <6> QED BY <2>1, <2>3, <5>1, <6>1 DEF UploadInv, Requests
        <5> QED BY <5>2, <5>3
      <4> QED BY <4>1, <4>2, <4>3
    <3>2. \A v \in Uploads : <<"POST", v>> \in wire' =>
            <<"POST", v>> \notin done' /\ <<"PUT", v>> \notin wire' \cup done'
      <4>1. q \notin wire'
        BY <1>3, <2>3 DEF Stream
      <4>2. ASSUME NEW v \in Uploads, <<"POST", v>> \in wire'
            PROVE  <<"PUT", v>> # q /\ <<"POST", v>> # q
        BY <1>3, <2>3, <4>1, <4>2 DEF UploadInv, Requests
      <4> QED BY <1>3, <2>1, <2>3, <4>2 DEF UploadInv, Requests
    <3> QED BY <1>1, <1>2, <1>3, <2>1, <2>3, <3>1, <3>2 DEF UploadInv, Requests, File, Stream
  <2> QED BY <2>2, <2>3
<1>8. Files'
  <2>1. \A k \in DOMAIN objects' : objects'[k] \in Seq(Uploads \cup {Hole})
    <3>1. Whole(u) \in Seq(Uploads \cup {Hole}) /\ <<>> \in Seq(Uploads \cup {Hole})
      BY DEF Whole
    <3>2. \E b \in {<<>>, Whole(u)} : Store(Key(u), b)
      BY <1>1 DEF CarryOut
    <3> QED BY <3>1, <3>2 DEF Store, UploadInv, Files
  <2>2. \A v \in Uploads : step[v] # "copying"
    BY <1>3 DEF UploadInv, Files
  <2> QED BY <1>3, <2>1, <2>2 DEF Files, File
<1> QED BY <1>4, <1>5, <1>7, <1>8 DEF UploadInv

(***************************************************************************)
(* The file adapter writes.                                                *)
(***************************************************************************)
LEMMA OpenFileInv ==
  ASSUME UploadInv, NEW u \in Uploads, OpenFile(u)
  PROVE  UploadInv'
<1>1. \A v \in Uploads : Key(v)' = Key(v) /\ Address(v)' = Address(v)
  BY DEF OpenFile, settings, Key, File, Stream, Address
<1>2. /\ UNCHANGED <<adapter, prefix, public, pos, url, wire, done>>
      /\ File /\ step[u] = "idle" /\ pos[u] = 0
      /\ step' \in [Uploads -> {"idle", "copying", "creating", "created", "putting", "ok", "failed"}]
      /\ step'[u] = "copying"
      /\ \A v \in Uploads \ {u} : step'[v] = step[v]
  BY DEF UploadInv, Settled, TypeOK, OpenFile, Goto, settings
<1>3. /\ alone' = [v \in Uploads |-> IF v = u THEN Copies(u) = {}
                                     ELSE alone[v] /\ v \notin Copies(u)]
      /\ last' = [last EXCEPT ![Dest[u]] = u]
  BY DEF OpenFile, Opened
<1>4. alone' \in [Uploads -> BOOLEAN]
  BY <1>3 DEF UploadInv, Settled, TypeOK
<1>5. /\ last' \in [{Dest[v] : v \in Uploads} -> Uploads]
      /\ \A v \in Uploads : last'[Dest[v]] = IF Dest[v] = Dest[u] THEN u ELSE last[Dest[v]]
  BY <1>3 DEF UploadInv, Settled, TypeOK
<1>6. Settled'
  BY <1>1, <1>2, <1>4, <1>5 DEF UploadInv, Settled, TypeOK
<1>7. Requests' /\ PutIsStored'
  BY <1>1, <1>2 DEF UploadInv, Requests, PutIsStored, File, Stream
<1>8. /\ DOMAIN objects' = DOMAIN objects \cup {Key(u)}
      /\ objects'[Key(u)] = <<>>
      /\ \A k \in DOMAIN objects \ {Key(u)} : objects'[k] = objects[k]
  BY DEF OpenFile, Store
<1>9. Files'
  <2>1. \A v \in Uploads : step'[v] = "copying" => Stored(Key(v))'
    BY <1>1, <1>2, <1>8 DEF UploadInv, Files, Stored
  <2>2. \A k \in DOMAIN objects' : objects'[k] \in Seq(Uploads \cup {Hole})
    <3>1. <<>> \in Seq(Uploads \cup {Hole})
      OBVIOUS
    <3> QED BY <1>8, <3>1 DEF UploadInv, Files
  <2>3. ASSUME NEW v \in Uploads, Owner(v)'
        PROVE  /\ Stored(Key(v))'
               /\ objects'[Key(v)] = [i \in 1 .. pos'[v] |-> v]
               /\ step'[v] = "ok" => pos'[v] = Size[v]
               /\ Copies(v)' = {}
    <3>1. CASE v = u
      <4>1. Copies(u) = {}
        BY <1>3, <2>3, <3>1 DEF Owner
      <4>2. Copies(u)' = {}
        BY <1>2, <4>1 DEF Copies
      <4>3. [i \in 1 .. 0 |-> v] = <<>>
        OBVIOUS
      <4> QED BY <1>1, <1>2, <1>8, <3>1, <4>2, <4>3 DEF Stored
    <3>2. CASE v # u
      <4>1. Dest[v] # Dest[u] /\ Owner(v)
        BY <1>2, <1>3, <1>5, <2>3, <3>2 DEF Owner
      <4>2. Key(v) # Key(u)
        BY <1>2, <4>1, FileKeys
      <4>3. Copies(v)' = {}
        BY <1>2, <4>1 DEF UploadInv, Files, Copies
      <4> QED BY <1>1, <1>2, <1>8, <3>2, <4>1, <4>2, <4>3 DEF UploadInv, Files, Stored
    <3> QED BY <3>1, <3>2
  <2>4. File'
    BY <1>2 DEF File
  <2> QED BY <1>1, <2>1, <2>2, <2>3, <2>4 DEF Files
<1> QED BY <1>6, <1>7, <1>9 DEF UploadInv

LEMMA WriteBlockInv ==
  ASSUME UploadInv, NEW u \in Uploads, WriteBlock(u)
  PROVE  UploadInv'
<1> DEFINE k  == Key(u)
           at == pos[u] + 1
           size == IF at > Len(objects[k]) THEN at ELSE Len(objects[k])
           new  == [i \in 1 .. size |-> IF i = at THEN u
                                        ELSE IF i \in DOMAIN objects[k] THEN objects[k][i] ELSE Hole]
<1>1. \A v \in Uploads : Key(v)' = Key(v) /\ Address(v)' = Address(v)
  BY DEF WriteBlock, settings, Key, File, Stream, Address
<1>2. /\ UNCHANGED <<adapter, prefix, public, step, url, wire, done, alone, last>>
      /\ File /\ step[u] = "copying" /\ pos[u] < Size[u] /\ pos[u] \in Nat
      /\ pos' = [pos EXCEPT ![u] = at]
      /\ Store(k, new)
  BY DEF UploadInv, Settled, Files, WriteBlock, settings, history
<1>3. /\ pos' \in [Uploads -> Nat]
      /\ \A v \in Uploads : pos'[v] \in 0 .. Size[v]
      /\ pos'[u] = at
      /\ \A v \in Uploads \ {u} : pos'[v] = pos[v]
  BY <1>2 DEF UploadInv, Settled, TypeOK
<1>4. Settled'
  BY <1>1, <1>2, <1>3 DEF UploadInv, Settled, TypeOK
<1>5. Requests' /\ PutIsStored'
  BY <1>1, <1>2 DEF UploadInv, Requests, PutIsStored, File, Stream
<1>6. objects[k] \in Seq(Uploads \cup {Hole}) /\ k \in DOMAIN objects
  BY <1>2 DEF UploadInv, Files, Stored
<1>7. size \in Nat /\ new \in Seq(Uploads \cup {Hole})
  <2>1. Len(objects[k]) \in Nat /\ size \in Nat
    BY <1>2, <1>6
  <2>2. \A i \in DOMAIN objects[k] : objects[k][i] \in Uploads \cup {Hole}
    BY <1>6
  <2> HIDE DEF size
  <2>3. new \in [1 .. size -> Uploads \cup {Hole}]
    BY <2>2
  <2> QED BY <2>1, <2>3
<1> HIDE DEF new
<1>8. /\ DOMAIN objects' = DOMAIN objects
      /\ objects'[k] = new
      /\ \A j \in DOMAIN objects \ {k} : objects'[j] = objects[j]
  BY <1>2, <1>6 DEF Store
<1>9. Files'
  <2>1. \A v \in Uploads : step'[v] = "copying" => Stored(Key(v))'
    BY <1>1, <1>2, <1>8 DEF UploadInv, Files, Stored
  <2>2. \A j \in DOMAIN objects' : objects'[j] \in Seq(Uploads \cup {Hole})
    BY <1>7, <1>8 DEF UploadInv, Files
  <2>3. ASSUME NEW v \in Uploads, Owner(v)'
        PROVE  /\ Stored(Key(v))'
               /\ objects'[Key(v)] = [i \in 1 .. pos'[v] |-> v]
               /\ step'[v] = "ok" => pos'[v] = Size[v]
               /\ Copies(v)' = {}
    <3>1. Owner(v) /\ Copies(v)' = Copies(v)
      BY <1>2, <2>3 DEF Owner, Copies
    <3>2. Stored(Key(v)) /\ objects[Key(v)] = [i \in 1 .. pos[v] |-> v] /\ Copies(v) = {}
      BY <1>2, <3>1 DEF UploadInv, Files
    <3>3. CASE v = u
      <4>1. objects[k] = [i \in 1 .. pos[u] |-> u]
        BY <3>2, <3>3
      <4>2. Len(objects[k]) = pos[u]
        BY <1>2, <4>1
      <4>3. size = at
        BY <1>2, <4>2
      <4>4. new = [i \in 1 .. at |-> u]
        <5>1. \A i \in 1 .. at : i # at => i \in DOMAIN objects[k] /\ objects[k][i] = u
          BY <1>2, <4>1
        <5> QED BY <4>3, <5>1 DEF new
      <4> QED BY <1>1, <1>2, <1>3, <1>8, <3>1, <3>2, <3>3, <4>4 DEF Stored
    <3>4. CASE v # u
      <4>1. Dest[v] # Dest[u]
        BY <1>2, <3>2, <3>4 DEF Copies
      <4>2. Key(v) # k
        BY <1>2, <4>1, FileKeys
      <4>3. step[v] = "ok" => pos[v] = Size[v]
        BY <1>2, <3>1 DEF UploadInv, Files
      <4> QED BY <1>1, <1>2, <1>3, <1>8, <3>1, <3>2, <3>4, <4>2, <4>3 DEF Stored
    <3> QED BY <3>3, <3>4
  <2>4. File'
    BY <1>2 DEF File
  <2> QED BY <1>1, <2>1, <2>2, <2>3, <2>4 DEF Files
<1> QED BY <1>4, <1>5, <1>9 DEF UploadInv

LEMMA UploadInvStep == UploadInv /\ [Next]_vars => UploadInv'
<1> SUFFICES ASSUME UploadInv, [Next]_vars PROVE UploadInv'
  OBVIOUS
<1>1. ASSUME NEW u \in Uploads, Upload(u) PROVE UploadInv'
  BY <1>1, OpenFileInv, WriteBlockInv, ReturnUrlInv, SendInv, ReturnErrorInv DEF Upload
<1>2. ASSUME NEW q \in wire, CarryOut(q) \/ Lose(q) PROVE UploadInv'
  BY <1>2, CarryOutInv, LoseInv
<1>3. CASE UNCHANGED vars
  <2>1. \A v \in Uploads : Key(v)' = Key(v) /\ Address(v)' = Address(v)
    BY <1>3 DEF vars, settings, Key, File, Stream, Address
  <2>2. UNCHANGED <<adapter, prefix, public, step, pos, url, wire, done, objects, alone, last>>
    BY <1>3 DEF vars, settings, history
  <2>3. Settled' /\ PutIsStored'
    BY <2>1, <2>2 DEF UploadInv, Settled, TypeOK, PutIsStored, File
  <2>4. Requests' /\ Files'
    BY <2>1, <2>2 DEF UploadInv, Requests, Files, Owner, Copies, File, Stream, Stored
  <2> QED BY <2>3, <2>4 DEF UploadInv
<1> QED BY <1>1, <1>2, <1>3 DEF Next

LEMMA UploadInvariant == Spec => []UploadInv
BY UploadInvInit, UploadInvStep, PTL DEF Spec

\* A step of a copy changes one file; no other step changes an object but
\* CarryOut.
LEMMA IntactStep ==
  ASSUME UploadInv, [Next]_vars, NEW k, Intact(k, objects)
  PROVE  Intact(k, objects') \/ CopyOf(k)
<1>1. CASE UNCHANGED objects
  BY <1>1
<1>2. ASSUME NEW u \in Uploads, OpenFile(u)
      PROVE  Intact(k, objects') \/ CopyOf(k)
  <2>1. File /\ step'[u] = "copying"
    BY <1>2 DEF UploadInv, Settled, TypeOK, OpenFile, Goto
  <2>2. CASE Key(u) = k
    BY <2>1, <2>2 DEF CopyOf
  <2>3. CASE Key(u) # k
    BY <1>2, <2>3 DEF OpenFile, Store, Intact
  <2> QED BY <2>2, <2>3
<1>3. ASSUME NEW u \in Uploads, WriteBlock(u)
      PROVE  Intact(k, objects') \/ CopyOf(k)
  <2>1. File /\ step[u] = "copying"
    BY <1>3 DEF UploadInv, Files, WriteBlock
  <2>2. CASE Key(u) = k
    BY <2>1, <2>2 DEF CopyOf
  <2>3. CASE Key(u) # k
    BY <1>3, <2>3 DEF WriteBlock, Store, Intact
  <2> QED BY <2>2, <2>3
<1>4. ASSUME NEW q \in wire, CarryOut(q)
      PROVE  Intact(k, objects')
  BY <1>4, CarryOutKeeps
<1> QED BY <1>1, <1>2, <1>3, <1>4
        DEF Next, Upload, CopyDone, CreateVideo, VideoCreated, Put, PutDone, SendRequest,
            ReturnError, Lose, vars

-----------------------------------------------------------------------------
\* The shape of the state; the file adapter never reads past the end of its
\* file (file.go:54).
THEOREM UploadTypeCorrect == Spec => []TypeOK
<1>1. UploadInv => TypeOK
  BY DEF UploadInv, Settled
<1> QED BY <1>1, UploadInvariant, PTL

\* Under an address that Upload returned there is a complete file; for the
\* file adapter, if no other copy overlapped or followed (file.go:48-64,
\* bunny_storage.go:48-133, bunny_stream.go:42-104, s3.go:82-119).
THEOREM ReturnedCorrect == Spec => []ReturnedIsIntact
<1>1. ASSUME UploadInv PROVE ReturnedIsIntact
  <2> SUFFICES ASSUME NEW u \in Uploads, step[u] = "ok", Undisturbed(u)
               PROVE  Intact(Resolve(url[u]), objects)
    BY DEF ReturnedIsIntact
  <2>1. Resolve(url[u]) = Key(u)
    <3>1. prefix \in Seq(Names)
      <4>1. <<>> \in Seq(Names)
        OBVIOUS
      <4> QED BY <1>1, <4>1 DEF UploadInv, Settled, TypeOK
    <3> QED BY <1>1, <3>1, AddressResolves DEF UploadInv, Settled
  <2>2. Intact(Key(u), objects)
    <3>1. CASE File
      <4>1. Owner(u)
        BY <3>1 DEF Owner, Undisturbed
      <4> QED BY <1>1, <3>1, <4>1 DEF UploadInv, Files, Intact, Whole, Stored
    <3>2. CASE ~File
      BY <1>1, <3>2 DEF UploadInv, PutIsStored
    <3> QED BY <3>1, <3>2
  <2> QED BY <2>1, <2>2
<1>2. UploadInv => ReturnedIsIntact
  BY <1>1
<1> QED BY <1>2, UploadInvariant, PTL

\* Only a running copy of the file adapter destroys a complete object
\* (os.Create, file.go:48).
THEOREM IntactCorrect == Spec => IntactIsKept
<1>1. UploadInv /\ [Next]_vars =>
        [\A k \in DOMAIN objects : Intact(k, objects) => Intact(k, objects') \/ CopyOf(k)]_vars
  BY IntactStep
<1> QED BY <1>1, UploadInvariant, PTL DEF Spec, IntactIsKept

=============================================================================
