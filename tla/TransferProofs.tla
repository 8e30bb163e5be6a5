--------------------------- MODULE TransferProofs ---------------------------
(***************************************************************************)
(* Proofs about Transfer, for any number of versions and any set of        *)
(* operations that fail.  One invariant, Travel, says where the bytes of   *)
(* the file are at every pc; the type, the two invariants and the action   *)
(* property of the run all follow from it.                                 *)
(***************************************************************************)
EXTENDS Transfer, TLAPS

local == cache["local"]
tmp   == cache["tmp"]

(* Types, without what TypeOK says of the steps.                           *)
Types ==
    /\ object \in Object /\ conf \in Conf /\ fd \in BOOLEAN
    /\ cache \in [{"local", "tmp"} -> Content \cup {NULL}]
    /\ pc \in {"closed", "creat", "opened"} \cup OpenPc \cup ReleasePc
    /\ mode \in {NULL, "MODE_RDONLY", "MODE_RDWR", "MODE_CREAT"}
    /\ reply \in Object \cup {NULL} /\ damaged \in BOOLEAN
    /\ tosend \in {NULL, "local", "tmp"}
    /\ version \in 0..MaxVersion /\ written \in 0..version \cup {NULL}
    /\ mutex \in BOOLEAN

(* The descriptor: none while the copy is made, one from then on; the      *)
(* mutex from the open for writing to the end of the release.              *)
Descriptor ==
    /\ pc \in OpenPc => ~fd
    /\ pc \in {"opened"} \cup ReleasePc => fd
    /\ fd => local # NULL
    /\ pc # "closed" /\ mode # "MODE_RDONLY" => mutex
    /\ pc \in ReleasePc => mutex /\ mode # "MODE_RDONLY"

(* An object was read in this open, and these are its bytes.               *)
Fetched ==
    /\ reply # NULL /\ local = reply.data
    /\ damaged <=> ~Readable(reply)

(* The copy on its way: compressed bytes, the ".tmp" without its end, then *)
(* the same under the file's name.                                         *)
Download ==
    /\ pc \in {"closed", "creat", "headers", "discard", "create", "fetch"} => reply = NULL
    /\ pc \in {"compression", "unzip_open", "unzip", "rename"} => Fetched
    /\ pc \in {"unzip_open", "unzip", "rename", "flush"} => reply.compression = "zlib"
    /\ pc \in {"unzip", "rename"} => tmp = Partial(Unzipped(reply.data))
    /\ pc \in {"rename", "flush"} => reply.data.whole
    /\ pc = "flush" => /\ reply # NULL /\ local = Partial(Unzipped(reply.data))
                       /\ damaged <=> ~Readable(reply)
    /\ pc = "reopen" => reply # NULL /\ local # NULL
    /\ pc \in {"reopen", "opened"} /\ reply # NULL /\ ~damaged
         => local = Plain(reply.data.v)

(* What a descriptor gives to read is plain and whole, or damaged; what    *)
(* this mount's application wrote is there as long as the cell is.         *)
Local ==
    /\ fd /\ ~damaged => local.form = "plain" /\ local.whole
    /\ written # NULL => fd /\ local = Plain(written)

(* What dfs_release is about to send.                                      *)
Upload ==
    /\ pc \in ReleasePc => tosend \in {"local", "tmp"}
    /\ pc \in {"zip_open", "zip"} => tosend = "local"
    /\ pc = "zip" => tmp # NULL
    /\ pc = "send" /\ tosend = "tmp" =>
         tmp # NULL /\ tmp.form = Zipped(local).form

Travel == Types /\ Descriptor /\ Download /\ Local /\ Upload

(* Names for sets of program counters are always unfolded.                 *)
USE DEF OpenPc, ReleasePc, local, tmp, files, open, Goto, Put, Fails

-----------------------------------------------------------------------------
(* What the operators on contents return, field by field.                  *)
LEMMA PlainFields ==
  ASSUME NEW v \in 0..MaxVersion
  PROVE  /\ Plain(v) \in Content /\ Plain(v) # NULL
         /\ Plain(v).v = v /\ Plain(v).form = "plain" /\ Plain(v).whole = TRUE
  <1>1. Plain(v) \in Content
    BY DEF Plain, Content
  <1> QED BY <1>1, TransferAssumption DEF Plain

(* Losing the end of a file, compressing and uncompressing it leave it a   *)
(* content, and change one mark each.                                      *)
LEMMA ContentFields ==
  ASSUME NEW c \in Content
  PROVE  /\ c # NULL
         /\ Partial(c) \in Content /\ Partial(c) # NULL
         /\ Partial(c).v = c.v /\ Partial(c).form = c.form /\ Partial(c).whole = FALSE
         /\ Zipped(c) \in Content /\ Zipped(c) # NULL
         /\ Zipped(c).v = c.v /\ Zipped(c).whole = c.whole
         /\ Zipped(c).form = IF c.form = "cipher" THEN "cipher" ELSE "zip"
         /\ Unzipped(c) \in Content
         /\ Unzipped(c).v = c.v /\ Unzipped(c).whole = c.whole
         /\ Unzipped(c).form = IF c.form = "cipher" THEN "cipher" ELSE "plain"
         /\ [c EXCEPT !.whole = TRUE] \in Content
         /\ [c EXCEPT !.whole = TRUE].v = c.v
         /\ [c EXCEPT !.whole = TRUE].form = c.form
         /\ [c EXCEPT !.whole = TRUE].whole = TRUE
  BY TransferAssumption DEF Partial, Zipped, Unzipped, Content

(* A content that is plain and whole is Plain of its version.              *)
LEMMA PlainWhole ==
  ASSUME NEW c \in Content, c.form = "plain", c.whole = TRUE
  PROVE  c = Plain(c.v)
  BY DEF Content, Plain

(* What other clients upload are objects, and can be read.                 *)
LEMMA UploadsFields ==
  ASSUME NEW v \in 0..MaxVersion, NEW o \in Uploads(v)
  PROVE  o \in Object /\ o # NULL /\ Readable(o)
  <1>1. PICK m \in Method :
          o = [data |-> IF m \in {"zlib", "lzma"} THEN Zipped(Plain(v)) ELSE Plain(v),
               compression |-> m]
    BY DEF Uploads
  <1>2. o \in Object
    BY <1>1, PlainFields, ContentFields DEF Object
  <1>3. Readable(o)
    BY <1>1, PlainFields, ContentFields, TransferAssumption DEF Readable, Method
  <1> QED BY <1>2, <1>3, TransferAssumption

(* The copy that was downloaded without compression, and the one that was  *)
(* uncompressed: what an object that can be read says of its bytes.        *)
LEMMA ReadableFields ==
  ASSUME NEW o \in Object, Readable(o)
  PROVE  /\ o.compression \in {NULL, "none"} => o.data = Plain(o.data.v)
         /\ o.compression = "zlib" =>
              [Partial(Unzipped(o.data)) EXCEPT !.whole = TRUE] = Plain(o.data.v)
  <1>1. o.data \in Content /\ o.compression \in Method
    BY DEF Object
  <1>2. CASE o.compression \in {NULL, "none"}
    <2>1. o.data.form = "plain" /\ o.data.whole
      BY <1>1, <1>2, TransferAssumption DEF Readable, Content
    <2> QED BY <1>1, <1>2, <2>1, PlainWhole, TransferAssumption
  <1>3. CASE o.compression = "zlib"
    <2>1. o.data.form = "zip"
      BY <1>1, <1>3 DEF Readable, Content
    <2> DEFINE u == Unzipped(o.data)
               q == [Partial(u) EXCEPT !.whole = TRUE]
    <2>2. u \in Content /\ u.form = "plain" /\ u.v = o.data.v
      BY <1>1, <2>1, ContentFields
    <2>3. Partial(u) \in Content /\ Partial(u).form = "plain" /\ Partial(u).v = o.data.v
      BY <2>2, ContentFields
    <2>4. q \in Content /\ q.form = "plain" /\ q.whole = TRUE /\ q.v = o.data.v
      BY <2>3, ContentFields
    <2> QED BY <1>3, <2>4, PlainWhole, TransferAssumption
  <1> QED BY <1>1, <1>2, <1>3

-----------------------------------------------------------------------------
(* The invariant at the start of a mount.                                  *)
LEMMA TravelInit == Init => Travel
  <1> SUFFICES ASSUME Init PROVE Travel
    OBVIOUS
  <1>1. object \in Object
    BY UploadsFields, TransferAssumption DEF Init
  <1>2. Types
    <2>1. cache \in [{"local", "tmp"} -> Content \cup {NULL}]
      BY DEF Init
    <2>2. version \in 0..MaxVersion
      BY TransferAssumption DEF Init
    <2> QED BY <1>1, <2>1, <2>2 DEF Init, Types
  <1>3. Descriptor
    BY DEF Init, Descriptor
  <1>4. Download
    BY DEF Init, Download
  <1>5. Local
    BY DEF Init, Local
  <1>6. Upload
    BY DEF Init, Upload
  <1> QED BY <1>2, <1>3, <1>4, <1>5, <1>6 DEF Travel
-----------------------------------------------------------------------------
(* Every step keeps the invariant.                                         *)

(* A write to the cache directory: the one name, and not the other.        *)
LEMMA PutFields ==
  ASSUME Types, NEW name \in {"local", "tmp"}, NEW c \in Content \cup {NULL},
         Put(name, c)
  PROVE  /\ cache' \in [{"local", "tmp"} -> Content \cup {NULL}]
         /\ cache'[name] = c
         /\ name = "local" => tmp' = tmp
         /\ name = "tmp" => local' = local
  BY DEF Types

(* A new content of the file, by a write or by an open that creates it.    *)
LEMMA NewContentFields ==
  ASSUME Types, NewContent
  PROVE  /\ cache' \in [{"local", "tmp"} -> Content \cup {NULL}]
         /\ version' \in 0..MaxVersion /\ written' \in 0..version'
         /\ local' = Plain(written') /\ local' # NULL
         /\ local'.form = "plain" /\ local'.whole = TRUE
         /\ reply' = NULL
  <1>1. /\ version' \in 0..MaxVersion /\ written' = version' /\ reply' = NULL
        /\ Put("local", Plain(written'))
    BY TransferAssumption DEF NewContent, Types
  <1>2. Plain(written') \in Content /\ Plain(written') # NULL
    BY <1>1, PlainFields
  <1>3. cache' = [cache EXCEPT !["local"] = Plain(written')]
    BY <1>1
  <1>4. /\ cache' \in [{"local", "tmp"} -> Content \cup {NULL}]
        /\ local' = Plain(written')
    BY <1>2, <1>3 DEF Types
  <1>5. written' \in 0..version'
    BY <1>1, TransferAssumption
  <1> QED BY <1>1, <1>2, <1>4, <1>5, PlainFields

(* dfs_open, dfs_create and dfs_write, and what comes from outside.        *)
LEMMA OthersTravel ==
  ASSUME Travel,
         \/ OtherClient \/ Crash \/ open_creat \/ dfs_write
         \/ \E m \in {"MODE_RDONLY", "MODE_RDWR", "MODE_CREAT"} : dfs_open(m)
  PROVE  Travel'
  <1> USE DEF Travel, Types, Descriptor, Download, Fetched, Local, Upload
  <1>1. CASE OtherClient
    <2>1. object' \in Object /\ version' \in 0..MaxVersion /\ 0..version \subseteq 0..version'
      BY <1>1, UploadsFields, TransferAssumption DEF OtherClient
    <2> QED BY <1>1, <2>1 DEF OtherClient
  <1>2. CASE Crash
    BY <1>2 DEF Crash, Closed
  <1>3. CASE \E m \in {"MODE_RDONLY", "MODE_RDWR", "MODE_CREAT"} : dfs_open(m)
    <2>1. PICK m \in {"MODE_RDONLY", "MODE_RDWR", "MODE_CREAT"} : dfs_open(m)
      BY <1>3
    <2>2. /\ pc = "closed" /\ mode' = m /\ mutex' \in BOOLEAN
          /\ mode' # "MODE_RDONLY" => mutex'
          /\ UNCHANGED <<files, fd, conf, reply, tosend, damaged, version, written>>
      BY <2>1 DEF dfs_open
    <2>3. /\ pc' \in {"creat", "opened", "headers"}
          /\ pc' = "opened" => fd
          /\ pc' = "headers" => ~fd
      BY <2>1 DEF dfs_open
    <2> QED BY <2>2, <2>3
  <1>4. CASE open_creat
    <2>1. CASE NewContent
      <3>1. /\ pc' = "opened" /\ fd' = TRUE /\ damaged' = FALSE /\ pc = "creat"
            /\ UNCHANGED <<object, conf, mode, mutex, tosend>>
        BY <1>4, <2>1, NewContentFields, TransferAssumption DEF open_creat, Closed, NewContent
      <3> QED BY <2>1, <3>1, NewContentFields
    <2>2. CASE ~NewContent
      BY <1>4, <2>2 DEF open_creat, Closed
    <2> QED BY <2>1, <2>2
  <1>5. CASE dfs_write
    <2>1. NewContent /\ pc' = "opened" /\ pc = "opened"
      BY <1>5 DEF dfs_write
    <2>2. UNCHANGED <<object, fd, conf, mode, mutex, tosend, damaged>>
      BY <1>5 DEF dfs_write
    <2> QED BY <2>1, <2>2, NewContentFields
  <1> QED BY <1>1, <1>2, <1>3, <1>4, <1>5

(* The copy of the object, from the headers to the descriptor.             *)
LEMMA CopyTravel ==
  ASSUME Travel,
         \/ download_headers \/ copy_discard \/ copy_create \/ copy_fetch
         \/ handle_compression \/ unzip_open \/ unzip \/ copy_rename \/ copy_flush
         \/ copy_reopen
  PROVE  Travel'
  <1> USE DEF Travel, Types, Descriptor, Download, Fetched, Local, Upload, OpenStep, Closed
  <1>0. /\ object.data \in Content
        /\ reply # NULL => reply \in Object /\ reply.data \in Content
    BY DEF Object
  <1>1. CASE download_headers
    BY <1>1 DEF download_headers
  <1>2. CASE copy_discard
    BY <1>2 DEF copy_discard
  <1>3. CASE copy_create
    <2>1. CASE cache' = [cache EXCEPT !["local"] = Partial(object.data)]
      <3>1. /\ cache' \in [{"local", "tmp"} -> Content \cup {NULL}]
            /\ local' # NULL
        BY <1>0, <2>1, ContentFields
      <3> QED BY <1>3, <3>1 DEF copy_create
    <2>2. CASE UNCHANGED cache
      BY <1>3, <2>2 DEF copy_create
    <2> QED BY <1>3, <2>1, <2>2 DEF copy_create
  <1>4. CASE copy_fetch
    <2>1. CASE reply' = object
      <3>1. /\ cache' \in [{"local", "tmp"} -> Content \cup {NULL}]
            /\ local' = object.data
        BY <1>0, <1>4, <2>1, TransferAssumption DEF copy_fetch
      <3>2. pc' = "compression" /\ (damaged' <=> ~Readable(object)) /\ damaged' \in BOOLEAN
        BY <1>4, <2>1, TransferAssumption DEF copy_fetch
      <3> QED BY <1>4, <2>1, <3>1, <3>2, TransferAssumption DEF copy_fetch
    <2>2. CASE reply' # object
      <3>1. cache' = [cache EXCEPT !["local"] = Partial(object.data)]
        BY <1>4, <2>2 DEF copy_fetch
      <3>2. cache' \in [{"local", "tmp"} -> Content \cup {NULL}]
        BY <1>0, <3>1, ContentFields
      <3> QED BY <1>4, <2>2, <3>2 DEF copy_fetch
    <2> QED BY <2>1, <2>2
  <1>5. CASE handle_compression
    <2>1. CASE reply.compression \in {NULL, "none"}
      <3>1. pc = "compression" /\ pc' = "reopen"
            /\ UNCHANGED <<object, cache, fd, conf, mode, mutex, reply, tosend, damaged,
                           version, written>>
        BY <1>5, <2>1, TransferAssumption DEF handle_compression
      <3>2. reply # NULL /\ local # NULL /\ (~damaged => local = Plain(reply.data.v))
        BY <1>0, <2>1, <3>1, ReadableFields, ContentFields
      <3> QED BY <3>1, <3>2
    <2>2. CASE reply.compression \notin {NULL, "none"}
      BY <1>5, <2>2 DEF handle_compression
    <2> QED BY <2>1, <2>2
  <1>6. CASE unzip_open
    <2>1. CASE pc' = "unzip"
      <3>1. cache' = [cache EXCEPT !["tmp"] = Partial(Unzipped(reply.data))]
            /\ UNCHANGED open /\ pc = "unzip_open"
        BY <1>6, <2>1 DEF unzip_open
      <3>2. Partial(Unzipped(reply.data)) \in Content
        BY <1>0, <3>1, ContentFields
      <3>3. /\ cache' \in [{"local", "tmp"} -> Content \cup {NULL}]
            /\ local' = local /\ tmp' = Partial(Unzipped(reply.data))
        BY <3>1, <3>2
      <3> QED BY <1>6, <2>1, <3>1, <3>3 DEF unzip_open
    <2>2. CASE pc' # "unzip"
      BY <1>6, <2>2 DEF unzip_open
    <2> QED BY <2>1, <2>2
  <1>7. CASE unzip
    BY <1>7, <1>0 DEF unzip
  <1>8. CASE copy_rename
    <2>1. CASE pc' = "flush"
      <3>1. /\ cache' = [cache EXCEPT !["local"] = cache["tmp"], !["tmp"] = NULL]
            /\ UNCHANGED <<open, damaged>> /\ pc = "rename"
        BY <1>8, <2>1 DEF copy_rename
      <3>2. /\ cache' \in [{"local", "tmp"} -> Content \cup {NULL}]
            /\ local' = Partial(Unzipped(reply.data))
        BY <3>1
      <3> QED BY <1>8, <2>1, <3>1, <3>2 DEF copy_rename
    <2>2. CASE pc' # "flush"
      <3>1. local # NULL
        BY <1>0, <1>8, ContentFields DEF copy_rename
      <3> QED BY <1>8, <2>2, <3>1 DEF copy_rename
    <2> QED BY <2>1, <2>2
  <1>9. CASE copy_flush
    <2>1. /\ pc = "flush" /\ local \in Content /\ reply # NULL
          /\ local = Partial(Unzipped(reply.data))
      <3>1. pc = "flush" /\ reply # NULL /\ local = Partial(Unzipped(reply.data))
        BY <1>9 DEF copy_flush
      <3>2. Unzipped(reply.data) \in Content
        BY <1>0, <3>1, ContentFields
      <3>3. \A c \in Content : Partial(c) \in Content
        BY ContentFields
      <3> QED BY <3>1, <3>2, <3>3
    <2>2. CASE cache' = [cache EXCEPT !["local"] = [local EXCEPT !.whole = TRUE]]
      <3>1. /\ cache' \in [{"local", "tmp"} -> Content \cup {NULL}]
            /\ local' = [local EXCEPT !.whole = TRUE] /\ local' # NULL
        BY <2>1, <2>2, ContentFields, TransferAssumption
      <3>2. ~damaged => local' = Plain(reply.data.v)
        BY <1>0, <2>1, <3>1, ReadableFields
      <3> QED BY <1>9, <3>1, <3>2 DEF copy_flush
    <2>3. CASE cache' # [cache EXCEPT !["local"] = [local EXCEPT !.whole = TRUE]]
      <3>1. /\ pc' = "reopen" /\ damaged' = TRUE
            /\ UNCHANGED <<object, cache, fd, conf, mode, mutex, reply, tosend, version,
                           written>>
        BY <1>9, <2>3 DEF copy_flush
      <3> QED BY <2>1, <3>1, TransferAssumption
    <2> QED BY <2>2, <2>3
  <1>10. CASE copy_reopen
    <2>1. CASE pc' = "opened"
      <3>1. reply # NULL /\ local # NULL /\ ~fd /\ written = NULL
        BY <1>10 DEF copy_reopen
      <3>2. ~damaged => local.form = "plain" /\ local.whole = TRUE
        <4>1. reply.data.v \in 0..MaxVersion
          BY <1>0, <3>1 DEF Content
        <4> QED BY <1>10, <3>1, <4>1, PlainFields DEF copy_reopen
      <3> QED BY <1>10, <2>1, <3>1, <3>2 DEF copy_reopen
    <2>2. CASE pc' # "opened"
      BY <1>10, <2>2 DEF copy_reopen
    <2> QED BY <2>1, <2>2
  <1> QED BY <1>1, <1>2, <1>3, <1>4, <1>5, <1>6, <1>7, <1>8, <1>9, <1>10

(* dfs_release: nothing is written to the file the application had open.   *)
LEMMA ReleaseTravel ==
  ASSUME Travel, Release
  PROVE  Travel'
  <1> USE DEF Travel, Types, Descriptor, Download, Fetched, Local, Upload, ReleaseStep,
          Closed
  <1>0. pc \in {"opened"} \cup ReleasePc => local \in Content /\ fd
    OBVIOUS
  <1>1. CASE dfs_release
    BY <1>1 DEF dfs_release
  <1>2. CASE zip_open
    <2>1. CASE cache' = [cache EXCEPT !["tmp"] = Partial(local)] /\ pc' = "zip"
      <3>1. /\ cache' \in [{"local", "tmp"} -> Content \cup {NULL}]
            /\ local' = local /\ tmp' # NULL
        BY <1>0, <1>2, <2>1, ContentFields DEF zip_open
      <3> QED BY <1>2, <2>1, <3>1 DEF zip_open
    <2>2. CASE UNCHANGED cache /\ pc' \in {"cleanup", "send"}
      BY <1>2, <2>2 DEF zip_open
    <2> QED BY <1>2, <2>1, <2>2 DEF zip_open
  <1>3. CASE compress_before_sending
    <2>1. ASSUME NEW c \in {Zipped(local), Partial(Zipped(local))},
                 Put("tmp", c), tosend' = "tmp"
          PROVE  Travel'
      <3>1. c \in Content /\ c # NULL /\ c.form = Zipped(local).form
        <4>1. Zipped(local) \in Content
          BY <1>0, <1>3, ContentFields DEF compress_before_sending
        <4>2. \A z \in Content : /\ Partial(z) \in Content /\ Partial(z).form = z.form
                                 /\ z # NULL
          BY ContentFields
        <4> QED BY <2>1, <4>1, <4>2
      <3>2. /\ cache' \in [{"local", "tmp"} -> Content \cup {NULL}]
            /\ local' = local /\ tmp' = c
        BY <2>1, <3>1
      <3> QED BY <1>3, <2>1, <3>1, <3>2 DEF compress_before_sending
    <2>2. CASE UNCHANGED <<cache, tosend>>
      BY <1>3, <2>2 DEF compress_before_sending
    <2> QED BY <1>3, <2>1, <2>2 DEF compress_before_sending
  <1>4. CASE release_send
    <2>1. cache[tosend] \in Content
      BY <1>0, <1>4 DEF release_send
    <2>2. object' \in Object
      BY <1>4, <2>1 DEF release_send, Object, Content, Method
    <2> QED BY <1>4, <2>2 DEF release_send
  <1>5. CASE release_cleanup
    BY <1>5 DEF release_cleanup
  <1> QED BY <1>1, <1>2, <1>3, <1>4, <1>5 DEF Release

(* Every step of the specification.                                        *)
LEMMA TravelStep == Travel /\ [Next]_vars => Travel'
  <1> SUFFICES ASSUME Travel, [Next]_vars PROVE Travel'
    OBVIOUS
  <1>1. CASE Next
    BY <1>1, OthersTravel, CopyTravel, ReleaseTravel DEF Next, Open
  <1>2. CASE UNCHANGED vars
    BY <1>2 DEF vars, Travel, Types, Descriptor, Download, Fetched, Local, Upload
  <1> QED BY <1>1, <1>2

-----------------------------------------------------------------------------
(* The invariant holds: at every pc of dfs_get_local_copy and dfs_release  *)
(* the two files hold what Travel says.                                    *)
THEOREM Travels == Spec => []Travel
  BY TravelInit, TravelStep, PTL DEF Spec

(* The types, and that a file which zip.c and dfs_release read by its      *)
(* descriptor is there.                                                    *)
THEOREM TypeCorrect == Spec => []TypeOK
  <1>1. Travel => TypeOK
    <2> SUFFICES ASSUME Travel PROVE TypeOK
      OBVIOUS
    <2>1. pc \in {"unzip", "rename"} => tmp # NULL
      <3> SUFFICES ASSUME pc \in {"unzip", "rename"} PROVE tmp # NULL
        OBVIOUS
      <3>1. reply \in Object /\ tmp = Partial(Unzipped(reply.data))
        BY DEF Travel, Types, Download, Fetched
      <3>2. Unzipped(reply.data) \in Content
        BY <3>1, ContentFields DEF Object
      <3>3. \A c \in Content : Partial(c) # NULL
        BY ContentFields
      <3> QED BY <3>1, <3>2, <3>3
    <2>2. pc = "send" => cache[tosend] # NULL
      BY DEF Travel, Descriptor, Upload
    <2>3. /\ pc = "zip" => tmp # NULL
          /\ pc \in ReleasePc => mutex
          /\ fd => local # NULL
      BY DEF Travel, Descriptor, Upload
    <2>4. Types
      BY DEF Travel
    <2> QED BY <2>1, <2>2, <2>3, <2>4 DEF TypeOK, Types
  <1> QED BY <1>1, Travels, PTL

(* file.c, handle_compression: an open that downloads gives the whole      *)
(* content that was uploaded, with whatever compression, whatever failed   *)
(* opens and killed mounts have left in the cache directory.               *)
THEOREM DownloadsRoundTrip == Spec => []RoundTrip
  <1>1. Travel => RoundTrip
    BY DEF Travel, Download, RoundTrip
  <1> QED BY <1>1, Travels, PTL

(* release.c:205, open.c:157: the application reads what it wrote last,    *)
(* although the upload failed or another client has replaced the object.   *)
THEOREM WrittenThere == Spec => []UnsentKept
  <1>1. Travel => UnsentKept
    BY DEF Travel, Local, UnsentKept
  <1> QED BY <1>1, Travels, PTL

(* What dfs_release uploads, compressed or not, can be read back.          *)
LEMMA SendReadable ==
  ASSUME Travel, release_send, object' # object, ~damaged,
         conf.encryption_method = "none"
  PROVE  Readable(object')
  <1>1. /\ object'.data = cache[tosend]
        /\ object'.compression = IF tosend = "tmp" THEN "zlib" ELSE NULL
        /\ pc = "send" /\ tosend \in {"local", "tmp"}
    <2>1. cache[tosend] \in Content /\ pc = "send" /\ tosend \in {"local", "tmp"}
      BY DEF Travel, Types, Descriptor, Upload, release_send, ReleaseStep
    <2> QED BY <2>1 DEF release_send, ReleaseStep, Content
  <1>2. local \in Content /\ local.form = "plain" /\ local.whole
    BY <1>1 DEF Travel, Types, Descriptor, Local
  <1>3. CASE tosend = "local"
    BY <1>1, <1>2, <1>3, TransferAssumption DEF Readable
  <1>4. CASE tosend = "tmp"
    <2>1. tmp.form = "zip"
      BY <1>1, <1>2, <1>4, ContentFields DEF Travel, Upload
    <2> QED BY <1>1, <1>4, <2>1 DEF Readable
  <1> QED BY <1>1, <1>3, <1>4

(* release.c: an upload without encryption, whatever failed before it,     *)
(* leaves an object that a later open does not take for something else.    *)
THEOREM SentReadable == Spec => UploadsReadable
  <1>1. Travel /\ [Next]_vars =>
          [object' # object /\ ~damaged /\ conf.encryption_method = "none"
             => Readable(object')]_vars
    <2> SUFFICES ASSUME Travel, Next, object' # object, ~damaged,
                        conf.encryption_method = "none"
                 PROVE  Readable(object')
      BY DEF vars
    <2>1. CASE OtherClient
      BY <2>1, UploadsFields, TransferAssumption DEF OtherClient, Travel, Types
    <2>2. CASE release_send
      BY <2>2, SendReadable
    <2>3. CASE ~OtherClient /\ ~release_send
      BY <2>3 DEF Next, Open, Release, Crash, OpenStep, ReleaseStep, dfs_open, open_creat,
           dfs_write, download_headers, copy_discard, copy_create, copy_fetch,
           handle_compression, unzip_open, unzip, copy_rename, copy_flush, copy_reopen,
           dfs_release, zip_open, compress_before_sending, release_cleanup
    <2> QED BY <2>1, <2>2, <2>3
  <1> QED BY <1>1, Travels, PTL DEF Spec, UploadsReadable
=============================================================================
