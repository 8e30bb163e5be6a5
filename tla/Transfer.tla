------------------------------ MODULE Transfer ------------------------------
(***************************************************************************)
(* How the content of a file travels: dfs_release compresses it into       *)
(* "<file>.tmp" and uploads that (release.c, zip.c), dfs_get_local_copy    *)
(* downloads and uncompresses it through the same name (file.c).           *)
(*                                                                         *)
(* FileCache has the handles, cells and locks; here one application at a   *)
(* time uses one file whose ".tmp" is not a file of the user, while other  *)
(* clients replace the object, any step fails and the mount is killed and  *)
(* started again, perhaps with other settings.  What zlib makes of a file  *)
(* and what the cipher makes of it are marks on the content.               *)
(***************************************************************************)
EXTENDS Naturals

CONSTANTS
    MaxVersion,   \* bound: contents written by anybody
    Faults,       \* operations that may fail
    NULL

Fault == {"head", "open", "fopen", "read", "unzip", "rename", "flush", "zip", "upload"}

(* Bytes: of which version, in what form, all of them or some.  "cipher"   *)
(* is encrypted, and whatever is made of that.                             *)
Content == [v : 0..MaxVersion, form : {"plain", "zip", "cipher"}, whole : BOOLEAN]

(* "lzma" stands for every method that is neither "none" nor "zlib".       *)
Method == {NULL, "none", "zlib", "lzma"}
Object == [data : Content, compression : Method]
Conf   == [compression_method : {"none", "zlib"}, encryption_method : {"none", "aes"}]

ASSUME TransferAssumption ==
    /\ MaxVersion \in Nat /\ Faults \subseteq Fault
    /\ NULL \notin Nat \cup Content \cup Object \cup {"none", "zlib", "lzma"}

VARIABLES
    object,   \* store: the object, with the metadata its upload gave it
    cache,    \* cache directory: "local" and "tmp" -> content
    fd,       \* the cell has a descriptor, of the file "local"
    conf,     \* compression_method and encryption_method of this mount
    pc,       \* where the handler is; "opened": the application has the file
    mode,     \* how the file is open: "MODE_RDONLY", "MODE_RDWR", "MODE_CREAT"
    mutex,    \* the cell's mutex is locked
    reply,    \* the object dpl_openread returned, until the file is written
    tosend,   \* dfs_release: the file it sends (fd_tosend)
    damaged,  \* history: "local" came from an object nobody can read as it
              \* is, or a rename or flush failed unnoticed
    version,  \* the last version anybody wrote
    written   \* the last version this mount's application wrote

files == <<object, cache>>
open  == <<mode, reply>>
vars  == <<object, cache, fd, conf, pc, mode, mutex, reply, tosend, damaged, version,
          written>>

Plain(v)    == [v |-> v, form |-> "plain", whole |-> TRUE]
Partial(c)  == [c EXCEPT !.whole = FALSE]
Zipped(c)   == [c EXCEPT !.form = IF @ = "cipher" THEN @ ELSE "zip"]
Unzipped(c) == [c EXCEPT !.form = IF @ = "cipher" THEN @ ELSE "plain"]

OpenPc    == {"headers", "discard", "create", "fetch", "compression", "unzip_open",
              "unzip", "rename", "flush", "reopen"}
ReleasePc == {"zip_open", "zip", "send", "cleanup"}

(* An object whose metadata say how its bytes are to be read: none is      *)
(* encrypted, and bytes are only missing where unzip notices it.           *)
Readable(o) ==
    /\ o.data.form # "cipher"
    /\ o.data.form = "zip" <=> o.compression \in {"zlib", "lzma"}
    /\ o.data.whole \/ o.data.form = "zip"

(* What other clients upload: their objects can be read.                   *)
Uploads(v) == {[data |-> IF m \in {"zlib", "lzma"} THEN Zipped(Plain(v)) ELSE Plain(v),
                compression |-> m] : m \in Method}

Init ==
    /\ object \in Uploads(0) /\ conf \in Conf
    /\ cache = [name \in {"local", "tmp"} |-> NULL]
    /\ fd = FALSE /\ pc = "closed" /\ mode = NULL /\ mutex = FALSE
    /\ reply = NULL /\ tosend = NULL /\ damaged = FALSE
    /\ version = 0 /\ written = NULL

Goto(s) == pc' = s
Put(name, c) == cache' = [cache EXCEPT ![name] = c]
Fails(f) == f \in Faults

(* The handler is done; open(2) has failed, or the file is closed.         *)
Closed == Goto("closed") /\ mode' = NULL /\ reply' = NULL /\ tosend' = NULL

OtherClient ==
    /\ version < MaxVersion /\ version' = version + 1
    /\ object' \in Uploads(version + 1)
    /\ UNCHANGED <<cache, fd, conf, pc, mode, mutex, reply, tosend, damaged, written>>

(* The process is killed and mounted again: descriptors and cells are      *)
(* gone, the cache directory stays.                                        *)
Crash ==
    /\ Closed /\ conf' \in Conf
    /\ fd' = FALSE /\ mutex' = FALSE /\ written' = NULL
    /\ UNCHANGED <<files, damaged, version>>

-----------------------------------------------------------------------------
(* dfs_open; open_existing takes the descriptor that is there.  An open    *)
(* that fails leaves the mutex locked.                                     *)
dfs_open(m) ==
    /\ pc = "closed" /\ mode' = m
    /\ \/ m = "MODE_RDONLY" /\ UNCHANGED mutex
       \/ m # "MODE_RDONLY" /\ ~mutex /\ mutex' = TRUE
    /\ Goto(CASE m = "MODE_CREAT" -> "creat" [] fd -> "opened" [] OTHER -> "headers")
    /\ UNCHANGED <<files, fd, conf, reply, tosend, damaged, version, written>>

(* The application gives the file a new content (O_TRUNC makes one too).   *)
NewContent ==
    /\ version < MaxVersion /\ version' = version + 1
    /\ written' = version + 1 /\ Put("local", Plain(version + 1))
    /\ reply' = NULL

open_creat ==
    /\ pc = "creat"
    /\ \/ /\ NewContent /\ fd' = TRUE /\ damaged' = FALSE
          /\ Goto("opened") /\ UNCHANGED <<mode, tosend>>
       \/ Fails("open") /\ Closed /\ UNCHANGED <<cache, fd, damaged, version, written>>
    /\ UNCHANGED <<object, conf, mutex>>

dfs_write ==
    /\ pc = "opened" /\ mode # "MODE_RDONLY" /\ NewContent
    /\ UNCHANGED <<object, fd, conf, pc, mode, mutex, tosend, damaged>>

-----------------------------------------------------------------------------
(* dfs_get_local_copy.  No descriptor is left from before: the digests are *)
(* not compared.                                                           *)
OpenStep(from) == pc = from /\ UNCHANGED <<object, conf, mutex, tosend, version, written>>

download_headers ==
    /\ OpenStep("headers")
    /\ \/ Goto("discard") /\ UNCHANGED open
       \/ Fails("head") /\ Closed
    /\ UNCHANGED <<cache, fd, damaged>>

copy_discard ==
    /\ OpenStep("discard") /\ Goto("create")
    /\ Put("local", NULL) /\ damaged' = FALSE
    /\ UNCHANGED <<fd, open>>

copy_create ==
    /\ OpenStep("create")
    /\ \/ Goto("fetch") /\ Put("local", Partial(object.data)) /\ UNCHANGED open
       \/ Fails("open") /\ Closed /\ UNCHANGED cache
    /\ UNCHANGED <<fd, damaged>>

(* dpl_openread gives the bytes with the metadata of the object it reads,  *)
(* which may be newer than the headers.  check_encryption_flag returns 0   *)
(* whatever the metadata say, so they come as they are stored.             *)
copy_fetch ==
    /\ OpenStep("fetch")
    /\ \/ /\ Goto("compression") /\ Put("local", object.data)
          /\ reply' = object /\ damaged' = ~Readable(object) /\ UNCHANGED mode
       \/ /\ Fails("read") /\ Closed /\ Put("local", Partial(object.data))
          /\ UNCHANGED damaged
    /\ UNCHANGED fd

(* Mutant: the method of the mount decides, not the one of the object.     *)
handle_compression_mutated ==
    /\ OpenStep("compression")
    /\ Goto(IF conf.compression_method = "zlib" THEN "unzip_open" ELSE "reopen")
    /\ UNCHANGED <<cache, fd, damaged, open>>

handle_compression ==
    /\ OpenStep("compression")
    /\ CASE reply.compression \in {NULL, "none"} -> Goto("reopen") /\ UNCHANGED open
         [] reply.compression = "zlib" -> Goto("unzip_open") /\ UNCHANGED open
         [] OTHER -> Closed
    /\ UNCHANGED <<cache, fd, damaged>>

(* fopen(uzlocal, "w") truncates what an earlier failure left there.       *)
unzip_open ==
    /\ OpenStep("unzip_open")
    /\ \/ Goto("unzip") /\ Put("tmp", Partial(Unzipped(cache["local"]))) /\ UNCHANGED open
       \/ Fails("fopen") /\ Closed /\ UNCHANGED cache
    /\ UNCHANGED <<fd, damaged>>

(* Bytes that are no deflate stream, or only part of one, do not pass; the *)
(* file that was begun stays.  The end of the output is still in stdio's   *)
(* buffer.                                                                 *)
unzip ==
    LET passes == cache["local"].form # "plain" /\ cache["local"].whole IN
    /\ OpenStep("unzip")
    /\ \/ passes /\ Goto("rename") /\ UNCHANGED open
       \/ /\ ~passes \/ cache["local"].form = "cipher" \/ Fails("unzip")
          /\ Closed
    /\ UNCHANGED <<cache, fd, damaged>>

(* When rename fails the result is 1, which the caller takes for success.  *)
copy_rename ==
    /\ OpenStep("rename")
    /\ \/ /\ Goto("flush") /\ UNCHANGED damaged
          /\ cache' = [cache EXCEPT !["local"] = cache["tmp"], !["tmp"] = NULL]
       \/ Fails("rename") /\ Goto("reopen") /\ damaged' = TRUE /\ UNCHANGED cache
    /\ UNCHANGED <<fd, open>>

(* fclose(fpdst) writes the rest, under the file's new name; its result is *)
(* ignored.  If the file could not be opened again before, open fails.     *)
copy_flush ==
    /\ OpenStep("flush")
    /\ \/ /\ Put("local", [cache["local"] EXCEPT !.whole = TRUE])
          /\ Goto("reopen") /\ UNCHANGED <<open, damaged>>
       \/ /\ Fails("flush") /\ UNCHANGED cache
          /\ Goto("reopen") /\ damaged' = TRUE /\ UNCHANGED open
       \/ /\ Fails("open") /\ Closed /\ UNCHANGED damaged
          /\ Put("local", [cache["local"] EXCEPT !.whole = TRUE])
    /\ UNCHANGED fd

copy_reopen ==
    /\ OpenStep("reopen")
    /\ \/ Goto("opened") /\ fd' = TRUE /\ UNCHANGED open
       \/ Fails("open") /\ Closed /\ UNCHANGED fd
    /\ UNCHANGED <<cache, damaged>>

-----------------------------------------------------------------------------
(* dfs_release, at whose end the mutex is unlocked.                        *)
ReleaseStep(from) ==
    /\ pc = from /\ mutex' = (mutex /\ from # "cleanup")
    /\ UNCHANGED <<fd, conf, damaged, version, written>>

dfs_release ==
    /\ ReleaseStep("opened")
    /\ \/ mode = "MODE_RDONLY" /\ Closed
       \/ /\ mode # "MODE_RDONLY" /\ UNCHANGED open
          /\ Goto(IF conf.compression_method = "zlib" THEN "zip_open" ELSE "send")
          /\ tosend' = "local"
    /\ UNCHANGED files

(* Mutant: fopen's result is not tested.                                   *)
zip_open_mutated ==
    /\ ReleaseStep("zip_open")
    /\ \/ Goto("zip") /\ Put("tmp", Partial(cache["local"]))
       \/ Fails("fopen") /\ Goto("zip") /\ UNCHANGED cache
    /\ UNCHANGED <<object, open, tosend>>

(* No source, no upload; no ".tmp", no compression.                        *)
zip_open ==
    /\ ReleaseStep("zip_open")
    /\ \/ Goto("zip") /\ Put("tmp", Partial(cache["local"]))
       \/ Fails("fopen") /\ pc' \in {"cleanup", "send"} /\ UNCHANGED cache
    /\ UNCHANGED <<object, open, tosend>>

(* Mutant: a compression that failed is sent all the same.                 *)
compress_before_sending_mutated ==
    /\ ReleaseStep("zip") /\ Goto("send") /\ tosend' = "tmp"
    /\ \/ Put("tmp", Zipped(cache["local"]))
       \/ Fails("zip") /\ UNCHANGED cache
    /\ UNCHANGED <<object, open>>

(* compress_before_sending.  The result of fflush is ignored.              *)
compress_before_sending ==
    LET zipped == Zipped(cache["local"]) IN
    /\ ReleaseStep("zip") /\ Goto("send")
    /\ \/ Put("tmp", zipped) /\ tosend' = "tmp"
       \/ Fails("flush") /\ Put("tmp", Partial(zipped)) /\ tosend' = "tmp"
       \/ Fails("zip") /\ UNCHANGED <<cache, tosend>>
    /\ UNCHANGED <<object, open>>

(* Mutant: a cell whose upload has failed loses its descriptor.            *)
release_send_mutated ==
    /\ pc = "send" /\ Goto("cleanup")
    /\ \/ /\ object' = [data |-> cache[tosend],
                         compression |-> IF tosend = "tmp" THEN "zlib" ELSE NULL]
          /\ UNCHANGED fd
       \/ Fails("upload") /\ fd' = FALSE /\ UNCHANGED object
    /\ UNCHANGED <<cache, conf, open, mutex, tosend, damaged, version, written>>

(* The upload replaces the object, or does not; when the answer of         *)
(* dpl_close is lost nobody can tell.                                      *)
release_send ==
    /\ ReleaseStep("send") /\ Goto("cleanup")
    /\ \/ object' = [data |-> [cache[tosend] EXCEPT
                                 !.form = IF conf.encryption_method = "aes"
                                          THEN "cipher" ELSE @],
                     compression |-> IF tosend = "tmp" THEN "zlib" ELSE NULL]
       \/ Fails("upload") /\ UNCHANGED object
    /\ UNCHANGED <<cache, open, tosend>>

(* Whatever has happened, ".tmp" is removed.                               *)
release_cleanup ==
    /\ ReleaseStep("cleanup") /\ Closed
    /\ IF conf.compression_method = "zlib" THEN Put("tmp", NULL) ELSE UNCHANGED cache
    /\ UNCHANGED object

-----------------------------------------------------------------------------
Open ==
    \/ \E m \in {"MODE_RDONLY", "MODE_RDWR", "MODE_CREAT"} : dfs_open(m)
    \/ open_creat \/ download_headers \/ copy_discard \/ copy_create \/ copy_fetch
    \/ handle_compression \/ unzip_open \/ unzip \/ copy_rename \/ copy_flush
    \/ copy_reopen

Release ==
    dfs_release \/ zip_open \/ compress_before_sending \/ release_send \/ release_cleanup

Next == OtherClient \/ Crash \/ Open \/ dfs_write \/ Release

Spec == Init /\ [][Next]_vars

-----------------------------------------------------------------------------
(* The types; a file that a step reads by its descriptor is there.         *)
TypeOK ==
    /\ object \in Object /\ conf \in Conf /\ fd \in BOOLEAN
    /\ cache \in [{"local", "tmp"} -> Content \cup {NULL}]
    /\ pc \in {"closed", "creat", "opened"} \cup OpenPc \cup ReleasePc
    /\ mode \in {NULL, "MODE_RDONLY", "MODE_RDWR", "MODE_CREAT"}
    /\ reply \in Object \cup {NULL} /\ damaged \in BOOLEAN
    /\ tosend \in {NULL, "local", "tmp"}
    /\ version \in 0..MaxVersion /\ written \in 0..version \cup {NULL}
    /\ mutex \in BOOLEAN /\ (pc \in ReleasePc => mutex)
    /\ fd => cache["local"] # NULL
    /\ pc \in {"zip", "unzip", "rename"} => cache["tmp"] # NULL
    /\ pc = "send" => cache[tosend] # NULL

(* file.c, handle_compression: an open that had to download gives the      *)
(* application the whole content that was uploaded, whoever uploaded it,   *)
(* with whatever compression, and whatever a failed open or a killed mount *)
(* has left in the cache directory; or it fails.  Two failures go          *)
(* unnoticed, of the rename and of the last flush, and encrypted objects   *)
(* are served as they are stored.                                          *)
RoundTrip ==
    pc = "opened" /\ reply # NULL /\ ~damaged => cache["local"] = Plain(reply.data.v)

(* release.c: an upload without encryption, compressed or not, complete or *)
(* not, leaves an object that a later open does not take for something     *)
(* else.                                                                   *)
UploadsReadable ==
    [][object' # object /\ ~damaged /\ conf.encryption_method = "none"
       => Readable(object')]_vars

(* release.c:205, open.c:157: until the mount ends the application reads   *)
(* what it wrote last, although its upload has failed or another client    *)
(* has replaced the object.                                                *)
UnsentKept == pc = "opened" /\ written # NULL => cache["local"] = Plain(written)
=============================================================================
