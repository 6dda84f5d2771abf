----------------------- MODULE PublishAdaptersProofs ------------------------
(***************************************************************************)
(* The adapters make their calls once and succeed only with everything     *)
(* done, for any workers, media, bounds and scopes.                        *)
(*                                                                         *)
(* What an operation says of the provider is true of every copy of it, in  *)
(* the row and in the memories of workers (Evident); nothing the provider  *)
(* has done is undone.  A creating call is made by whoever has written the *)
(* intent over the operation before it, once, because an operation is      *)
(* never taken back to nothing (CreateInv), and never from the post back   *)
(* to the upload (WallInv).  For media_publish that takes leases that have *)
(* not lapsed under a worker (CalmInv).                                    *)
(*                                                                         *)
(* Without an excuse nobody meets an intent, an upload has its session,    *)
(* and a retry that counts is a fault that has been counted (Reasons).     *)
(*                                                                         *)
(* A container that was published, or is about to be, has been processed   *)
(* (OrderInv): with it, every step is one of PublishInOrder or none.       *)
(***************************************************************************)
EXTENDS PublishAdaptersProperties, TLAPS

Typed ==
  /\ open \in Scopes /\ job \in JobRow /\ op \in Operation
  /\ resume \in 0 .. MaxUrls /\ worker \in [Worker -> WorkerRow]
  /\ calls \in [Intent -> 0 .. 2] /\ stored \in 0 .. Size
  /\ ready \in {"none", "processing", "done", "rejected"}
  /\ urls \in 0 .. MaxUrls /\ live \subseteq 1 .. urls
  /\ faults \in 0 .. MaxFaults /\ stalled \in BOOLEAN /\ blamed \in BOOLEAN

(* The phases of an operation on this platform.                            *)
Mine ==
  CASE "INSTAGRAM" \in open ->
         {"none", "create", "container", "dispatch", "media"}
    [] "YOUTUBE" \in open -> {"none", "init", "session", "video"}
    [] "VK" \in open -> {"none", "save", "upload", "video", "wall", "posted"}

Late == {"video", "wall", "posted"}
Uploading == {"query", "send", "expired", "refreshed", "uploaded"}

(* What an operation in phase p says of the provider.                      *)
Evident(p) ==
  /\ p \in Mine
  /\ p \notin {"none", Creation} => calls[Creation] > 0
  /\ p = "media" => calls["dispatch"] > 0
  /\ p \in Late => stored = Size
  /\ p = "posted" => calls["wall"] > 0
  /\ p \in {"wall", "posted"} => "wall" \in open

(* Everything that was to be published is there.                           *)
Whole ==
  /\ calls[Creation] > 0
  /\ "INSTAGRAM" \in open => calls["dispatch"] > 0
  /\ "INSTAGRAM" \notin open => stored = Size
  /\ "wall" \in open => calls["wall"] > 0

RowOK(r) ==
  /\ Evident(r.op.phase) /\ Evident(r.out.phase)
  /\ r.op # NoOp => op # NoOp
  /\ r.pc = "idle" => r.op = NoOp
  /\ r.pc \in {"call", "answered"} => r.op.phase \in Intent
  /\ r.pc = "answered" => calls[r.op.phase] > 0
  /\ r.pc = "intend" => r.op.phase = "container"
  /\ r.pc \in Uploading =>
       /\ r.op.phase \notin Late /\ "INSTAGRAM" \notin open
       /\ calls[Creation] > 0
  /\ r.pc = "uploaded" => stored = Size
  /\ r.pc \in {"expired", "refreshed"} => "VK" \in open
  /\ r.op.phase \in Late /\ "wall" \in open =>
       r.out.phase \in {"none", "posted"}
  /\ r.out.phase \in {"wall", "posted"} => r.op.phase \in Late
  /\ r.out.phase = "none" => r.out = NoOp
  /\ r.kind = "success" => Whole

RowInv ==
  /\ \A w \in Worker : RowOK(worker[w])
  /\ Evident(op.phase)
  /\ job.status = "SUCCEEDED" => Whole
  /\ \A c \in Intent : calls[c] > 0 => c \in Mine
  /\ calls["wall"] > 0 => "wall" \in open

CreateInv ==
  /\ calls[Creation] <= 1
  /\ op = NoOp => calls[Creation] = 0
  /\ \A w \in Worker : At(w, "call") /\ worker[w].op.phase = Creation =>
       calls[Creation] = 0
  /\ \A w, v \in Worker :
       /\ At(w, "call") /\ worker[w].op.phase = Creation
       /\ At(v, "call") /\ worker[v].op.phase = Creation
       => w = v

(* An owner has claimed the job later than the others, and knows of the    *)
(* post if any of them does.                                               *)
WallInv ==
  "wall" \in open =>
    /\ \/ \E v \in Worker : worker[v].op.phase \in Late
       \/ op.phase \in {"wall", "posted"}
       => /\ op.phase \in Late
          /\ \A w \in Worker : Owns(w) /\ ~At(w, "idle") =>
               worker[w].op.phase \in Late
    /\ calls["wall"] <= 1
    /\ calls["wall"] > 0 => op.phase \in {"wall", "posted"}
    /\ \A w \in Worker : At(w, "call") /\ worker[w].op.phase = "wall" =>
         op.phase = "wall" /\ calls["wall"] = 0
    /\ \A w, v \in Worker :
         /\ At(w, "call") /\ worker[w].op.phase = "wall"
         /\ At(v, "call") /\ worker[v].op.phase = "wall"
         => w = v

UploadPhase == IF "VK" \in open THEN "upload" ELSE "session"

(* What a worker with a lease may rely on.                                 *)
CalmRow(r) ==
  /\ r.pc \in {"begin", "intend", "call", "answered"} => r.op = op
  /\ r.pc \in {"call", "answered"} => resume = 0
  /\ r.pc \in {"query", "send"} => op = Upload(UploadPhase, r.url)
  /\ r.pc = "finish" =>
       \/ r.out \in {NoOp, op}
       \/ r.out = Op("media") /\ op.phase = "dispatch" /\ resume = 0

CalmInv ==
  ~stalled =>
    /\ \A w \in Worker : ~At(w, "idle") =>
         Owns(w) /\ job.lease /\ CalmRow(worker[w])
    /\ resume # 0 => op.url = resume
    /\ calls["dispatch"] <= 1
    /\ calls["dispatch"] > 0 => op.phase \in {"dispatch", "media"}
    /\ \A w \in Worker : At(w, "call") /\ worker[w].op.phase = "dispatch" =>
         calls["dispatch"] = 0

Inv == Typed /\ RowInv /\ CreateInv /\ WallInv /\ CalmInv

-----------------------------------------------------------------------------
(* Platforms and rows.                                                     *)

LEMMA Platforms ==
  ASSUME Typed
  PROVE \/ /\ "INSTAGRAM" \in open /\ "YOUTUBE" \notin open
           /\ "VK" \notin open /\ "wall" \notin open
           /\ Mine = {"none", "create", "container", "dispatch", "media"}
           /\ Creation = "create"
        \/ /\ "INSTAGRAM" \notin open /\ "YOUTUBE" \in open
           /\ "VK" \notin open /\ "wall" \notin open
           /\ Mine = {"none", "init", "session", "video"}
           /\ Creation = "init"
        \/ /\ "INSTAGRAM" \notin open /\ "YOUTUBE" \notin open
           /\ "VK" \in open
           /\ Mine = {"none", "save", "upload", "video", "wall", "posted"}
           /\ Creation = "save"
  <1>1. /\ \E p \in Platform : open \cap Platform = {p}
        /\ "wall" \in open => "VK" \in open
    BY AdaptersAssumption DEF Typed
  <1>2. PICK p \in Platform : open \cap Platform = {p}
    BY <1>1
  <1>3. /\ "INSTAGRAM" \in Platform /\ "YOUTUBE" \in Platform
        /\ "VK" \in Platform
    BY DEF Platform
  <1>4. /\ "INSTAGRAM" \in open <=> p = "INSTAGRAM"
        /\ "YOUTUBE" \in open <=> p = "YOUTUBE"
        /\ "VK" \in open <=> p = "VK"
    BY <1>2, <1>3
  <1>5. CASE p = "INSTAGRAM"
    BY <1>1, <1>4, <1>5 DEF Mine, Creation
  <1>6. CASE p = "YOUTUBE"
    BY <1>1, <1>4, <1>6 DEF Mine, Creation
  <1>7. CASE p = "VK"
    BY <1>1, <1>4, <1>7 DEF Mine, Creation
  <1>8. QED
    BY <1>5, <1>6, <1>7 DEF Platform

(* The platform of a behaviour does not change.                            *)
LEMMA SamePlatform ==
  ASSUME open' = open
  PROVE Mine' = Mine /\ Creation' = Creation /\ UploadPhase' = UploadPhase
  BY DEF Mine, Creation, UploadPhase

LEMMA Operations ==
  /\ NoOp \in Operation /\ NoOp.phase = "none" /\ NoOp.url = 0
  /\ \A p \in Phase : /\ Op(p) \in Operation /\ Op(p).phase = p
                      /\ Op(p).url = 0
  /\ \A p \in Phase : \A u \in 0 .. MaxUrls :
       /\ Upload(p, u) \in Operation /\ Upload(p, u).phase = p
       /\ Upload(p, u).url = u
  <1>1. 0 \in 0 .. MaxUrls
    BY AdaptersAssumption
  <1>2. "none" \in Phase
    BY DEF Phase
  <1>3. QED
    BY <1>1, <1>2 DEF Operation, NoOp, Op, Upload

LEMMA IdleTyped == Idle \in WorkerRow /\ Idle.op = NoOp /\ Idle.out = NoOp
                   /\ Idle.pc = "idle" /\ Idle.kind = "none"
  <1>1. 0 \in 0 .. MaxUrls /\ 0 \in 0 .. Size
    BY AdaptersAssumption
  <1>2. QED
    BY <1>1, Operations DEF Idle, WorkerRow

Kinds == {"none", "success", "pending", "retryable", "auth", "permanent"}
Places == {"idle", "begin", "intend", "call", "answered", "query", "send",
           "expired", "refreshed", "uploaded", "finish"}

LEMMA EndsRow ==
  ASSUME Typed, NEW w \in Worker, NEW kind \in Kinds, NEW out \in Operation,
         Ends(w, kind, out)
  PROVE /\ worker' \in [Worker -> WorkerRow]
        /\ \A v \in Worker : v # w => worker'[v] = worker[v]
        /\ worker'[w].pc = "finish" /\ worker'[w].kind = kind
        /\ worker'[w].out = out /\ worker'[w].op = worker[w].op
  <1> DEFINE row == [worker[w] EXCEPT !.pc = "finish", !.kind = kind,
                                      !.out = out]
  <1>1. worker[w] \in WorkerRow
    BY DEF Typed
  <1>2. row \in WorkerRow
    BY <1>1 DEF WorkerRow, Kinds
  <1>3. /\ row.pc = "finish" /\ row.kind = kind /\ row.out = out
        /\ row.op = worker[w].op
    BY <1>1 DEF WorkerRow
  <1> HIDE DEF row
  <1>4. worker' = [worker EXCEPT ![w] = row]
    BY DEF Ends, Step, row
  <1>5. QED
    BY <1>2, <1>3, <1>4 DEF Typed

(* A step that leaves the operation of the request and its result.         *)
Moved(w, pc, url, next) ==
  [worker[w] EXCEPT !.pc = pc, !.url = url, !.next = next]

LEMMA MovesRow ==
  ASSUME Typed, NEW w \in Worker, NEW pc \in Places,
         NEW url \in 0 .. MaxUrls, NEW next \in 0 .. Size,
         Step(w, Moved(w, pc, url, next))
  PROVE /\ worker' \in [Worker -> WorkerRow]
        /\ \A v \in Worker : v # w => worker'[v] = worker[v]
        /\ worker'[w].pc = pc /\ worker'[w].kind = worker[w].kind
        /\ worker'[w].out = worker[w].out /\ worker'[w].op = worker[w].op
        /\ worker'[w].url = url
  <1> DEFINE row == Moved(w, pc, url, next)
  <1>1. worker[w] \in WorkerRow
    BY DEF Typed
  <1>2. row \in WorkerRow
    BY <1>1 DEF WorkerRow, Places, Moved
  <1>3. /\ row.pc = pc /\ row.kind = worker[w].kind
        /\ row.out = worker[w].out /\ row.op = worker[w].op
        /\ row.url = url
    BY <1>1 DEF WorkerRow, Moved
  <1> HIDE DEF row
  <1>4. worker' = [worker EXCEPT ![w] = row]
    BY DEF Step, row
  <1>5. QED
    BY <1>2, <1>3, <1>4 DEF Typed

(* The rest of a row when only its place changes, or its url.              *)
LEMMA SameRow ==
  ASSUME Typed, NEW w \in Worker, NEW pc \in Places, NEW url \in 0 .. MaxUrls
  PROVE /\ worker[w].url \in 0 .. MaxUrls /\ worker[w].next \in 0 .. Size
        /\ [worker[w] EXCEPT !.pc = pc] =
             [worker[w] EXCEPT !.pc = pc, !.url = worker[w].url,
                               !.next = worker[w].next]
        /\ [worker[w] EXCEPT !.pc = pc, !.url = url] =
             [worker[w] EXCEPT !.pc = pc, !.url = url,
                               !.next = worker[w].next]
  <1>1. worker[w] \in WorkerRow
    BY DEF Typed
  <1>2. QED
    BY <1>1 DEF WorkerRow

-----------------------------------------------------------------------------
(* Rows under a step.                                                      *)

(* What the provider has done is not undone, and an operation is not taken *)
(* back to nothing.                                                        *)
Grows ==
  /\ open' = open
  /\ \A c \in Intent : calls[c] > 0 => calls'[c] > 0
  /\ stored = Size => stored' = Size
  /\ op # NoOp => op' # NoOp

LEMMA CreationIsIntent == ASSUME Typed PROVE Creation \in Intent
  BY Platforms DEF Intent

LEMMA StillEvident ==
  ASSUME Typed, Grows
  PROVE /\ \A p \in Phase : Evident(p) => Evident(p)'
        /\ Whole => Whole'
  <1>1. Creation \in Intent /\ "dispatch" \in Intent /\ "wall" \in Intent
    BY CreationIsIntent DEF Intent
  <1>2. QED
    BY <1>1, SamePlatform DEF Grows, Evident, Whole

LEMMA OthersOK ==
  ASSUME Typed, RowInv, Grows, NEW w \in Worker,
         \A v \in Worker : v # w => worker'[v] = worker[v],
         RowOK(worker[w])'
  PROVE \A v \in Worker : RowOK(worker[v])'
  <1> SUFFICES ASSUME NEW v \in Worker, v # w PROVE RowOK(worker[v])'
    OBVIOUS
  <1>1. worker'[v] = worker[v] /\ RowOK(worker[v])
    BY DEF RowInv
  <1>2. /\ worker[v].op.phase \in Phase /\ worker[v].out.phase \in Phase
    BY DEF Typed, WorkerRow, Operation
  <1>3. Evident(worker[v].op.phase)' /\ Evident(worker[v].out.phase)'
    <2>1. Creation \in Intent /\ "dispatch" \in Intent /\ "wall" \in Intent
      BY CreationIsIntent DEF Intent
    <2>2. QED
      BY <1>1, <2>1, SamePlatform DEF RowOK, Grows, Evident
  <1>4. worker[v].kind = "success" => Whole'
    BY <1>1, StillEvident DEF RowOK
  <1>5. QED
    BY <1>1, <1>3, <1>4, CreationIsIntent, SamePlatform DEF RowOK, Grows

-----------------------------------------------------------------------------
(* A step inside of an execution: it writes neither the job nor the        *)
(* operation, and no call has been made.                                   *)

LEMMA Inside ==
  ASSUME Inv, Typed', NEW w \in Worker, ~At(w, "idle"),
         UNCHANGED <<open, job, op, resume, calls, stalled>>,
         stored = Size => stored' = Size,
         \A v \in Worker : v # w => worker'[v] = worker[v],
         worker'[w].op = worker[w].op, worker'[w].pc # "call",
         RowOK(worker[w])',
         ~stalled => CalmRow(worker[w])'
  PROVE Inv'
  <1>1. Typed /\ RowInv /\ CreateInv /\ WallInv /\ CalmInv
    BY DEF Inv
  <1>2. Grows
    BY DEF Grows
  <1>3. RowInv'
    <2>1. \A v \in Worker : RowOK(worker[v])'
      BY <1>1, <1>2, OthersOK
    <2>2. Evident(op.phase)'
      <3>1. op.phase \in Phase /\ Evident(op.phase)
        BY <1>1 DEF Typed, Operation, RowInv
      <3>2. QED
        BY <3>1, SamePlatform DEF Evident
    <2>3. Whole => Whole'
      BY <1>1, <1>2, StillEvident
    <2>4. QED
      BY <1>1, <2>1, <2>2, <2>3, SamePlatform DEF RowInv
  <1>4. CreateInv'
    BY <1>1, SamePlatform DEF CreateInv, At
  <1>5. WallInv'
    BY <1>1 DEF WallInv, At, Owns
  <1>6. CalmInv'
    <2> SUFFICES ASSUME ~stalled PROVE CalmInv'
      BY DEF CalmInv
    <2>1. \A v \in Worker : ~At(v, "idle") =>
            Owns(v) /\ job.lease /\ CalmRow(worker[v])
      BY <1>1 DEF CalmInv
    <2>2. \A v \in Worker : ~At(v, "idle")' => v = w
      BY <2>1 DEF Owns, At
    <2>3. Owns(w)' /\ job'.lease
      BY <2>1 DEF Owns
    <2>4. QED
      BY <1>1, <2>2, <2>3 DEF CalmInv, At
  <1>7. QED
    BY <1>3, <1>4, <1>5, <1>6 DEF Inv

(* It may end the execution ...                                            *)
LEMMA InsideEnds ==
  ASSUME Inv, NEW w \in Worker, ~At(w, "idle"),
         NEW kind \in Kinds, NEW out \in Operation, Ends(w, kind, out),
         UNCHANGED <<open, job, op, resume, calls, stalled>>,
         stored' \in 0 .. Size, stored = Size => stored' = Size,
         ready' \in {"none", "processing", "done", "rejected"},
         UNCHANGED <<urls, live>>,
         faults' \in 0 .. MaxFaults, blamed' \in BOOLEAN,
         Evident(out.phase), out.phase = "none" => out = NoOp,
         out.phase \in {"wall", "posted"} =>
           worker[w].op.phase \in Late,
         worker[w].op.phase \in Late /\ "wall" \in open =>
           out.phase \in {"none", "posted"},
         kind = "success" => Whole,
         ~stalled => \/ out \in {NoOp, op}
                     \/ /\ out = Op("media") /\ op.phase = "dispatch"
                        /\ resume = 0
  PROVE Inv'
  <1>1. Typed /\ RowOK(worker[w])
    BY DEF Inv, RowInv
  <1>2. /\ worker' \in [Worker -> WorkerRow]
        /\ \A v \in Worker : v # w => worker'[v] = worker[v]
        /\ worker'[w].pc = "finish" /\ worker'[w].kind = kind
        /\ worker'[w].out = out /\ worker'[w].op = worker[w].op
    BY <1>1, EndsRow
  <1>3. Typed'
    BY <1>1, <1>2 DEF Typed
  <1>4. Grows
    BY DEF Grows
  <1>5. RowOK(worker[w])'
    <2>1. worker[w].op.phase \in Phase /\ out.phase \in Phase
      BY <1>1 DEF Typed, WorkerRow, Operation
    <2>2. Evident(worker[w].op.phase)
      BY <1>1 DEF RowOK
    <2>3. Evident(worker[w].op.phase)' /\ Evident(worker[w].out.phase)'
      BY <1>2, <2>2, SamePlatform DEF Evident
    <2>4. kind = "success" => Whole'
      BY <1>1, <1>4, StillEvident
    <2>5. QED
      BY <1>1, <1>2, <2>3, <2>4 DEF RowOK, Uploading
  <1>6. ~stalled => CalmRow(worker[w])'
    BY <1>2 DEF CalmRow
  <1>7. QED
    BY <1>2, <1>3, <1>5, <1>6, Inside

(* ... or go on with it.                                                   *)
LEMMA InsideMoves ==
  ASSUME Inv, NEW w \in Worker, ~At(w, "idle"),
         NEW pc \in {"intend", "query", "send", "expired", "refreshed",
                     "uploaded"},
         NEW url \in 0 .. MaxUrls, NEW next \in 0 .. Size,
         Step(w, [worker[w] EXCEPT !.pc = pc, !.url = url, !.next = next]),
         UNCHANGED <<open, job, op, resume, calls, stalled>>,
         stored' \in 0 .. Size, stored = Size => stored' = Size,
         ready' \in {"none", "processing", "done", "rejected"},
         urls' \in 0 .. MaxUrls, live' \subseteq 1 .. urls',
         faults' \in 0 .. MaxFaults, blamed' \in BOOLEAN,
         pc = "intend" =>
           worker[w].op.phase = "container" /\ (~stalled => op = worker[w].op),
         pc \in Uploading =>
           /\ worker[w].op.phase \notin Late /\ "INSTAGRAM" \notin open
           /\ calls[Creation] > 0,
         pc \in {"expired", "refreshed"} => "VK" \in open,
         pc = "uploaded" => stored' = Size,
         ~stalled /\ pc \in {"query", "send"} => op = Upload(UploadPhase, url)
  PROVE Inv'
  <1>1. Typed /\ RowOK(worker[w])
    BY DEF Inv, RowInv
  <1>2. /\ worker' \in [Worker -> WorkerRow]
        /\ \A v \in Worker : v # w => worker'[v] = worker[v]
        /\ worker'[w].pc = pc /\ worker'[w].kind = worker[w].kind
        /\ worker'[w].out = worker[w].out /\ worker'[w].op = worker[w].op
        /\ worker'[w].url = url
    <2>1. pc \in Places
      BY DEF Places
    <2>2. Step(w, Moved(w, pc, url, next))
      BY DEF Moved
    <2>3. QED
      BY <1>1, <2>1, <2>2, MovesRow
  <1>3. Typed'
    BY <1>1, <1>2 DEF Typed
  <1>4. Grows
    BY DEF Grows
  <1>5. RowOK(worker[w])'
    <2>1. Evident(worker[w].op.phase) /\ Evident(worker[w].out.phase)
      BY <1>1 DEF RowOK
    <2>2. Evident(worker[w].op.phase)' /\ Evident(worker[w].out.phase)'
      BY <1>2, <2>1, SamePlatform DEF Evident
    <2>3. worker[w].kind = "success" => Whole'
      BY <1>1, <1>4, StillEvident DEF RowOK
    <2>4. QED
      BY <1>1, <1>2, <2>2, <2>3, SamePlatform DEF RowOK, Uploading
  <1>6. ~stalled => CalmRow(worker[w])'
    BY <1>2, SamePlatform, Operations DEF CalmRow, Upload
  <1>7. QED
    BY <1>2, <1>3, <1>5, <1>6, Inside

-----------------------------------------------------------------------------
(* The actions of an execution that are inside of it.                      *)

(* What is known of the row of a worker that executes.                     *)
LEMMA Known ==
  ASSUME Inv, NEW w \in Worker
  PROVE /\ Typed /\ RowOK(worker[w]) /\ worker[w] \in WorkerRow
        /\ worker[w].op \in Operation /\ worker[w].out \in Operation
        /\ worker[w].op.phase \in Phase
        /\ worker[w].url \in 0 .. MaxUrls /\ worker[w].next \in 0 .. Size
        /\ Evident(worker[w].op.phase)
        /\ worker[w].op.phase \in Mine
        /\ Evident("none")
        /\ ~stalled /\ ~At(w, "idle") =>
             Owns(w) /\ job.lease /\ CalmRow(worker[w])
        /\ \A v \in Worker : ~stalled /\ ~At(v, "idle") => Owns(v)
  <1>1. Typed /\ RowOK(worker[w]) /\ worker[w] \in WorkerRow
    BY DEF Inv, RowInv, Typed
  <1>2. /\ worker[w].op \in Operation /\ worker[w].out \in Operation
        /\ worker[w].url \in 0 .. MaxUrls /\ worker[w].next \in 0 .. Size
    BY <1>1 DEF WorkerRow
  <1>3. worker[w].op.phase \in Phase
    BY <1>2 DEF Operation
  <1>4. Evident(worker[w].op.phase)
    BY <1>1 DEF RowOK
  <1>5. "none" \in Mine
    BY <1>1, Platforms
  <1>6. Evident("none") /\ worker[w].op.phase \in Mine
    BY <1>4, <1>5 DEF Evident, Late
  <1>7. \A v \in Worker : ~stalled /\ ~At(v, "idle") =>
          Owns(v) /\ job.lease /\ CalmRow(worker[v])
    BY DEF Inv, CalmInv
  <1>8. QED
    BY <1>1, <1>2, <1>3, <1>4, <1>6, <1>7

(* An execution that ends with no operation.                               *)
LEMMA EndsWithNothing ==
  ASSUME Inv, NEW w \in Worker, ~At(w, "idle"),
         NEW kind \in Kinds \ {"success"}, Ends(w, kind, NoOp),
         UNCHANGED <<open, job, op, resume, calls, stalled>>,
         UNCHANGED <<stored, ready, urls, live>>,
         faults' \in 0 .. MaxFaults, blamed' \in BOOLEAN
  PROVE Inv'
  <1>1. NoOp \in Operation /\ NoOp.phase = "none"
    BY Operations
  <1>2. Evident("none") /\ Typed
    BY Known
  <1>3. QED
    BY <1>1, <1>2, InsideEnds DEF Typed

(* An execution that ends with the operation of its request, while this is *)
(* still the one of the target, or the lease is lost.                      *)
LEMMA EndsWithOwn ==
  ASSUME Inv, NEW w \in Worker,
         worker[w].pc \in {"begin", "call", "answered"},
         NEW kind \in Kinds, Ends(w, kind, worker[w].op),
         "VK" \in open => worker[w].op.phase = "posted",
         kind = "success" => Whole,
         UNCHANGED <<open, job, op, resume, calls, stalled>>,
         UNCHANGED <<stored, ready, urls, live>>,
         faults' \in 0 .. MaxFaults, blamed' \in BOOLEAN,
         worker[w].op.phase = "none" => worker[w].op = NoOp
  PROVE Inv'
  <1>1. Typed /\ worker[w].op \in Operation /\ Evident(worker[w].op.phase)
    BY Known
  <1>2. ~At(w, "idle")
    BY DEF At
  <1>3. ~stalled => worker[w].op = op
    BY <1>2, Known DEF CalmRow
  <1>4. "wall" \in open => "VK" \in open
    BY <1>1, Platforms
  <1>5. worker[w].op.phase \in {"wall", "posted"} =>
          worker[w].op.phase \in Late
    BY DEF Late
  <1>6. QED
    BY <1>1, <1>2, <1>3, <1>4, <1>5, InsideEnds DEF Typed

LEMMA FaultTyped ==
  ASSUME Typed, NEW excuse \in BOOLEAN, Fault(excuse)
  PROVE faults' \in 0 .. MaxFaults /\ blamed' \in BOOLEAN
        /\ stalled' = stalled
  <1>1. MaxFaults \in Nat
    BY AdaptersAssumption
  <1>2. QED
    BY <1>1 DEF Typed, Fault

LEMMA UnavailableInv ==
  ASSUME Inv, NEW w \in Worker,
         NEW kind \in {"auth", "retryable", "permanent"},
         Unavailable(w, kind) \/ UploadRefused(w, kind)
  PROVE Inv'
  <1>1. Typed
    BY DEF Inv
  <1>2. /\ ~At(w, "idle") /\ Ends(w, kind, NoOp)
        /\ Fault(kind = "permanent")
        /\ UNCHANGED <<open, job, op, resume>>
        /\ UNCHANGED <<calls, stored, ready, urls, live>>
    BY DEF Unavailable, UploadRefused, At, Calls, target, provider
  <1>3. kind \in Kinds \ {"success"}
    BY DEF Kinds
  <1>4. QED
    BY <1>1, <1>2, <1>3, FaultTyped, EndsWithNothing

LEMMA UncertainInv ==
  ASSUME Inv, NEW w \in Worker, Uncertain(w) PROVE Inv'
  <1>1. /\ At(w, "begin") /\ worker[w].op.phase \in Intent /\ ~At(w, "idle")
        /\ UNCHANGED <<open, job, op, resume>>
        /\ UNCHANGED <<calls, stored, ready, urls, live>>
        /\ UNCHANGED <<faults, stalled, blamed>>
    BY DEF Uncertain, At, Quiet, target, provider, history
  <1>2. Typed /\ faults' \in 0 .. MaxFaults /\ blamed' \in BOOLEAN
    BY <1>1 DEF Inv, Typed
  <1>3. "permanent" \in Kinds \ {"success"}
    BY DEF Kinds
  <1>4. CASE "VK" \in open
    BY <1>1, <1>2, <1>3, <1>4, EndsWithNothing DEF Uncertain
  <1>5. CASE "VK" \notin open
    <2>1. worker[w].op.phase # "none"
      BY <1>1 DEF Intent
    <2>2. QED
      BY <1>1, <1>2, <1>3, <1>5, <2>1, EndsWithOwn DEF Uncertain, At
  <1>6. QED
    BY <1>4, <1>5

LEMMA RefusesInv ==
  ASSUME Inv, NEW w \in Worker, NEW kind \in {"auth", "permanent"},
         Refuses(w, kind)
  PROVE Inv'
  <1>1. /\ At(w, "call") /\ ~At(w, "idle") /\ Fault(TRUE)
        /\ UNCHANGED <<open, job, op, resume>>
        /\ UNCHANGED <<calls, stored, ready, urls, live>>
    BY DEF Refuses, At, Calls, target, provider
  <1>2. /\ Typed /\ faults' \in 0 .. MaxFaults /\ blamed' \in BOOLEAN
        /\ stalled' = stalled
    BY <1>1, FaultTyped DEF Inv
  <1>3. kind \in Kinds \ {"success"}
    BY DEF Kinds
  <1>4. CASE "VK" \in open
    BY <1>1, <1>2, <1>3, <1>4, EndsWithNothing DEF Refuses
  <1>5. CASE "VK" \notin open
    <2>1. worker[w].op.phase # "none"
      BY <1>1, Known DEF RowOK, At, Intent
    <2>2. QED
      BY <1>1, <1>2, <1>3, <1>5, <2>1, EndsWithOwn DEF Refuses, At
  <1>6. QED
    BY <1>4, <1>5

(* A failed write of the operation.                                        *)
LEMMA UnpersistedInv ==
  ASSUME Inv, NEW w \in Worker, ~At(w, "idle"), NEW out \in Operation,
         Unpersisted(w, out),
         \/ out = NoOp
         \/ /\ out = worker[w].op /\ worker[w].pc = "answered",
         UNCHANGED <<open, job, op, resume>>,
         UNCHANGED <<calls, stored, ready, urls, live>>,
         UNCHANGED <<faults, stalled, blamed>>
  PROVE Inv'
  <1>1. Typed /\ faults' \in 0 .. MaxFaults /\ blamed' \in BOOLEAN
    BY DEF Inv, Typed
  <1>2. {"permanent", "retryable"} \subseteq Kinds \ {"success"}
    BY DEF Kinds
  <1>3. CASE "INSTAGRAM" \in open
    <2>1. "VK" \notin open /\ Ends(w, "permanent", out)
      BY <1>1, <1>3, Platforms DEF Unpersisted
    <2>2. CASE out = NoOp
      BY <1>1, <1>2, <2>1, <2>2, EndsWithNothing
    <2>3. CASE out = worker[w].op /\ worker[w].pc = "answered"
      <3>1. worker[w].op.phase # "none"
        BY <2>3, Known DEF RowOK, Intent
      <3>2. QED
        BY <1>1, <1>2, <2>1, <2>3, <3>1, EndsWithOwn
    <2>4. QED
      BY <2>2, <2>3
  <1>4. CASE "INSTAGRAM" \notin open
    BY <1>1, <1>2, <1>4, EndsWithNothing DEF Unpersisted
  <1>5. QED
    BY <1>3, <1>4

LEMMA PollInv ==
  ASSUME Inv, NEW w \in Worker, Poll(w) \/ PollVK(w) PROVE Inv'
  <1>0. /\ Typed /\ At(w, "begin") /\ ~At(w, "idle")
        /\ UNCHANGED <<open, job, op, resume>>
        /\ UNCHANGED <<calls, stored, ready, urls, live>>
        /\ UNCHANGED <<faults, stalled, blamed>>
    BY DEF Poll, PollVK, At, Quiet, target, provider, history, Inv
  <1>1. faults' \in 0 .. MaxFaults /\ blamed' \in BOOLEAN
    BY <1>0 DEF Typed
  <1>2. /\ {"pending", "success", "permanent"} \subseteq Kinds
        /\ "permanent" \in Kinds \ {"success"}
    BY DEF Kinds
  <1>3. Evident(worker[w].op.phase) /\ worker[w].op.phase \in Mine
    BY Known
  <1> DEFINE phase == worker[w].op.phase
  <1>4. ASSUME NEW kind \in Kinds, Ends(w, kind, worker[w].op),
               phase \in {"container", "video", "media"}, "VK" \notin open,
               kind = "success" => Whole
        PROVE Inv'
    BY <1>0, <1>1, <1>4, EndsWithOwn DEF At
  <1>5. CASE Poll(w)
    <2>0. "VK" \notin open
      BY <1>5 DEF Poll
    <2>1. CASE phase \in {"container", "video"} /\ ready = "processing"
               /\ Ends(w, "pending", worker[w].op)
      BY <1>2, <1>4, <2>0, <2>1
    <2>2. CASE phase = "container" /\ ready = "done" /\ Goes(w, "intend")
      <3>1. Step(w, [worker[w] EXCEPT !.pc = "intend", !.url = worker[w].url,
                                      !.next = worker[w].next])
        BY <1>0, <2>2, SameRow DEF Goes, Places
      <3>2. ~stalled => op = worker[w].op
        BY <1>0, Known DEF CalmRow, At
      <3>3. worker[w].url \in 0 .. MaxUrls /\ worker[w].next \in 0 .. Size
        BY Known
      <3>4. "intend" \notin Uploading
        BY DEF Uploading
      <3>5. QED
        BY <1>0, <1>1, <2>2, <3>1, <3>2, <3>3, <3>4, InsideMoves DEF Typed
    <2>3. CASE phase = "video" /\ Ends(w, "success", worker[w].op)
      <3>1. Whole
        BY <1>0, <1>3, <2>0, <2>3, Platforms DEF Whole, Evident, Late
      <3>2. QED
        BY <1>2, <1>4, <2>0, <2>3, <3>1
    <2>4. CASE Ends(w, "permanent", NoOp)
      BY <1>0, <1>1, <1>2, <2>4, EndsWithNothing
    <2>5. CASE phase = "media" /\ Ends(w, "success", worker[w].op)
      <3>1. Whole
        BY <1>0, <1>3, <2>0, <2>5, Platforms DEF Whole, Evident, Late
      <3>2. QED
        BY <1>2, <1>4, <2>0, <2>5, <3>1
    <2>6. QED
      BY <1>5, <2>1, <2>2, <2>3, <2>4, <2>5 DEF Poll, Finished
  <1>6. CASE PollVK(w)
    <2>1. /\ "VK" \in open /\ Ends(w, "success", worker[w].op)
          /\ phase = "posted" \/ (phase = "video" /\ "wall" \notin open)
      BY <1>6 DEF PollVK
    <2>2. Whole
      BY <1>0, <1>3, <2>1, Platforms DEF Whole, Evident, Late
    <2>3. CASE phase = "posted"
      BY <1>0, <1>1, <1>2, <2>1, <2>2, <2>3, EndsWithOwn DEF At
    <2>4. CASE phase = "video" /\ "wall" \notin open
      <3>1. ~stalled => worker[w].op = op
        BY <1>0, Known DEF CalmRow, At
      <3>2. worker[w].op \in Operation
        BY Known
      <3>3. QED
        BY <1>0, <1>1, <1>2, <1>3, <2>1, <2>2, <2>4, <3>1, <3>2, InsideEnds
        DEF Typed
    <2>5. QED
      BY <2>1, <2>3, <2>4
  <1>7. QED
    BY <1>5, <1>6

LEMMA LoadResumeInv ==
  ASSUME Inv, NEW w \in Worker, LoadResume(w) PROVE Inv'
  <1>0. /\ Typed /\ At(w, "begin") /\ ~At(w, "idle")
        /\ worker[w].op.phase \in {"session", "upload"}
        /\ UNCHANGED <<open, job, op, resume>>
        /\ UNCHANGED <<calls, stored, ready, urls, live>>
        /\ UNCHANGED <<faults, stalled, blamed>>
    BY DEF LoadResume, At, Quiet, target, provider, history, Inv
  <1>1. faults' \in 0 .. MaxFaults /\ blamed' \in BOOLEAN
    BY <1>0 DEF Typed
  <1>2. CASE op = worker[w].op /\ resume # 0
    <2> DEFINE pc == IF "VK" \in open THEN "send" ELSE "query"
    <2>1. Step(w, [worker[w] EXCEPT !.pc = pc, !.url = resume])
      BY <1>2 DEF LoadResume
    <2>2. /\ pc \in {"send", "query"} /\ pc \in Places
          /\ pc \notin {"intend", "expired", "refreshed", "uploaded"}
      BY DEF Places
    <2> HIDE DEF pc
    <2>3. resume \in 0 .. MaxUrls /\ worker[w].next \in 0 .. Size
      BY <1>0, Known DEF Typed
    <2>4. Step(w, [worker[w] EXCEPT !.pc = pc, !.url = resume,
                                    !.next = worker[w].next])
      BY <1>0, <2>1, <2>2, <2>3, SameRow
    <2>5. Evident(worker[w].op.phase) /\ worker[w].op.phase \in Mine
      BY Known
    <2>6. /\ worker[w].op.phase \notin Late /\ "INSTAGRAM" \notin open
          /\ calls[Creation] > 0 /\ worker[w].op.phase = UploadPhase
      BY <1>0, <2>5, Platforms DEF Evident, Late, UploadPhase
    <2>7. ~stalled => op = Upload(UploadPhase, resume)
      <3>1. ~stalled => op.url = resume
        BY <1>2 DEF Inv, CalmInv
      <3>2. op \in Operation /\ op.phase = UploadPhase
        BY <1>0, <1>2, <2>6 DEF Typed
      <3>3. QED
        BY <3>1, <3>2 DEF Operation, Upload
    <2>8. QED
      BY <1>0, <1>1, <2>2, <2>3, <2>4, <2>6, <2>7, InsideMoves DEF Typed
  <1>3. CASE ~(op = worker[w].op /\ resume # 0)
    <2>1. "permanent" \in Kinds \ {"success"}
      BY DEF Kinds
    <2>2. QED
      BY <1>0, <1>1, <1>3, <2>1, EndsWithNothing DEF LoadResume
  <1>4. QED
    BY <1>2, <1>3

(* What is known of a worker that uploads.                                 *)
LEMMA KnownUpload ==
  ASSUME Inv, NEW w \in Worker, worker[w].pc \in Uploading
  PROVE /\ ~At(w, "idle")
        /\ worker[w].op.phase \notin Late /\ "INSTAGRAM" \notin open
        /\ calls[Creation] > 0
        /\ ParamOp(w) = Upload(UploadPhase, worker[w].url)
        /\ ParamOp(w) \in Operation /\ ParamOp(w).phase = UploadPhase
        /\ UploadPhase \in {"session", "upload"}
        /\ Evident(UploadPhase)
        /\ ~stalled /\ worker[w].pc \in {"query", "send"} => op = ParamOp(w)
  <1>1. ~At(w, "idle")
    BY DEF Uploading, At
  <1>2. /\ worker[w].op.phase \notin Late /\ "INSTAGRAM" \notin open
        /\ calls[Creation] > 0 /\ worker[w].url \in 0 .. MaxUrls /\ Typed
    BY Known DEF RowOK
  <1>3. UploadPhase \in Phase /\ UploadPhase \in {"session", "upload"}
    BY DEF UploadPhase, Phase
  <1>4. ParamOp(w) = Upload(UploadPhase, worker[w].url)
    BY DEF ParamOp, UploadPhase
  <1>5. ParamOp(w) \in Operation /\ ParamOp(w).phase = UploadPhase
    BY <1>2, <1>3, <1>4, Operations
  <1>6. Evident(UploadPhase)
    BY <1>2, Platforms DEF UploadPhase, Evident, Late
  <1>7. ~stalled /\ worker[w].pc \in {"query", "send"} => op = ParamOp(w)
    BY <1>1, <1>4, Known DEF CalmRow
  <1>8. QED
    BY <1>1, <1>2, <1>3, <1>4, <1>5, <1>6, <1>7

(* An upload breaks off ...                                                *)
LEMMA EndsUpload ==
  ASSUME Inv, NEW w \in Worker, worker[w].pc \in {"query", "send"},
         Ends(w, "pending", ParamOp(w)),
         faults' \in 0 .. MaxFaults, blamed' \in BOOLEAN, stalled' = stalled,
         UNCHANGED <<open, job, op, resume, calls, urls, live>>,
         stored' \in 0 .. Size, stored = Size => stored' = Size,
         ready' \in {"none", "processing", "done", "rejected"}
  PROVE Inv'
  <1>1. Typed
    BY DEF Inv
  <1>2. worker[w].pc \in Uploading /\ "pending" \in Kinds
    BY DEF Uploading, Kinds
  <1>3. /\ ~At(w, "idle") /\ worker[w].op.phase \notin Late
        /\ ParamOp(w) \in Operation
        /\ ParamOp(w).phase \in {"session", "upload"}
        /\ Evident(ParamOp(w).phase)
        /\ ~stalled => op = ParamOp(w)
    BY <1>2, KnownUpload
  <1>4. QED
    BY <1>1, <1>2, <1>3, InsideEnds

(* ... or goes on from an offset.                                          *)
LEMMA SendsFrom ==
  ASSUME Inv, NEW w \in Worker, worker[w].pc = "query",
         NEW next \in 0 .. Size,
         Step(w, [worker[w] EXCEPT !.pc = "send", !.next = next]),
         faults' \in 0 .. MaxFaults, blamed' \in BOOLEAN, stalled' = stalled,
         UNCHANGED <<open, job, op, resume>>,
         UNCHANGED <<calls, stored, ready, urls, live>>
  PROVE Inv'
  <1>1. Typed /\ worker[w].pc \in Uploading
    BY DEF Inv, Uploading
  <1>2. /\ ~At(w, "idle")
        /\ worker[w].op.phase \notin Late /\ "INSTAGRAM" \notin open
        /\ calls[Creation] > 0
        /\ ~stalled => op = Upload(UploadPhase, worker[w].url)
    BY <1>1, KnownUpload
  <1>3. [worker[w] EXCEPT !.pc = "send", !.next = next]
          = [worker[w] EXCEPT !.pc = "send", !.url = worker[w].url,
                              !.next = next]
    BY Known DEF WorkerRow
  <1>4. worker[w].url \in 0 .. MaxUrls
    BY Known
  <1>5. Step(w, [worker[w] EXCEPT !.pc = "send", !.url = worker[w].url,
                                  !.next = next])
    BY <1>3
  <1>6. QED
    BY <1>1, <1>2, <1>4, <1>5, InsideMoves DEF Typed

LEMMA QueryOffsetInv ==
  ASSUME Inv, NEW w \in Worker, QueryOffset(w) PROVE Inv'
  <1>0. /\ Typed /\ worker[w].pc = "query" /\ worker[w].pc \in Uploading
        /\ UNCHANGED <<open, job, op, resume>>
        /\ UNCHANGED <<calls, stored, ready, urls, live>>
        /\ UNCHANGED <<faults, stalled, blamed>>
    BY DEF QueryOffset, At, Quiet, target, provider, history, Inv, Uploading
  <1>1. /\ faults' \in 0 .. MaxFaults /\ blamed' \in BOOLEAN
        /\ stored \in 0 .. Size /\ worker[w].url \in 0 .. MaxUrls
        /\ worker[w].next \in 0 .. Size
    BY <1>0, Known DEF Typed
  <1>2. /\ ~At(w, "idle")
        /\ worker[w].op.phase \notin Late /\ "INSTAGRAM" \notin open
        /\ calls[Creation] > 0
        /\ ~stalled => op = Upload(UploadPhase, worker[w].url)
    BY <1>0, KnownUpload
  <1>3. CASE Ends(w, "permanent", NoOp)
    <2>1. "permanent" \in Kinds \ {"success"}
      BY DEF Kinds
    <2>2. QED
      BY <1>0, <1>1, <1>2, <1>3, <2>1, EndsWithNothing
  <1>4. CASE stored = Size /\ Goes(w, "uploaded")
    <2>1. Step(w, [worker[w] EXCEPT !.pc = "uploaded", !.url = worker[w].url,
                                    !.next = worker[w].next])
      BY <1>0, <1>4, SameRow DEF Goes, Places
    <2>2. QED
      BY <1>0, <1>1, <1>2, <1>4, <2>1, InsideMoves DEF Typed
  <1>5. CASE Step(w, [worker[w] EXCEPT !.pc = "send", !.next = stored])
    BY <1>0, <1>1, <1>5, SendsFrom
  <1>6. CASE Ends(w, "pending", ParamOp(w))
    BY <1>0, <1>1, <1>6, EndsUpload DEF Typed
  <1>7. QED
    BY <1>3, <1>4, <1>5, <1>6 DEF QueryOffset, FirstMissing

LEMMA OffsetUnknownInv ==
  ASSUME Inv, NEW w \in Worker, OffsetUnknown(w) PROVE Inv'
  <1>1. /\ Typed /\ worker[w].pc = "query" /\ Fault(FALSE)
        /\ UNCHANGED <<open, job, op, resume>>
        /\ UNCHANGED <<calls, stored, ready, urls, live>>
        /\ Step(w, [worker[w] EXCEPT !.pc = "send", !.next = 0])
    BY DEF OffsetUnknown, At, Calls, target, provider, Inv
  <1>2. faults' \in 0 .. MaxFaults /\ blamed' \in BOOLEAN
        /\ stalled' = stalled
    BY <1>1, FaultTyped
  <1>3. 0 \in 0 .. Size
    BY AdaptersAssumption
  <1>4. QED
    BY <1>1, <1>2, <1>3, SendsFrom

(* Bytes arrive.                                                           *)
LEMMA ArrivesTyped ==
  ASSUME Typed, NEW w \in Worker, NEW bytes \in stored .. Size,
         Arrives(w, bytes)
  PROVE /\ stored' \in 0 .. Size /\ stored' = bytes
        /\ stored = Size => stored' = Size
        /\ ready' \in {"none", "processing", "done", "rejected"}
        /\ UNCHANGED <<calls, urls, live>>
  BY AdaptersAssumption DEF Typed, Arrives

LEMMA SendBytesInv ==
  ASSUME Inv, NEW w \in Worker, NEW bytes, SendBytes(w, bytes) PROVE Inv'
  <1>0. /\ Typed /\ worker[w].pc = "send" /\ worker[w].pc \in Uploading
        /\ bytes \in stored .. Size /\ Arrives(w, bytes)
        /\ UNCHANGED <<open, job, op, resume>>
    BY DEF SendBytes, At, Calls, target, Inv, Uploading
  <1>1. /\ stored' \in 0 .. Size /\ stored' = bytes
        /\ stored = Size => stored' = Size
        /\ ready' \in {"none", "processing", "done", "rejected"}
        /\ UNCHANGED <<calls, urls, live>>
    BY <1>0, ArrivesTyped
  <1>2. CASE Complete(bytes)
    <2>1. Goes(w, "uploaded") /\ UNCHANGED <<faults, stalled, blamed>>
      BY <1>2 DEF SendBytes, history
    <2>2. Step(w, [worker[w] EXCEPT !.pc = "uploaded", !.url = worker[w].url,
                                    !.next = worker[w].next])
      BY <1>0, <2>1, SameRow DEF Goes, Places
    <2>3. /\ ~At(w, "idle") /\ worker[w].op.phase \notin Late
          /\ "INSTAGRAM" \notin open /\ calls[Creation] > 0
      BY <1>0, KnownUpload
    <2>4. /\ worker[w].url \in 0 .. MaxUrls /\ worker[w].next \in 0 .. Size
          /\ urls' \in 0 .. MaxUrls /\ live' \subseteq 1 .. urls'
          /\ faults' \in 0 .. MaxFaults /\ blamed' \in BOOLEAN
      BY <1>0, <1>1, <2>1, Known DEF Typed
    <2>5. stored' = Size
      BY <1>1, <1>2 DEF Complete
    <2>6. QED
      BY <1>0, <1>1, <2>1, <2>2, <2>3, <2>4, <2>5, InsideMoves
  <1>3. CASE ~Complete(bytes)
    <2>1. Ends(w, "pending", ParamOp(w)) /\ Fault(FALSE)
      BY <1>3 DEF SendBytes
    <2>2. /\ faults' \in 0 .. MaxFaults /\ blamed' \in BOOLEAN
          /\ stalled' = stalled
      BY <1>0, <2>1, FaultTyped
    <2>3. QED
      BY <1>0, <1>1, <2>1, <2>2, EndsUpload
  <1>4. QED
    BY <1>2, <1>3

LEMMA BreaksOffInv ==
  ASSUME Inv, NEW w \in Worker, NEW bytes, BreaksOff(w, bytes) PROVE Inv'
  <1>0. /\ Typed /\ worker[w].pc \in {"query", "send"}
        /\ Ends(w, "pending", ParamOp(w)) /\ Fault(FALSE)
        /\ UNCHANGED <<open, job, op, resume>>
    BY DEF BreaksOff, At, Calls, target, Inv
  <1>1. /\ stored' \in 0 .. Size /\ (stored = Size => stored' = Size)
        /\ ready' \in {"none", "processing", "done", "rejected"}
        /\ UNCHANGED <<calls, urls, live>>
    <2>1. CASE UNCHANGED provider
      BY <1>0, <2>1 DEF provider, Typed
    <2>2. CASE bytes \in stored .. Size /\ Arrives(w, bytes)
      BY <1>0, <2>2, ArrivesTyped
    <2>3. QED
      BY <2>1, <2>2 DEF BreaksOff
  <1>2. /\ faults' \in 0 .. MaxFaults /\ blamed' \in BOOLEAN
        /\ stalled' = stalled
    BY <1>0, FaultTyped
  <1>3. QED
    BY <1>0, <1>1, <1>2, EndsUpload

LEMMA UrlIsGoneInv ==
  ASSUME Inv, NEW w \in Worker, UrlIsGone(w) PROVE Inv'
  <1>0. /\ Typed /\ worker[w].pc = "send" /\ worker[w].pc \in Uploading
        /\ UNCHANGED <<open, job, op, resume>>
        /\ UNCHANGED <<calls, stored, ready, urls, live>>
        /\ UNCHANGED <<faults, stalled, blamed>>
    BY DEF UrlIsGone, At, Quiet, target, provider, history, Inv, Uploading
  <1>1. /\ faults' \in 0 .. MaxFaults /\ blamed' \in BOOLEAN
        /\ worker[w].url \in 0 .. MaxUrls /\ worker[w].next \in 0 .. Size
    BY <1>0, Known DEF Typed
  <1>2. /\ ~At(w, "idle") /\ worker[w].op.phase \notin Late
        /\ "INSTAGRAM" \notin open /\ calls[Creation] > 0
    BY <1>0, KnownUpload
  <1>3. CASE "VK" \in open
    <2>1. Step(w, [worker[w] EXCEPT !.pc = "expired", !.url = worker[w].url,
                                    !.next = worker[w].next])
      BY <1>0, <1>3, SameRow DEF Goes, Places, UrlIsGone
    <2>2. QED
      BY <1>0, <1>1, <1>2, <1>3, <2>1, InsideMoves DEF Typed
  <1>4. CASE "VK" \notin open
    <2>1. "permanent" \in Kinds \ {"success"}
      BY DEF Kinds
    <2>2. QED
      BY <1>0, <1>1, <1>2, <1>4, <2>1, EndsWithNothing DEF UrlIsGone
  <1>5. QED
    BY <1>3, <1>4

LEMMA RefreshInv ==
  ASSUME Inv, NEW w \in Worker, Refresh(w) PROVE Inv'
  <1>0. /\ Typed /\ worker[w].pc = "expired" /\ worker[w].pc \in Uploading
        /\ UNCHANGED <<open, job, op, resume>>
    BY DEF Refresh, At, Calls, target, Inv, Uploading
  <1>1. /\ ~At(w, "idle") /\ worker[w].op.phase \notin Late
        /\ "INSTAGRAM" \notin open /\ calls[Creation] > 0
    BY <1>0, KnownUpload
  <1>2. ASSUME urls < MaxUrls, urls' = urls + 1,
               live' = live \cup {urls'},
               Step(w, [worker[w] EXCEPT !.pc = "refreshed", !.url = urls']),
               UNCHANGED <<calls, stored, ready>>,
               UNCHANGED history
        PROVE Inv'
    <2>1. PICK u : u = urls'
      OBVIOUS
    <2>2. u \in 0 .. MaxUrls /\ urls' \in 0 .. MaxUrls
          /\ live' \subseteq 1 .. urls'
      BY <1>0, <1>2, <2>1, AdaptersAssumption DEF Typed
    <2>3. Step(w, [worker[w] EXCEPT !.pc = "refreshed", !.url = u,
                                    !.next = worker[w].next])
      <3>1. Step(w, [worker[w] EXCEPT !.pc = "refreshed", !.url = u])
        BY <1>2, <2>1 DEF Step
      <3>2. QED
        BY <1>0, <2>2, <3>1, SameRow DEF Places
    <2>4. /\ worker[w].next \in 0 .. Size /\ "VK" \in open
          /\ UNCHANGED <<faults, stalled, blamed>>
          /\ faults' \in 0 .. MaxFaults /\ blamed' \in BOOLEAN
      BY <1>0, <1>2, Known DEF RowOK, history, Typed
    <2>5. QED
      BY <1>0, <1>1, <1>2, <2>2, <2>3, <2>4, InsideMoves DEF Typed
  <1>3. CASE Ends(w, "permanent", NoOp) /\ Fault(TRUE) /\ UNCHANGED provider
    <2>1. "permanent" \in Kinds \ {"success"}
      BY DEF Kinds
    <2>2. QED
      BY <1>0, <1>1, <1>3, <2>1, FaultTyped, EndsWithNothing DEF provider
  <1>4. QED
    BY <1>2, <1>3 DEF Refresh

-----------------------------------------------------------------------------
(* The steps that write the operation.                                     *)

LEMMA Writes ==
  ASSUME Inv, Typed', NEW w \in Worker, ~At(w, "idle"),
         UNCHANGED <<open, job, calls, stored, stalled>>, op' # NoOp,
         \A v \in Worker : v # w => worker'[v] = worker[v],
         RowOK(worker[w])', Evident(op.phase)',
         worker'[w].pc = "call" /\ worker'[w].op.phase = Creation => op = NoOp,
         "wall" \in open =>
           \/ /\ op.phase \notin Late /\ op'.phase \notin {"wall", "posted"}
              /\ worker'[w].op.phase \notin Late
           \/ /\ worker[w].op.phase \in Late /\ op.phase = "video"
              /\ op'.phase = "wall" /\ worker'[w].op.phase = "wall"
           \/ /\ worker[w].op.phase \in Late /\ op'.phase = "posted"
              /\ worker'[w].op.phase = "wall" /\ worker'[w].pc # "call"
              /\ calls["wall"] > 0,
         ~stalled => /\ CalmRow(worker[w])'
                     /\ resume' # 0 => op'.url = resume'
                     /\ calls["dispatch"] > 0 =>
                          op'.phase \in {"dispatch", "media"}
                     /\ worker'[w].pc = "call"
                          /\ worker'[w].op.phase = "dispatch" =>
                        calls["dispatch"] = 0
  PROVE Inv'
  <1>1. Typed /\ RowInv /\ CreateInv /\ WallInv /\ CalmInv
    BY DEF Inv
  <1>2. Grows
    BY DEF Grows
  <1>3. RowInv'
    <2>1. \A v \in Worker : RowOK(worker[v])'
      BY <1>1, <1>2, OthersOK
    <2>2. Whole => Whole'
      BY <1>1, <1>2, StillEvident
    <2>3. QED
      BY <1>1, <2>1, <2>2, SamePlatform DEF RowInv
  <1>4. CreateInv'
    <2>1. \A v \in Worker : At(v, "call") /\ worker[v].op.phase = Creation =>
            op # NoOp
      <3> SUFFICES ASSUME NEW v \in Worker, At(v, "call")
                   PROVE op # NoOp
        OBVIOUS
      <3>1. RowOK(worker[v])
        BY Known
      <3>2. worker[v].op.phase \in Intent
        BY <3>1 DEF RowOK, At
      <3>3. worker[v].op # NoOp
        BY <3>2, Operations DEF Intent
      <3>4. QED
        BY <3>1, <3>3 DEF RowOK
    <2>2. Creation' = Creation
      BY SamePlatform
    <2>3. QED
      BY <1>1, <2>1, <2>2 DEF CreateInv, At
  <1>5. WallInv'
    <2> SUFFICES ASSUME "wall" \in open PROVE WallInv'
      BY DEF WallInv
    <2>0. \A v \in Worker : Owns(v)' <=> Owns(v)
      BY DEF Owns
    <2>1. CASE /\ op.phase \notin Late /\ op'.phase \notin {"wall", "posted"}
               /\ worker'[w].op.phase \notin Late
      <3>1. \A v \in Worker : worker'[v].op.phase \notin Late
        BY <1>1, <2>1 DEF WallInv
      <3>2. calls["wall"] \in 0 .. 2 /\ ~(calls["wall"] > 0)
        BY <1>1, <2>1 DEF WallInv, Late, Typed, Intent
      <3>3. QED
        BY <2>1, <3>1, <3>2 DEF WallInv, Late
    <2>2. CASE /\ worker[w].op.phase \in Late /\ op.phase = "video"
               /\ op'.phase = "wall" /\ worker'[w].op.phase = "wall"
      <3>1. calls["wall"] \in 0 .. 2 /\ ~(calls["wall"] > 0)
        BY <1>1, <2>2 DEF WallInv, Typed, Intent
      <3>2. \A v \in Worker :
              ~(At(v, "call") /\ worker[v].op.phase = "wall")
        BY <1>1, <2>2 DEF WallInv
      <3>3. \A v \in Worker : Owns(v) /\ ~At(v, "idle") =>
              worker[v].op.phase \in Late
        BY <1>1, <2>2 DEF WallInv
      <3>4. \A v \in Worker : Owns(v)' /\ ~At(v, "idle")' =>
              worker'[v].op.phase \in Late
        BY <2>0, <2>2, <3>3 DEF At, Late
      <3>5. \A v \in Worker :
              At(v, "call")' /\ worker'[v].op.phase = "wall" => v = w
        BY <3>2 DEF At
      <3>6. QED
        BY <2>2, <3>1, <3>4, <3>5 DEF WallInv, Late
    <2>3. CASE /\ worker[w].op.phase \in Late /\ op'.phase = "posted"
               /\ worker'[w].op.phase = "wall" /\ worker'[w].pc # "call"
               /\ calls["wall"] > 0
      <3>1. calls["wall"] \in 0 .. 2
        BY <1>1 DEF Typed, Intent
      <3>2. \A v \in Worker :
              ~(At(v, "call") /\ worker[v].op.phase = "wall")
        BY <1>1, <2>3, <3>1 DEF WallInv
      <3>3. \A v \in Worker : Owns(v)' /\ ~At(v, "idle")' =>
              worker'[v].op.phase \in Late
        BY <1>1, <2>0, <2>3 DEF WallInv, At, Late
      <3>4. \A v \in Worker :
              ~(At(v, "call")' /\ worker'[v].op.phase = "wall")
        BY <2>3, <3>2 DEF At
      <3>5. calls["wall"] <= 1
        BY <1>1 DEF WallInv
      <3>6. QED
        BY <2>3, <3>3, <3>4, <3>5 DEF WallInv, Late
    <2>4. QED
      BY <2>1, <2>2, <2>3
  <1>6. CalmInv'
    <2> SUFFICES ASSUME ~stalled PROVE CalmInv'
      BY DEF CalmInv
    <2>1. \A v \in Worker : ~At(v, "idle") =>
            Owns(v) /\ job.lease /\ CalmRow(worker[v])
      BY <1>1 DEF CalmInv
    <2>2. \A v \in Worker : ~At(v, "idle")' => v = w
      BY <2>1 DEF Owns, At
    <2>3. Owns(w)' /\ job'.lease
      BY <2>1 DEF Owns
    <2>4. \A v \in Worker : At(v, "call")' => v = w
      BY <2>2 DEF At
    <2>5. calls'["dispatch"] <= 1
      BY <1>1 DEF CalmInv
    <2>6. QED
      BY <2>2, <2>3, <2>4, <2>5 DEF CalmInv, At
  <1>7. QED
    BY <1>3, <1>4, <1>5, <1>6 DEF Inv

(* Nothing of media_publish has been done on another platform, or before   *)
(* its intent.                                                             *)
LEMMA Undispatched ==
  ASSUME Inv
  PROVE /\ "INSTAGRAM" \notin open => calls["dispatch"] = 0
        /\ ~stalled /\ op.phase \notin {"dispatch", "media"} =>
             calls["dispatch"] = 0
  <1>1. Typed /\ RowInv /\ CalmInv
    BY DEF Inv
  <1>2. calls["dispatch"] \in 0 .. 2 /\ "dispatch" \in Intent
    BY <1>1 DEF Typed, Intent
  <1>3. "INSTAGRAM" \notin open => "dispatch" \notin Mine
    BY <1>1, Platforms
  <1>4. QED
    BY <1>1, <1>2, <1>3 DEF RowInv, CalmInv

LEMMA ExpectedIsOwn ==
  ASSUME Inv, NEW w \in Worker, Expected(w), worker[w].op # NoOp
  PROVE op = worker[w].op
  <1>1. op # NoOp
    BY Known DEF RowOK
  <1>2. QED
    BY <1>1 DEF Expected

(* The intent is written over the operation before it.                     *)
LEMMA IntendsInv ==
  ASSUME Inv, NEW w \in Worker, NEW c \in Intent,
         worker[w].pc \in {"begin", "intend"},
         \/ c = Creation /\ worker[w].op = NoOp /\ op = NoOp
         \/ /\ c = "dispatch" /\ worker[w].op.phase = "container"
            /\ op = worker[w].op
         \/ /\ c = "wall" /\ worker[w].op.phase = "video"
            /\ op = worker[w].op /\ "wall" \in open,
         Persist(Op(c)),
         Step(w, [worker[w] EXCEPT !.pc = "call", !.op = Op(c)]),
         UNCHANGED <<open, job>>,
         UNCHANGED <<calls, stored, ready, urls, live>>,
         UNCHANGED <<faults, stalled, blamed>>
  PROVE Inv'
  <1>1. /\ Typed /\ worker[w] \in WorkerRow /\ RowOK(worker[w])
        /\ Evident(worker[w].op.phase) /\ worker[w].op.phase \in Mine
        /\ ~At(w, "idle")
    BY Known DEF At
  <1>2. /\ Op(c) \in Operation /\ Op(c).phase = c /\ Op(c).url = 0
        /\ c \in Phase /\ c # "none" /\ Op(c) # NoOp /\ c \notin {"posted"}
    <2>1. c \in Phase /\ c # "none" /\ c # "posted"
      BY DEF Phase, Intent
    <2>2. QED
      BY <2>1, Operations
  <1>3. op' = Op(c) /\ resume' = 0
    BY DEF Persist
  <1> DEFINE row == [worker[w] EXCEPT !.pc = "call", !.op = Op(c)]
  <1>4. /\ row \in WorkerRow /\ row.pc = "call" /\ row.op = Op(c)
        /\ row.out = worker[w].out /\ row.kind = worker[w].kind
    BY <1>1, <1>2 DEF WorkerRow
  <1> HIDE DEF row
  <1>5. /\ worker' = [worker EXCEPT ![w] = row] /\ worker'[w] = row
        /\ \A v \in Worker : v # w => worker'[v] = worker[v]
    BY <1>1 DEF Step, row, Typed
  <1>6. Typed'
    <2>1. worker' \in [Worker -> WorkerRow]
      BY <1>1, <1>4, <1>5 DEF Typed
    <2>2. resume' \in 0 .. MaxUrls
      BY <1>3, AdaptersAssumption
    <2>3. QED
      BY <1>1, <1>2, <1>3, <2>1, <2>2 DEF Typed
  <1>7. Evident(c)
    <2>1. /\ c = Creation => c \in Mine
          /\ c = "dispatch" => "dispatch" \in Mine /\ c # Creation
          /\ c = "wall" => "wall" \in Mine /\ c # Creation
          /\ Creation \in {"create", "init", "save"}
      BY <1>1, Platforms
    <2>2. c # Creation => calls[Creation] > 0
      BY <1>1, <2>1 DEF Evident
    <2>3. c = "wall" => stored = Size /\ "wall" \in open
      BY <1>1, <2>1 DEF Evident, Late
    <2>4. c \in {Creation, "dispatch", "wall"}
      OBVIOUS
    <2>5. QED
      BY <2>1, <2>2, <2>3, <2>4 DEF Evident, Late
  <1>8. Evident(c)' /\ Evident(op.phase)'
    BY <1>2, <1>3, <1>7, SamePlatform DEF Evident
  <1>9. RowOK(worker[w])'
    <2>1. Evident(worker[w].out.phase)' /\ Evident(worker[w].op.phase)'
      <3>1. Evident(worker[w].out.phase)
        BY <1>1 DEF RowOK
      <3>2. QED
        BY <1>2, <1>4, <1>5, <1>8, <3>1, SamePlatform DEF Evident
    <2>2. worker[w].kind = "success" => Whole'
      BY <1>1, SamePlatform DEF RowOK, Whole
    <2>3. /\ c \in Late /\ "wall" \in open =>
               worker[w].out.phase \in {"none", "posted"}
          /\ worker[w].out.phase \in {"wall", "posted"} => c \in Late
      <3>1. c = "wall" => worker[w].op.phase \in Late
        BY <1>1, Platforms DEF Late
      <3>2. worker[w].op.phase \in Late => c = "wall"
        BY <1>1, Operations DEF Late
      <3>3. c \in Late => c = "wall"
        BY <1>2 DEF Late, Intent
      <3>4. QED
        BY <1>1, <3>1, <3>2, <3>3 DEF RowOK, Late
    <2>4. /\ worker'[w].pc = "call" /\ worker'[w].op = Op(c)
          /\ worker'[w].op.phase = c /\ c \in Intent /\ op' # NoOp
          /\ worker'[w].out = worker[w].out /\ worker'[w].kind = worker[w].kind
      BY <1>2, <1>3, <1>4, <1>5
    <2>5. worker[w].out.phase = "none" => worker[w].out = NoOp
      BY <1>1 DEF RowOK
    <2>6. QED
      BY <2>1, <2>2, <2>3, <2>4, <2>5 DEF RowOK, Uploading
  <1>10. worker'[w].pc = "call" /\ worker'[w].op.phase = Creation => op = NoOp
    <2>1. Creation \in {"create", "init", "save"}
      BY <1>1, Platforms
    <2>2. QED
      BY <1>2, <1>4, <1>5, <2>1
  <1>11. "wall" \in open =>
           \/ /\ op.phase \notin Late /\ op'.phase \notin {"wall", "posted"}
              /\ worker'[w].op.phase \notin Late
           \/ /\ worker[w].op.phase \in Late /\ op.phase = "video"
              /\ op'.phase = "wall" /\ worker'[w].op.phase = "wall"
    <2>1. CASE c = "wall"
      <3>1. worker[w].op.phase = "video" /\ op = worker[w].op
        BY <1>1, <2>1, Platforms
      <3>2. QED
        BY <1>2, <1>3, <1>4, <1>5, <2>1, <3>1 DEF Late
    <2>2. CASE c # "wall"
      <3>1. op.phase \notin Late
        BY <2>2, Operations DEF Late
      <3>2. c \notin Late
        BY <2>2 DEF Intent, Late
      <3>3. QED
        BY <1>2, <1>3, <1>4, <1>5, <3>1, <3>2 DEF Late
    <2>3. QED
      BY <2>1, <2>2
  <1>12. ~stalled =>
           /\ CalmRow(worker[w])'
           /\ calls["dispatch"] = 0
    <2>1. op.phase \notin {"dispatch", "media"}
      BY Operations
    <2>2. CalmRow(worker[w])'
      BY <1>2, <1>3, <1>4, <1>5 DEF CalmRow
    <2>3. QED
      BY <2>1, <2>2, Undispatched
  <1>13. resume' = 0 /\ op' # NoOp
    BY <1>2, <1>3
  <1>14. ~(calls["dispatch"] > 0) \/ stalled
    BY <1>12
  <1>15. QED
    BY <1>1, <1>5, <1>6, <1>8, <1>9, <1>10, <1>11, <1>12, <1>13, <1>14,
       Writes

LEMMA PersistIntentInv ==
  ASSUME Inv, NEW w \in Worker, PersistIntent(w) PROVE Inv'
  <1> DEFINE intent == CASE At(w, "intend") -> "dispatch"
                         [] worker[w].op.phase = "video" -> "wall"
                         [] OTHER -> Creation
  <1>0. /\ Typed /\ RowOK(worker[w]) /\ worker[w].pc \in {"begin", "intend"}
        /\ ~At(w, "idle")
        /\ UNCHANGED <<open, job>>
        /\ UNCHANGED <<calls, stored, ready, urls, live>>
        /\ UNCHANGED <<faults, stalled, blamed>>
    BY Known DEF PersistIntent, At, Quiet, provider, history
  <1>1. CASE ~Expected(w)
    <2>1. Unpersisted(w, NoOp) /\ UNCHANGED <<op, resume>>
      BY <1>1 DEF PersistIntent, target
    <2>2. NoOp \in Operation
      BY Operations
    <2>3. QED
      BY <1>0, <2>1, <2>2, UnpersistedInv
  <1>2. CASE Expected(w)
    <2>1. /\ Persist(Op(intent))
          /\ Step(w, [worker[w] EXCEPT !.pc = "call", !.op = Op(intent)])
      BY <1>2 DEF PersistIntent
    <2>2. \/ At(w, "intend")
          \/ At(w, "begin") /\ worker[w].op = NoOp
          \/ At(w, "begin") /\ worker[w].op.phase = "video"
               /\ "wall" \in open
      BY DEF PersistIntent
    <2>3. CASE At(w, "intend")
      <3>1. worker[w].op.phase = "container" /\ intent = "dispatch"
        BY <1>0, <2>3 DEF RowOK, At
      <3>2. op = worker[w].op
        BY <1>2, <3>1, ExpectedIsOwn, Operations
      <3>3. "dispatch" \in Intent
        BY DEF Intent
      <3> HIDE DEF intent
      <3>4. QED
        BY <1>0, <2>1, <3>1, <3>2, <3>3, IntendsInv
    <2>4. CASE At(w, "begin") /\ worker[w].op = NoOp
      <3>1. intent = Creation /\ Creation \in Intent
        BY <1>0, <2>4, CreationIsIntent, Operations DEF At
      <3>2. op = NoOp
        BY <1>2, <2>4 DEF Expected
      <3> HIDE DEF intent
      <3>3. QED
        BY <1>0, <2>1, <2>4, <3>1, <3>2, IntendsInv
    <2>5. CASE At(w, "begin") /\ worker[w].op.phase = "video"
                 /\ "wall" \in open
      <3>1. intent = "wall" /\ "wall" \in Intent
        BY <2>5 DEF At, Intent
      <3>2. op = worker[w].op
        BY <1>2, <2>5, ExpectedIsOwn, Operations
      <3> HIDE DEF intent
      <3>3. QED
        BY <1>0, <2>1, <2>5, <3>1, <3>2, IntendsInv
    <2>6. QED
      BY <2>2, <2>3, <2>4, <2>5
  <1>3. QED
    BY <1>1, <1>2

-----------------------------------------------------------------------------
(* The calls.                                                              *)

LEMMA CarriedOutTyped ==
  ASSUME Typed, NEW c \in Intent, CarriedOut(c)
  PROVE /\ calls' \in [Intent -> 0 .. 2] /\ calls'[c] > 0 /\ stored' = stored
        /\ calls[c] = 0 => calls'[c] = 1
        /\ \A d \in Intent : d # c => calls'[d] = calls[d]
        /\ \A d \in Intent : calls[d] > 0 => calls'[d] > 0
        /\ ready' \in {"none", "processing", "done", "rejected"}
        /\ urls' \in 0 .. MaxUrls /\ live' \subseteq 1 .. urls'
  <1>1. calls[c] \in 0 .. 2 /\ calls \in [Intent -> 0 .. 2]
    BY DEF Typed
  <1>2. calls' = [calls EXCEPT ![c] = IF @ < 2 THEN @ + 1 ELSE @]
    BY DEF CarriedOut
  <1>3. ready' \in {"none", "processing", "done", "rejected"}
        /\ stored' = stored
    BY DEF CarriedOut, Typed
  <1>4. urls' \in 0 .. MaxUrls /\ live' \subseteq 1 .. urls'
    <2>1. CASE c \in {"init", "save"}
      <3>1. /\ urls < MaxUrls /\ urls' = urls + 1
            /\ live' = live \cup {urls'}
        BY <2>1 DEF CarriedOut
      <3>2. urls \in 0 .. MaxUrls /\ live \subseteq 1 .. urls
        BY DEF Typed
      <3>3. urls' \in 0 .. MaxUrls
        BY <3>1, <3>2, AdaptersAssumption
      <3>4. QED
        BY <3>1, <3>2, <3>3, AdaptersAssumption
    <2>2. CASE c \notin {"init", "save"}
      BY <2>2 DEF CarriedOut, Typed
    <2>3. QED
      BY <2>1, <2>2
  <1>5. (IF calls[c] < 2 THEN calls[c] + 1 ELSE calls[c]) \in 1 .. 2
    BY <1>1
  <1>6. /\ calls' \in [Intent -> 0 .. 2] /\ calls'[c] > 0
        /\ calls[c] = 0 => calls'[c] = 1
    BY <1>1, <1>2, <1>5
  <1>7. \A d \in Intent : d # c => calls'[d] = calls[d]
    BY <1>1, <1>2
  <1>8. \A d \in Intent : calls[d] > 0 => calls'[d] > 0
    BY <1>6, <1>7
  <1>9. QED
    BY <1>3, <1>4, <1>6, <1>7, <1>8

(* The provider has carried out what a worker has called.                  *)
LEMMA Called ==
  ASSUME Inv, NEW w \in Worker, At(w, "call"),
         CarriedOut(worker[w].op.phase),
         UNCHANGED <<open, job, op, resume, stalled>>,
         faults' \in 0 .. MaxFaults, blamed' \in BOOLEAN,
         worker' \in [Worker -> WorkerRow],
         \A v \in Worker : v # w => worker'[v] = worker[v],
         worker'[w].op = worker[w].op,
         worker'[w].kind = "success" => worker[w].kind = "success",
         \/ worker'[w].pc = "answered" /\ worker'[w].out = worker[w].out
         \/ worker'[w].pc = "finish" /\ worker'[w].out = NoOp
         \/ /\ worker'[w].pc = "finish" /\ worker'[w].out = worker[w].op
            /\ "VK" \notin open
  PROVE Inv'
  <1> DEFINE c == worker[w].op.phase
  <1>1. /\ Typed /\ RowInv /\ CreateInv /\ WallInv /\ CalmInv
        /\ RowOK(worker[w]) /\ Evident(c) /\ c \in Mine /\ c \in Phase
        /\ worker[w] \in WorkerRow
    BY Known DEF Inv
  <1>2. c \in Intent /\ c \in {"create", "dispatch", "init", "save", "wall"}
    BY <1>1 DEF RowOK, At, Intent
  <1>3. /\ calls' \in [Intent -> 0 .. 2] /\ calls'[c] > 0 /\ stored' = stored
        /\ calls[c] = 0 => calls'[c] = 1
        /\ \A d \in Intent : d # c => calls'[d] = calls[d]
        /\ \A d \in Intent : calls[d] > 0 => calls'[d] > 0
        /\ ready' \in {"none", "processing", "done", "rejected"}
        /\ urls' \in 0 .. MaxUrls /\ live' \subseteq 1 .. urls'
    BY <1>1, <1>2, CarriedOutTyped
  <1>4. Typed'
    BY <1>1, <1>3 DEF Typed
  <1>5. Grows
    BY <1>3 DEF Grows
  <1>6. c = "wall" => "wall" \in open
    BY <1>1 DEF Evident
  <1>7. RowOK(worker[w])'
    <2>1. Whole => Whole'
      BY <1>1, <1>5, StillEvident
    <2>2. Evident("none")
      BY Known
    <2>3. worker[w].kind = "success" => Whole
      BY <1>1 DEF RowOK
    <2>4. worker[w].op # NoOp => op # NoOp
      BY <1>1 DEF RowOK
    <2>5. /\ Creation \in Intent /\ "dispatch" \in Intent
          /\ "wall" \in Intent /\ Creation' = Creation /\ Mine' = Mine
      BY <1>1, CreationIsIntent, SamePlatform DEF Intent
    <2>6. Evident(worker[w].op.phase)' /\ Evident(worker[w].out.phase)'
      <3>1. Evident(worker[w].out.phase)
        BY <1>1 DEF RowOK
      <3>2. worker'[w].out \in {worker[w].out, NoOp, worker[w].op}
        OBVIOUS
      <3>3. Evident(worker[w].op.phase)'
        BY <1>1, <1>3, <2>5 DEF Evident
      <3>4. CASE worker'[w].out = worker[w].out
        BY <1>3, <2>5, <3>1, <3>3, <3>4 DEF Evident
      <3>5. CASE worker'[w].out = NoOp
        BY <1>3, <2>2, <2>5, <3>3, <3>5, Operations DEF Evident
      <3>6. CASE worker'[w].out = worker[w].op
        BY <1>1, <1>3, <2>5, <3>3, <3>6 DEF Evident
      <3>7. QED
        BY <3>2, <3>4, <3>5, <3>6
    <2>7. CASE worker'[w].pc = "answered" /\ worker'[w].out = worker[w].out
      BY <1>1, <1>2, <1>3, <2>1, <2>3, <2>4, <2>7, <2>6
      DEF RowOK, Uploading
    <2>8. CASE worker'[w].pc = "finish" /\ worker'[w].out = NoOp
      BY <1>1, <1>2, <2>1, <2>3, <2>4, <2>8, <2>6, Operations
      DEF RowOK, Uploading
    <2>9. CASE worker'[w].pc = "finish" /\ worker'[w].out = worker[w].op
               /\ "VK" \notin open
      <3>1. "wall" \notin open
        BY <1>1, <2>9, Platforms
      <3>2. c # "none" /\ c \notin {"wall", "posted"}
        BY <1>2, <1>6, <3>1
      <3>3. QED
        BY <1>1, <1>2, <2>1, <2>3, <2>4, <2>9, <2>6, <3>1, <3>2
        DEF RowOK, Uploading
    <2>10. QED
      BY <2>7, <2>8, <2>9
  <1>8. RowInv'
    <2>1. \A v \in Worker : RowOK(worker[v])'
      BY <1>1, <1>5, <1>7, OthersOK
    <2>2. Evident(op.phase)'
      <3>1. op.phase \in Phase /\ Evident(op.phase)
        BY <1>1 DEF Typed, Operation, RowInv
      <3>2. Creation \in Intent /\ "dispatch" \in Intent /\ "wall" \in Intent
        BY <1>1, CreationIsIntent DEF Intent
      <3>3. QED
        BY <1>3, <3>1, <3>2, SamePlatform DEF Evident
    <2>3. Whole => Whole'
      BY <1>1, <1>5, StillEvident
    <2>4. \A d \in Intent : calls'[d] > 0 => d \in Mine'
      BY <1>1, <1>3, SamePlatform DEF RowInv
    <2>5. calls'["wall"] > 0 => "wall" \in open
      <3>1. "wall" \in Intent
        BY DEF Intent
      <3>2. QED
        BY <1>1, <1>3, <1>6, <3>1 DEF RowInv
    <2>6. QED
      BY <1>1, <2>1, <2>2, <2>3, <2>4, <2>5 DEF RowInv
  <1>9. worker[w].op # NoOp /\ op # NoOp
    <2>1. worker[w].op # NoOp
      BY <1>2, Operations
    <2>2. QED
      BY <1>1, <2>1 DEF RowOK
  <1>10. CreateInv'
    <2>1. Creation \in Intent /\ Creation' = Creation
      BY <1>1, CreationIsIntent, SamePlatform
    <2>2. CASE c = Creation
      <3>1. calls'[Creation] = 1
        BY <1>1, <1>3, <2>2 DEF CreateInv
      <3>2. \A v \in Worker : ~(At(v, "call")'
                                /\ worker'[v].op.phase = Creation)
        BY <1>1, <2>2 DEF CreateInv, At
      <3>3. QED
        BY <1>9, <2>1, <3>1, <3>2 DEF CreateInv
    <2>3. CASE c # Creation
      <3>1. calls'[Creation] = calls[Creation]
        BY <1>3, <2>1, <2>3
      <3>2. QED
        BY <1>1, <2>1, <3>1 DEF CreateInv, At
    <2>4. QED
      BY <2>2, <2>3
  <1>11. WallInv'
    <2> SUFFICES ASSUME "wall" \in open PROVE WallInv'
      BY DEF WallInv
    <2>0. \A v \in Worker : Owns(v)' <=> Owns(v)
      BY DEF Owns
    <2>1. \/ \E v \in Worker : worker[v].op.phase \in Late
          \/ op.phase \in {"wall", "posted"}
          => /\ op.phase \in Late
             /\ \A v \in Worker : Owns(v) /\ ~At(v, "idle") =>
                  worker[v].op.phase \in Late
      BY <1>1 DEF WallInv
    <2>2. \A v \in Worker : worker'[v].op = worker[v].op
      OBVIOUS
    <2>3. \A v \in Worker : ~At(v, "idle")' => ~At(v, "idle")
      BY DEF At
    <2>4. \/ \E v \in Worker : worker'[v].op.phase \in Late
          \/ op'.phase \in {"wall", "posted"}
          => /\ op'.phase \in Late
             /\ \A v \in Worker : Owns(v)' /\ ~At(v, "idle")' =>
                  worker'[v].op.phase \in Late
      BY <2>0, <2>1, <2>2, <2>3
    <2>5. "wall" \in Intent
      BY DEF Intent
    <2>6. CASE c = "wall"
      <3>1. op.phase = "wall" /\ calls'["wall"] = 1
        BY <1>1, <1>3, <2>6 DEF WallInv
      <3>2. \A v \in Worker : ~(At(v, "call")'
                                /\ worker'[v].op.phase = "wall")
        BY <1>1, <2>6 DEF WallInv, At
      <3>3. QED
        BY <2>4, <3>1, <3>2 DEF WallInv
    <2>7. CASE c # "wall"
      <3>1. calls'["wall"] = calls["wall"]
        BY <1>3, <2>5, <2>7
      <3>2. \A v \in Worker : At(v, "call")' => At(v, "call")
        BY DEF At
      <3>3. QED
        BY <1>1, <2>2, <2>4, <3>1, <3>2 DEF WallInv
    <2>8. QED
      BY <2>6, <2>7
  <1>12. CalmInv'
    <2> SUFFICES ASSUME ~stalled PROVE CalmInv'
      BY DEF CalmInv
    <2>1. \A v \in Worker : ~At(v, "idle") =>
            Owns(v) /\ job.lease /\ CalmRow(worker[v])
      BY <1>1 DEF CalmInv
    <2>2. ~At(w, "idle") /\ worker[w].op = op /\ resume = 0
      BY <2>1 DEF At, CalmRow
    <2>3. \A v \in Worker : ~At(v, "idle")' => v = w
      BY <2>1, <2>2 DEF Owns, At
    <2>4. Owns(w)' /\ job'.lease
      BY <2>1, <2>2 DEF Owns
    <2>5. CalmRow(worker[w])'
      BY <2>2 DEF CalmRow
    <2>6. \A v \in Worker : ~At(v, "call")'
      BY <2>3 DEF At
    <2>7. /\ calls'["dispatch"] <= 1
          /\ calls'["dispatch"] > 0 => op'.phase \in {"dispatch", "media"}
      <3>1. "dispatch" \in Intent
        BY DEF Intent
      <3>2. CASE c = "dispatch"
        BY <1>1, <1>3, <2>2, <3>2 DEF CalmInv
      <3>3. CASE c # "dispatch"
        BY <1>1, <1>3, <3>1, <3>3 DEF CalmInv
      <3>4. QED
        BY <3>2, <3>3
    <2>8. QED
      BY <2>2, <2>3, <2>4, <2>5, <2>6, <2>7 DEF CalmInv
  <1>13. QED
    BY <1>4, <1>8, <1>10, <1>11, <1>12 DEF Inv

LEMMA AnswersInv ==
  ASSUME Inv, NEW w \in Worker, Answers(w) PROVE Inv'
  <1>1. /\ Typed /\ worker[w].op.phase \in Intent
    BY Known DEF Answers, RowOK, At
  <1>2. /\ At(w, "call") /\ CarriedOut(worker[w].op.phase)
        /\ Step(w, [worker[w] EXCEPT !.pc = "answered", !.url = urls'])
        /\ UNCHANGED <<open, job, op, resume>>
        /\ UNCHANGED <<faults, stalled, blamed>>
    BY DEF Answers, Calls, target, history
  <1>3. PICK u : u = urls'
    OBVIOUS
  <1>4. u \in 0 .. MaxUrls
    BY <1>1, <1>2, <1>3, CarriedOutTyped
  <1>5. Step(w, Moved(w, "answered", u, worker[w].next))
    <2>1. Step(w, [worker[w] EXCEPT !.pc = "answered", !.url = u])
      BY <1>2, <1>3 DEF Step
    <2>2. Step(w, [worker[w] EXCEPT !.pc = "answered", !.url = u,
                                    !.next = worker[w].next])
      BY <1>1, <1>4, <2>1, SameRow DEF Places
    <2>3. QED
      BY <2>2 DEF Moved
  <1>6. "answered" \in Places /\ worker[w].next \in 0 .. Size
        /\ faults' \in 0 .. MaxFaults /\ blamed' \in BOOLEAN
    BY <1>1, <1>2, Known DEF Places, Typed
  <1>7. /\ worker' \in [Worker -> WorkerRow]
        /\ \A v \in Worker : v # w => worker'[v] = worker[v]
        /\ worker'[w].pc = "answered" /\ worker'[w].kind = worker[w].kind
        /\ worker'[w].out = worker[w].out /\ worker'[w].op = worker[w].op
    BY <1>1, <1>4, <1>5, <1>6, MovesRow
  <1>8. QED
    BY <1>2, <1>6, <1>7, Called

LEMMA AnswerIsLostInv ==
  ASSUME Inv, NEW w \in Worker, AnswerIsLost(w) PROVE Inv'
  <1>1. /\ Typed /\ worker[w].op.phase \in Intent /\ worker[w].op \in Operation
        /\ worker[w].op.phase \in Mine /\ NoOp \in Operation
    BY Known, Operations DEF AnswerIsLost, RowOK, At
  <1>2. /\ At(w, "call") /\ ~At(w, "idle")
        /\ CarriedOut(worker[w].op.phase) \/ UNCHANGED provider
        /\ UNCHANGED <<open, job, op, resume, stalled>>
        /\ faults' \in 0 .. MaxFaults /\ blamed' \in BOOLEAN
    BY <1>1, FaultTyped DEF AnswerIsLost, At, Calls, target
  <1>3. /\ {"retryable", "permanent"} \subseteq Kinds \ {"success"}
        /\ {"retryable", "permanent"} \subseteq Kinds
    BY DEF Kinds
  <1>4. PICK kind \in {"retryable", "permanent"} :
          \/ Ends(w, kind, NoOp)
          \/ Ends(w, kind, worker[w].op) /\ "VK" \notin open
    <2>1. CASE worker[w].op.phase = "dispatch"
      BY <1>1, <2>1, Platforms DEF AnswerIsLost
    <2>2. CASE worker[w].op.phase \in {"create", "init"}
      BY <1>1, <2>2, Platforms DEF AnswerIsLost
    <2>3. CASE worker[w].op.phase \in {"save", "wall"}
      BY <2>3 DEF AnswerIsLost
    <2>4. QED
      BY <1>1, <2>1, <2>2, <2>3 DEF Intent
  <1>5. CASE CarriedOut(worker[w].op.phase)
    <2>1. PICK out \in {NoOp, worker[w].op} :
            Ends(w, kind, out) /\ (out = NoOp \/ "VK" \notin open)
      BY <1>4
    <2>2. /\ worker' \in [Worker -> WorkerRow]
          /\ \A v \in Worker : v # w => worker'[v] = worker[v]
          /\ worker'[w].pc = "finish" /\ worker'[w].kind = kind
          /\ worker'[w].out = out /\ worker'[w].op = worker[w].op
      BY <1>1, <1>3, <2>1, EndsRow
    <2>3. kind # "success"
      BY <1>3
    <2>4. \/ worker'[w].out = NoOp
          \/ worker'[w].out = worker[w].op /\ "VK" \notin open
      BY <2>1, <2>2
    <2>5. QED
      BY <1>2, <1>5, <2>2, <2>3, <2>4, Called
  <1>6. CASE UNCHANGED provider
    <2>1. UNCHANGED <<calls, stored, ready, urls, live>>
      BY <1>6 DEF provider
    <2>2. worker[w].pc = "call"
      BY <1>2 DEF At
    <2>3. worker[w].op.phase # "none" /\ kind # "success"
      BY <1>1, <1>3 DEF Intent
    <2>4. kind \in Kinds \ {"success"} /\ kind \in Kinds
      BY <1>3
    <2>5. CASE Ends(w, kind, NoOp)
      BY <1>2, <2>1, <2>4, <2>5, EndsWithNothing
    <2>6. CASE Ends(w, kind, worker[w].op) /\ "VK" \notin open
      BY <1>2, <2>1, <2>2, <2>3, <2>4, <2>6, EndsWithOwn
    <2>7. QED
      BY <1>4, <2>5, <2>6
  <1>7. QED
    BY <1>2, <1>5, <1>6

-----------------------------------------------------------------------------
(* What is persisted after a call or an upload.                            *)

LEMMA PersistsEnds ==
  ASSUME Inv, NEW w \in Worker, ~At(w, "idle"), NEW kind \in Kinds,
         NEW new \in Operation, op' = new, resume' = 0, Ends(w, kind, new),
         UNCHANGED <<open, job>>,
         UNCHANGED <<calls, stored, ready, urls, live>>,
         UNCHANGED <<faults, stalled, blamed>>,
         new.phase # "none", Evident(new.phase), op = worker[w].op,
         kind = "success" => Whole,
         \/ op.phase \notin Late /\ new.phase \notin {"wall", "posted"}
         \/ op.phase = "wall" /\ new.phase = "posted" /\ calls["wall"] > 0,
         "INSTAGRAM" \in open => op.phase \notin {"dispatch", "media"}
  PROVE Inv'
  <1>1. /\ Typed /\ RowOK(worker[w]) /\ worker[w] \in WorkerRow
        /\ Evident(worker[w].op.phase)
    BY Known
  <1>2. /\ worker' \in [Worker -> WorkerRow]
        /\ \A v \in Worker : v # w => worker'[v] = worker[v]
        /\ worker'[w].pc = "finish" /\ worker'[w].kind = kind
        /\ worker'[w].out = new /\ worker'[w].op = worker[w].op
    BY <1>1, EndsRow
  <1>3. Typed'
    <2>1. resume' \in 0 .. MaxUrls
      BY AdaptersAssumption
    <2>2. QED
      BY <1>1, <1>2, <2>1 DEF Typed
  <1>4. new # NoOp
    BY Operations
  <1>5. Evident(op.phase)'
    BY SamePlatform DEF Evident
  <1>6. RowOK(worker[w])'
    <2>1. Evident(worker[w].out.phase)' /\ Evident(worker[w].op.phase)'
      BY <1>1, <1>2, SamePlatform DEF Evident
    <2>2. kind = "success" => Whole'
      BY SamePlatform DEF Whole
    <2>3. QED
      BY <1>1, <1>2, <1>4, <2>1, <2>2 DEF RowOK, Uploading, Late
  <1>7. ~stalled => CalmRow(worker[w])' /\ calls["dispatch"] = 0
    <2>1. ~stalled => CalmRow(worker[w])'
      BY <1>2 DEF CalmRow
    <2>2. QED
      BY <2>1, Undispatched
  <1>8. "wall" \in open =>
          \/ /\ op.phase \notin Late /\ op'.phase \notin {"wall", "posted"}
             /\ worker'[w].op.phase \notin Late
          \/ /\ worker[w].op.phase \in Late /\ op'.phase = "posted"
             /\ worker'[w].op.phase = "wall" /\ worker'[w].pc # "call"
             /\ calls["wall"] > 0
    BY <1>2 DEF Late
  <1>9. resume' = 0 /\ op' # NoOp /\ worker'[w].pc # "call"
    BY <1>2, <1>4
  <1>10. ~stalled => ~(calls["dispatch"] > 0)
    BY <1>7
  <1>11. QED
    BY <1>2, <1>3, <1>5, <1>6, <1>7, <1>8, <1>9, <1>10, Writes

(* A session or URL is stored, and the upload goes on.                     *)
LEMMA StoresResume ==
  ASSUME Inv, NEW w \in Worker, ~At(w, "idle"),
         NEW pc \in {"query", "send"}, NEW mine \in Operation,
         PersistResume(Upload(UploadPhase, worker[w].url)),
         Step(w, [worker[w] EXCEPT !.pc = pc, !.op = mine]),
         UNCHANGED <<open, job>>,
         UNCHANGED <<calls, stored, ready, urls, live>>,
         UNCHANGED <<faults, stalled, blamed>>,
         mine \in {worker[w].op, Upload(UploadPhase, worker[w].url)},
         worker[w].op # NoOp, worker[w].op.phase \notin Late,
         op = worker[w].op, calls[Creation] > 0, "INSTAGRAM" \notin open
  PROVE Inv'
  <1>1. /\ Typed /\ RowOK(worker[w]) /\ worker[w] \in WorkerRow
        /\ Evident(worker[w].op.phase) /\ worker[w].url \in 0 .. MaxUrls
    BY Known
  <1>2. PICK new : new = Upload(UploadPhase, worker[w].url)
    OBVIOUS
  <1>3. /\ new \in Operation /\ new.phase = UploadPhase
        /\ new.url = worker[w].url /\ UploadPhase \in {"session", "upload"}
        /\ new # NoOp
    <2>1. UploadPhase \in {"session", "upload"} /\ UploadPhase \in Phase
      BY DEF UploadPhase, Phase
    <2>2. QED
      BY <1>1, <1>2, <2>1, Operations
  <1>4. Evident(UploadPhase) /\ UploadPhase \notin Late
    <2>1. UploadPhase \in Mine
      BY <1>1, Platforms DEF UploadPhase
    <2>2. QED
      BY <1>3, <2>1 DEF Evident, Late
  <1> DEFINE row == [worker[w] EXCEPT !.pc = pc, !.op = mine]
  <1>5. /\ row \in WorkerRow /\ row.pc = pc /\ row.op = mine
        /\ row.out = worker[w].out /\ row.kind = worker[w].kind
        /\ row.url = worker[w].url
    BY <1>1 DEF WorkerRow
  <1> HIDE DEF row
  <1>6. /\ worker' = [worker EXCEPT ![w] = row] /\ worker'[w] = row
        /\ \A v \in Worker : v # w => worker'[v] = worker[v]
    BY <1>1 DEF Step, row, Typed
  <1>7. op' = new /\ resume' = worker[w].url
    BY <1>2, <1>3 DEF PersistResume
  <1>8. Typed'
    <2>1. worker' \in [Worker -> WorkerRow]
      BY <1>1, <1>5, <1>6 DEF Typed
    <2>2. QED
      BY <1>1, <1>3, <1>7, <2>1 DEF Typed
  <1>9. Evident(op.phase)'
    BY <1>3, <1>4, <1>7, SamePlatform DEF Evident
  <1>10. mine.phase \notin Late /\ mine # NoOp
         /\ mine.phase \in {worker[w].op.phase, UploadPhase}
    BY <1>2, <1>3, <1>4, Operations
  <1>11. RowOK(worker[w])'
    <2>1. Evident(worker[w].op.phase)'
      BY <1>1, <1>4, <1>5, <1>6, <1>10, SamePlatform DEF Evident
    <2>2. Evident(worker[w].out.phase)'
      <3>1. Evident(worker[w].out.phase)
        BY <1>1 DEF RowOK
      <3>2. QED
        BY <1>5, <1>6, <3>1, SamePlatform DEF Evident
    <2>3. worker[w].kind = "success" => Whole'
      BY <1>1, SamePlatform DEF RowOK, Whole
    <2>4. worker[w].out.phase \in {"wall", "posted"} => mine.phase \in Late
      BY <1>1 DEF RowOK
    <2>5. QED
      BY <1>1, <1>3, <1>5, <1>6, <1>7, <1>10, <2>1, <2>2, <2>3, <2>4,
         SamePlatform
      DEF RowOK
  <1>12. ~stalled => CalmRow(worker[w])'
    <2>1. op' = Upload(UploadPhase', worker'[w].url)
      BY <1>2, <1>5, <1>6, <1>7, SamePlatform
    <2>2. QED
      BY <1>5, <1>6, <2>1 DEF CalmRow
  <1>13. calls["dispatch"] = 0 /\ ~(calls["dispatch"] > 0)
    BY Undispatched
  <1>14. "wall" \in open =>
           /\ op.phase \notin Late /\ op'.phase \notin {"wall", "posted"}
           /\ worker'[w].op.phase \notin Late
    BY <1>3, <1>5, <1>6, <1>7, <1>10
  <1>15. op' # NoOp /\ worker'[w].pc # "call" /\ op'.url = resume'
    BY <1>3, <1>5, <1>6, <1>7
  <1>16. QED
    BY <1>6, <1>8, <1>9, <1>11, <1>12, <1>13, <1>14, <1>15, Writes

LEMMA PersistAnswerInv ==
  ASSUME Inv, NEW w \in Worker, PersistAnswer(w) PROVE Inv'
  <1> DEFINE c == worker[w].op.phase
  <1>0. /\ Typed /\ At(w, "answered") /\ ~At(w, "idle")
        /\ RowOK(worker[w]) /\ worker[w] \in WorkerRow
        /\ UNCHANGED <<open, job>>
        /\ UNCHANGED <<calls, stored, ready, urls, live>>
        /\ UNCHANGED <<faults, stalled, blamed>>
    BY Known DEF PersistAnswer, At, Quiet, provider, history
  <1>1. /\ c \in Intent /\ calls[c] > 0 /\ c \in Mine /\ Evident(c)
        /\ worker[w].op \in Operation /\ worker[w].op # NoOp
        /\ worker[w].pc = "answered"
    <2>1. c \in Intent /\ calls[c] > 0
      BY <1>0 DEF RowOK, At
    <2>2. QED
      BY <1>0, <2>1, Known, Operations DEF Intent, At
  <1>2. {"pending", "success"} \subseteq Kinds
    BY DEF Kinds
  <1>3. /\ Op("container") \in Operation /\ Op("container").phase = "container"
        /\ Op("media") \in Operation /\ Op("media").phase = "media"
        /\ Op("posted") \in Operation /\ Op("posted").phase = "posted"
    BY Operations DEF Phase
  <1>4. CASE c = "dispatch" /\ Ends(w, "pending", Op("media"))
             /\ UNCHANGED target
    <2>1. /\ "media" \in Mine /\ Creation = "create"
          /\ UNCHANGED <<op, resume>>
      BY <1>0, <1>1, <1>4, Platforms DEF target
    <2>2. Evident("media")
      BY <1>1, <1>4, <2>1 DEF Evident, Late
    <2>3. ~stalled => op.phase = "dispatch" /\ resume = 0
      BY <1>0, <1>1, <1>4, Known DEF CalmRow
    <2>4. c \notin Late
      BY <1>4 DEF Late
    <2>5. QED
      BY <1>0, <1>2, <1>3, <1>4, <2>1, <2>2, <2>3, <2>4, InsideEnds DEF Typed
  <1>5. CASE c = "create" /\ Expected(w) /\ Persist(Op("container"))
             /\ Ends(w, "pending", Op("container"))
    <2>1. /\ "container" \in Mine /\ Creation = "create"
      BY <1>0, <1>1, <1>5, Platforms
    <2>2. Evident("container")
      BY <1>1, <1>5, <2>1 DEF Evident, Late
    <2>3. op = worker[w].op
      BY <1>1, <1>5, ExpectedIsOwn
    <2>4. op' = Op("container") /\ resume' = 0
      BY <1>5 DEF Persist
    <2>5. op.phase \notin Late /\ "container" \notin {"wall", "posted"}
          /\ op.phase \notin {"dispatch", "media"}
      BY <1>5, <2>3 DEF Late
    <2>6. QED
      BY <1>0, <1>2, <1>3, <1>5, <2>2, <2>3, <2>4, <2>5, PersistsEnds
  <1>6. CASE c = "wall" /\ Expected(w) /\ Persist(Op("posted"))
             /\ Ends(w, "success", Op("posted"))
    <2>1. /\ "posted" \in Mine /\ Creation = "save" /\ "INSTAGRAM" \notin open
      BY <1>0, <1>1, <1>6, Platforms
    <2>2. Evident("posted") /\ Whole
      BY <1>1, <1>6, <2>1 DEF Evident, Late, Whole
    <2>3. op = worker[w].op
      BY <1>1, <1>6, ExpectedIsOwn
    <2>4. op' = Op("posted") /\ resume' = 0
      BY <1>6 DEF Persist
    <2>5. op.phase = "wall" /\ calls["wall"] > 0
      BY <1>1, <1>6, <2>3
    <2>6. QED
      BY <1>0, <1>2, <1>3, <1>6, <2>1, <2>2, <2>3, <2>4, <2>5, PersistsEnds
  <1>7. ASSUME c \in {"init", "save"}, op = worker[w].op, UNCHANGED <<open>>,
               NEW new, new = Upload(UploadPhase, worker[w].url),
               PersistResume(new),
               Step(w, [worker[w] EXCEPT
                    !.pc = IF c = "init" THEN "query" ELSE "send",
                    !.op = Carries(w, new)])
        PROVE Inv'
    <2>1. c = Creation /\ "INSTAGRAM" \notin open
      BY <1>0, <1>1, <1>7, Platforms
    <2>2. PICK pc \in {"query", "send"} :
            pc = IF c = "init" THEN "query" ELSE "send"
      OBVIOUS
    <2>3. PICK mine \in {worker[w].op, new} : mine = Carries(w, new)
      BY DEF Carries
    <2>4. mine \in Operation
      <3>1. UploadPhase \in Phase /\ worker[w].url \in 0 .. MaxUrls
        BY Known DEF UploadPhase, Phase
      <3>2. QED
        BY <1>1, <1>7, <2>3, <3>1, Operations
    <2>5. Step(w, [worker[w] EXCEPT !.pc = pc, !.op = mine])
      BY <1>7, <2>2, <2>3
    <2>6. c \notin Late /\ calls[Creation] > 0
      BY <1>1, <1>7, <2>1 DEF Late
    <2>7. QED
      BY <1>0, <1>1, <1>7, <2>1, <2>3, <2>4, <2>5, <2>6, StoresResume
  <1>8. CASE Unpersisted(w, worker[w].op) /\ UNCHANGED target
    BY <1>0, <1>1, <1>8, UnpersistedInv DEF target
  <1>9. CASE c = "init" /\ op = worker[w].op
             /\ PersistResume(Upload("session", worker[w].url))
             /\ Step(w, [worker[w] EXCEPT
                  !.pc = IF c = "init" THEN "query" ELSE "send",
                  !.op = Carries(w, Upload("session", worker[w].url))])
    <2>1. UploadPhase = "session"
      BY <1>0, <1>1, <1>9, Platforms DEF UploadPhase
    <2>2. QED
      BY <1>0, <1>7, <1>9, <2>1
  <1>10. CASE c = "save" /\ op = worker[w].op
              /\ PersistResume(Upload("upload", worker[w].url))
              /\ Step(w, [worker[w] EXCEPT
                   !.pc = IF c = "init" THEN "query" ELSE "send",
                   !.op = Carries(w, Upload("upload", worker[w].url))])
    <2>1. UploadPhase = "upload"
      BY <1>0, <1>1, <1>10, Platforms DEF UploadPhase
    <2>2. QED
      BY <1>0, <1>7, <1>10, <2>1
  <1>11. CASE c = "dispatch"
    BY <1>4, <1>8, <1>11 DEF PersistAnswer
  <1>12. CASE c = "create"
    BY <1>5, <1>8, <1>12 DEF PersistAnswer
  <1>13. CASE c = "wall"
    BY <1>6, <1>8, <1>13 DEF PersistAnswer
  <1>14. CASE c = "init"
    BY <1>8, <1>9, <1>14 DEF PersistAnswer
  <1>15. CASE c = "save"
    BY <1>8, <1>10, <1>15 DEF PersistAnswer
  <1>16. QED
    BY <1>1, <1>11, <1>12, <1>13, <1>14, <1>15 DEF Intent

LEMMA PersistRefreshedInv ==
  ASSUME Inv, NEW w \in Worker, PersistRefreshed(w) PROVE Inv'
  <1>0. /\ Typed /\ worker[w].pc = "refreshed" /\ worker[w].pc \in Uploading
        /\ worker[w].op \in Operation
        /\ UNCHANGED <<open, job>>
        /\ UNCHANGED <<calls, stored, ready, urls, live>>
        /\ UNCHANGED <<faults, stalled, blamed>>
    BY Known DEF PersistRefreshed, At, Quiet, provider, history, Uploading
  <1>1. /\ ~At(w, "idle") /\ worker[w].op.phase \notin Late
        /\ "INSTAGRAM" \notin open /\ calls[Creation] > 0
        /\ UploadPhase \in {"session", "upload"}
        /\ UploadPhase \in Phase /\ worker[w].url \in 0 .. MaxUrls
    BY <1>0, KnownUpload, Known DEF Phase
  <1>2. "VK" \in open /\ UploadPhase = "upload"
    BY <1>0, Known DEF RowOK, UploadPhase
  <1>3. CASE op = worker[w].op
    <2>1. PICK new : new = Upload(UploadPhase, worker[w].url)
      OBVIOUS
    <2>2. /\ PersistResume(new)
          /\ Step(w, [worker[w] EXCEPT !.pc = "send", !.op = new])
      BY <1>2, <1>3, <2>1 DEF PersistRefreshed
    <2>3. new \in Operation
      BY <1>1, <2>1, Operations
    <2>4. worker[w].op # NoOp
      BY <1>1, <1>3 DEF Inv, CreateInv
    <2>5. QED
      BY <1>0, <1>1, <1>3, <2>1, <2>2, <2>3, <2>4, StoresResume
  <1>4. CASE op # worker[w].op
    <2>1. Ends(w, "retryable", NoOp) /\ UNCHANGED <<op, resume>>
      BY <1>4 DEF PersistRefreshed, target
    <2>2. "retryable" \in Kinds \ {"success"}
      BY DEF Kinds
    <2>3. faults' \in 0 .. MaxFaults /\ blamed' \in BOOLEAN
      BY <1>0 DEF Typed
    <2>4. QED
      BY <1>0, <1>1, <2>1, <2>2, <2>3, EndsWithNothing
  <1>5. QED
    BY <1>3, <1>4

LEMMA PersistVideoInv ==
  ASSUME Inv, NEW w \in Worker, PersistVideo(w) PROVE Inv'
  <1>0. /\ Typed /\ worker[w].pc = "uploaded" /\ worker[w].pc \in Uploading
        /\ UNCHANGED <<open, job>>
        /\ UNCHANGED <<calls, stored, ready, urls, live>>
        /\ UNCHANGED <<faults, stalled, blamed>>
    BY Known DEF PersistVideo, At, Quiet, provider, history, Uploading
  <1>1. /\ ~At(w, "idle") /\ worker[w].op.phase \notin Late
        /\ "INSTAGRAM" \notin open /\ calls[Creation] > 0
    BY <1>0, KnownUpload
  <1>2. CASE Expected(w)
    <2>1. /\ op' = Op("video") /\ resume' = 0
          /\ Ends(w, "pending", Op("video"))
      BY <1>2 DEF PersistVideo, Persist
    <2>2. /\ Op("video") \in Operation /\ Op("video").phase = "video"
          /\ "pending" \in Kinds
      BY Operations DEF Phase, Kinds
    <2>3. op = worker[w].op
      <3>1. op # NoOp
        BY <1>1 DEF Inv, CreateInv
      <3>2. QED
        BY <1>2, <3>1 DEF Expected
    <2>4. Evident("video")
      <3>1. "video" \in Mine
        BY <1>0, <1>1, Platforms
      <3>2. stored = Size
        BY <1>0, Known DEF RowOK
      <3>3. QED
        BY <1>1, <3>1, <3>2 DEF Evident
    <2>5. QED
      BY <1>0, <1>1, <2>1, <2>2, <2>3, <2>4, PersistsEnds
  <1>3. CASE ~Expected(w)
    <2>1. Unpersisted(w, NoOp) /\ UNCHANGED <<op, resume>>
      BY <1>3 DEF PersistVideo, target
    <2>2. NoOp \in Operation
      BY Operations
    <2>3. QED
      BY <1>0, <1>1, <2>1, <2>2, UnpersistedInv
  <1>4. QED
    BY <1>2, <1>3

-----------------------------------------------------------------------------
(* The queue.                                                              *)

(* A worker starts from the operation that it finds.                       *)
LEMMA ClaimInv ==
  ASSUME Inv, NEW w \in Worker, claimContentPublish(w) PROVE Inv'
  <1>1. /\ Typed /\ RowInv /\ CreateInv /\ WallInv /\ CalmInv
        /\ Evident("none")
    BY Known DEF Inv
  <1>2. PICK pc \in {"begin", "finish"}, kind \in {"none", "permanent"},
             known \in BOOLEAN :
          worker' = [worker EXCEPT ![w] =
            [Idle EXCEPT !.pc = pc, !.kind = kind, !.known = known, !.op = op]]
    BY DEF claimContentPublish, Step
  <1>3. /\ At(w, "idle") /\ Claimable
        /\ job' = [job EXCEPT !.status = "RUNNING",
                     !.target = IF op = NoOp THEN "PUBLISHING"
                                ELSE "PROCESSING",
                     !.owner = w, !.lease = TRUE]
        /\ UNCHANGED <<open, op, resume>>
        /\ UNCHANGED <<calls, stored, ready, urls, live>>
        /\ UNCHANGED <<faults, stalled, blamed>>
    BY DEF claimContentPublish, target, provider, history
  <1> DEFINE row == [Idle EXCEPT !.pc = pc, !.kind = kind, !.known = known,
                                 !.op = op]
  <1>4. /\ row \in WorkerRow /\ row.pc = pc /\ row.kind = kind /\ row.op = op
        /\ row.out = NoOp
    <2>1. op \in Operation
      BY <1>1 DEF Typed
    <2>2. QED
      BY <2>1, IdleTyped DEF WorkerRow
  <1> HIDE DEF row
  <1>5. /\ worker' \in [Worker -> WorkerRow] /\ worker'[w] = row
        /\ \A v \in Worker : v # w => worker'[v] = worker[v]
    BY <1>1, <1>2, <1>4 DEF Typed, row
  <1>6. /\ job' \in JobRow /\ job'.status = "RUNNING" /\ job'.owner = w
        /\ job'.lease
    BY <1>1, <1>3 DEF Typed, JobRow
  <1>7. Typed'
    BY <1>1, <1>3, <1>5, <1>6 DEF Typed
  <1>8. Grows
    BY <1>3 DEF Grows
  <1>9. RowInv'
    <2>1. /\ op.phase \in Phase /\ Evident(op.phase)
      BY <1>1 DEF Typed, Operation, RowInv
    <2>2. /\ Evident(worker[w].op.phase)' /\ Evident(worker[w].out.phase)'
          /\ Evident(op.phase)'
      BY <1>1, <1>3, <1>4, <1>5, <2>1, SamePlatform, Operations DEF Evident
    <2>3. RowOK(worker[w])'
      BY <1>3, <1>4, <1>5, <2>2, Operations DEF RowOK, Uploading
    <2>4. \A v \in Worker : RowOK(worker[v])'
      BY <1>1, <1>5, <1>8, <2>3, OthersOK
    <2>5. QED
      BY <1>1, <1>3, <1>6, <2>2, <2>4, SamePlatform DEF RowInv
  <1>10. CreateInv'
    <2>1. \A v \in Worker : At(v, "call")' =>
            At(v, "call") /\ worker'[v] = worker[v]
      BY <1>4, <1>5 DEF At
    <2>2. QED
      BY <1>1, <1>3, <2>1, SamePlatform DEF CreateInv
  <1>11. WallInv'
    <2> SUFFICES ASSUME "wall" \in open PROVE WallInv'
      BY <1>3 DEF WallInv
    <2>1. \A v \in Worker : At(v, "call")' =>
            At(v, "call") /\ worker'[v] = worker[v]
      BY <1>4, <1>5 DEF At
    <2>2. \A v \in Worker : Owns(v)' => v = w
      BY <1>6 DEF Owns
    <2>3. \/ \E v \in Worker : worker'[v].op.phase \in Late
          \/ op'.phase \in {"wall", "posted"}
          => op.phase \in Late
      BY <1>1, <1>3, <1>4, <1>5 DEF WallInv, Late
    <2>4. QED
      BY <1>1, <1>3, <1>4, <1>5, <2>1, <2>2, <2>3 DEF WallInv
  <1>12. CalmInv'
    <2> SUFFICES ASSUME ~stalled PROVE CalmInv'
      BY <1>3 DEF CalmInv
    <2>1. \A v \in Worker : At(v, "idle")
      BY <1>1, <1>3 DEF CalmInv, Claimable, Owns
    <2>2. \A v \in Worker : ~At(v, "idle")' => v = w
      BY <1>5, <2>1 DEF At
    <2>3. Owns(w)' /\ CalmRow(worker[w])'
      BY <1>3, <1>4, <1>5, <1>6 DEF Owns, CalmRow
    <2>4. \A v \in Worker : ~At(v, "call")'
      BY <1>4, <1>5, <2>2 DEF At
    <2>5. QED
      BY <1>1, <1>3, <1>6, <2>2, <2>3, <2>4 DEF CalmInv
  <1>13. QED
    BY <1>7, <1>9, <1>10, <1>11, <1>12 DEF Inv

(* An execution ends without having written anything more.                 *)
LEMMA Drops ==
  ASSUME Inv, NEW w \in Worker, ~At(w, "idle"), Step(w, Idle),
         UNCHANGED <<open, job, op, resume, calls, stored, ready, urls, live>>,
         faults' \in 0 .. MaxFaults, blamed' \in BOOLEAN, UNCHANGED stalled
  PROVE Inv'
  <1>1. Typed /\ RowOK(worker[w]) /\ Evident("none")
    BY Known
  <1>2. /\ worker' \in [Worker -> WorkerRow] /\ worker'[w] = Idle
        /\ \A v \in Worker : v # w => worker'[v] = worker[v]
    BY <1>1, IdleTyped DEF Typed, Step
  <1>3. Typed'
    BY <1>1, <1>2 DEF Typed
  <1>4. /\ RowInv /\ CreateInv /\ WallInv /\ CalmInv
    BY DEF Inv
  <1>5. Grows
    BY DEF Grows
  <1>6. RowInv'
    <2>1. Evident("none")'
      BY <1>1, SamePlatform DEF Evident
    <2>2. Evident(worker[w].op.phase)' /\ Evident(worker[w].out.phase)'
      BY <1>1, <1>2, IdleTyped, Operations, SamePlatform DEF Evident
    <2>3. RowOK(worker[w])'
      BY <1>2, <2>2, IdleTyped, Operations DEF RowOK, Uploading
    <2>4. \A v \in Worker : RowOK(worker[v])'
      BY <1>1, <1>2, <1>4, <1>5, <2>3, OthersOK
    <2>5. Evident(op.phase)' /\ (Whole => Whole')
      BY <1>4, SamePlatform DEF RowInv, Evident, Whole
    <2>6. QED
      BY <1>4, <2>4, <2>5, SamePlatform DEF RowInv
  <1>7. \A v \in Worker : ~At(v, "idle")' =>
          v # w /\ ~At(v, "idle") /\ worker'[v] = worker[v]
    BY <1>2, IdleTyped DEF At
  <1>8. \A v \in Worker : At(v, "call")' => ~At(v, "idle")'
    BY DEF At
  <1>9. \A v \in Worker : Owns(v)' <=> Owns(v)
    BY DEF Owns
  <1>10. CreateInv'
    BY <1>4, <1>7, <1>8, SamePlatform DEF CreateInv, At
  <1>11. WallInv'
    <2> SUFFICES ASSUME "wall" \in open PROVE WallInv'
      BY DEF WallInv
    <2>1. \A v \in Worker : worker'[v].op.phase \in Late =>
            worker[v].op.phase \in Late
      BY <1>2, IdleTyped, Operations DEF Late
    <2>2. QED
      BY <1>4, <1>7, <1>8, <1>9, <2>1 DEF WallInv, At
  <1>12. CalmInv'
    <2> SUFFICES ASSUME ~stalled PROVE CalmInv'
      BY DEF CalmInv
    <2>1. \A v \in Worker : ~At(v, "idle") =>
            Owns(v) /\ job.lease /\ CalmRow(worker[v])
      BY <1>4 DEF CalmInv
    <2>2. \A v \in Worker : At(v, "idle")'
      BY <1>7, <2>1 DEF Owns
    <2>3. \A v \in Worker : ~At(v, "call")'
      BY <2>2 DEF At
    <2>4. QED
      BY <1>4, <2>2, <2>3 DEF CalmInv
  <1>13. QED
    BY <1>3, <1>6, <1>10, <1>11, <1>12 DEF Inv

LEMMA CrashInv ==
  ASSUME Inv, NEW w \in Worker, Crash(w) PROVE Inv'
  <1>1. Typed
    BY DEF Inv
  <1>2. /\ ~At(w, "idle") /\ Step(w, Idle)
        /\ Fault(Owns(w) /\ op.phase \in Intent \cup {"none"})
        /\ UNCHANGED <<open, job, op, resume>>
        /\ UNCHANGED <<calls, stored, ready, urls, live>>
    BY DEF Crash, target, provider
  <1>3. (Owns(w) /\ op.phase \in Intent \cup {"none"}) \in BOOLEAN
    OBVIOUS
  <1>4. QED
    BY <1>1, <1>2, <1>3, FaultTyped, Drops

(* The owner writes what it knows over what it has become: the same, or a  *)
(* later one.                                                              *)
Shown == {"SUCCEEDED", "PROCESSING", "WAITING_FOR_REAUTH",
          "RETRY_SCHEDULED", "FAILED"}

LEMMA FinishInv ==
  ASSUME Inv, NEW w \in Worker, finishContentPublish(w) PROVE Inv'
  <1>1. /\ Typed /\ RowInv /\ CreateInv /\ WallInv /\ CalmInv
        /\ RowOK(worker[w]) /\ Evident("none") /\ worker[w] \in WorkerRow
        /\ worker[w].out \in Operation
    BY Known DEF Inv
  <1>2. /\ At(w, "finish") /\ ~At(w, "idle") /\ Step(w, Idle)
        /\ UNCHANGED <<open, resume, calls, stored, ready, urls, live>>
        /\ UNCHANGED <<faults, stalled, blamed>>
    BY DEF finishContentPublish, At, provider, history
  <1>3. CASE ~Owns(w)
    <2>1. UNCHANGED <<job, op>>
      BY <1>3 DEF finishContentPublish
    <2>2. faults' \in 0 .. MaxFaults /\ blamed' \in BOOLEAN
      BY <1>1, <1>2 DEF Typed
    <2>3. QED
      BY <1>2, <2>1, <2>2, Drops
  <1>4. CASE Owns(w)
    <2> DEFINE out == worker[w].out
    <2>1. op' = IF out = NoOp THEN op ELSE out
      BY <1>4 DEF finishContentPublish, Coalesced
    <2>2. /\ job' \in JobRow /\ job'.status # "RUNNING"
          /\ job'.status = "SUCCEEDED" => worker[w].kind = "success"
      <3>1. job \in JobRow /\ job.tries \in 0 .. Budget
        BY <1>1 DEF Typed, JobRow
      <3>2. PICK status \in {"SUCCEEDED", "RETRY_SCHEDULED", "FAILED"},
                 shown \in Shown, tries \in 0 .. Budget :
              /\ job' = Released(status, shown, tries)
              /\ status = "SUCCEEDED" => worker[w].kind = "success"
        <4>1. \/ /\ job' = Released("SUCCEEDED", "SUCCEEDED", job.tries)
                 /\ worker[w].kind = "success"
              \/ \E shown \in {"PROCESSING", "WAITING_FOR_REAUTH"} :
                   job' = Released("RETRY_SCHEDULED", shown, job.tries)
              \/ job' = Released("FAILED", "FAILED", job.tries)
              \/ /\ job' = Released("RETRY_SCHEDULED", "RETRY_SCHEDULED",
                                   job.tries + 1)
                 /\ job.tries < Budget
          BY <1>4 DEF finishContentPublish
        <4>2. job.tries < Budget => job.tries + 1 \in 0 .. Budget
          BY <3>1, AdaptersAssumption
        <4>3. QED
          BY <3>1, <4>1, <4>2 DEF Shown
      <3>3. QED
        BY <3>2 DEF Released, Shown, JobRow
    <2>3. /\ worker' \in [Worker -> WorkerRow] /\ worker'[w] = Idle
          /\ \A v \in Worker : v # w => worker'[v] = worker[v]
      BY <1>1, <1>2, IdleTyped DEF Typed, Step
    <2>4. op' \in Operation /\ op' \in {op, out}
      BY <1>1, <2>1 DEF Typed
    <2>5. Typed'
      BY <1>1, <1>2, <2>2, <2>3, <2>4 DEF Typed
    <2>6. Grows
      BY <1>2, <2>1 DEF Grows
    <2>7. RowInv'
      <3>1. Evident(op.phase) /\ Evident(out.phase)
        BY <1>1 DEF RowInv, RowOK
      <3>2. Evident(op.phase)'
        BY <1>2, <2>4, <3>1, SamePlatform DEF Evident
      <3>3. Evident(worker[w].op.phase)' /\ Evident(worker[w].out.phase)'
        BY <1>1, <1>2, <2>3, IdleTyped, Operations, SamePlatform DEF Evident
      <3>4. RowOK(worker[w])'
        BY <2>3, <3>3, IdleTyped, Operations DEF RowOK, Uploading
      <3>5. \A v \in Worker : RowOK(worker[v])'
        BY <1>1, <2>3, <2>6, <3>4, OthersOK
      <3>6. job'.status = "SUCCEEDED" => Whole'
        BY <1>1, <1>2, <2>2, SamePlatform DEF RowOK, Whole
      <3>7. QED
        BY <1>1, <1>2, <3>2, <3>5, <3>6, SamePlatform DEF RowInv
    <2>8. \A v \in Worker : At(v, "call")' =>
            At(v, "call") /\ worker'[v] = worker[v]
      BY <2>3, IdleTyped DEF At
    <2>9. CreateInv'
      <3>1. op' = NoOp => op = NoOp
        BY <2>1
      <3>2. QED
        BY <1>1, <1>2, <2>8, <3>1, SamePlatform DEF CreateInv
    <2>10. WallInv'
      <3> SUFFICES ASSUME "wall" \in open PROVE WallInv'
        BY <1>2 DEF WallInv
      <3>1. \A v \in Worker : ~Owns(v)'
        BY <2>2 DEF Owns
      <3>2. \A v \in Worker : worker'[v].op.phase \in Late =>
              worker[v].op.phase \in Late
        BY <2>3, IdleTyped, Operations DEF Late
      <3>3. calls'["wall"] = calls["wall"] /\ calls["wall"] \in 0 .. 2
        BY <1>1, <1>2 DEF Typed, Intent
      <3>4. CASE op' = op
        <4>1. \/ \E v \in Worker : worker'[v].op.phase \in Late
              \/ op'.phase \in {"wall", "posted"}
              => op'.phase \in Late
          BY <1>1, <3>2, <3>4 DEF WallInv
        <4>2. QED
          BY <1>1, <2>8, <3>1, <3>3, <3>4, <4>1 DEF WallInv
      <3>5. CASE op' = out /\ out # NoOp
        <4>1. CASE worker[w].op.phase \in Late
          <5>1. out.phase = "posted" /\ calls["wall"] > 0
            BY <1>1, <3>5, <4>1 DEF RowOK, Evident
          <5>2. \A v \in Worker : ~(At(v, "call")'
                                    /\ worker'[v].op.phase = "wall")
            BY <1>1, <2>8, <3>3, <5>1 DEF WallInv
          <5>3. QED
            BY <1>1, <3>1, <3>3, <3>5, <5>1, <5>2 DEF WallInv, Late
        <4>2. CASE worker[w].op.phase \notin Late
          <5>1. /\ \A v \in Worker : worker[v].op.phase \notin Late
                /\ op.phase \notin {"wall", "posted"}
            BY <1>1, <1>2, <1>4, <4>2 DEF WallInv
          <5>2. out.phase \notin {"wall", "posted"}
            BY <1>1, <4>2 DEF RowOK
          <5>3. calls["wall"] = 0
            BY <1>1, <3>3, <5>1 DEF WallInv
          <5>4. \A v \in Worker : ~(At(v, "call")'
                                    /\ worker'[v].op.phase = "wall")
            BY <2>8, <5>1 DEF Late
          <5>5. QED
            BY <3>1, <3>2, <3>3, <3>5, <5>1, <5>2, <5>3, <5>4 DEF WallInv
        <4>3. QED
          BY <4>1, <4>2
      <3>6. QED
        BY <2>1, <3>4, <3>5
    <2>11. CalmInv'
      <3> SUFFICES ASSUME ~stalled PROVE CalmInv'
        BY <1>2 DEF CalmInv
      <3>1. \A v \in Worker : ~At(v, "idle") =>
              Owns(v) /\ job.lease /\ CalmRow(worker[v])
        BY <1>1 DEF CalmInv
      <3>2. \A v \in Worker : At(v, "idle")'
        BY <1>4, <2>3, <3>1, IdleTyped DEF At, Owns
      <3>3. \A v \in Worker : ~At(v, "call")'
        BY <3>2 DEF At
      <3>4. \/ op' = op
            \/ op' = Op("media") /\ op.phase = "dispatch" /\ resume = 0
        BY <1>2, <2>1, <3>1 DEF CalmRow, At
      <3>5. Op("media").phase = "media"
        BY Operations DEF Phase
      <3>6. QED
        BY <1>1, <1>2, <3>2, <3>3, <3>4, <3>5 DEF CalmInv
    <2>12. QED
      BY <2>5, <2>7, <2>9, <2>10, <2>11 DEF Inv
  <1>5. QED
    BY <1>3, <1>4

(* A step outside of every execution.                                      *)
LEMMA Aside ==
  ASSUME Inv, Typed', UNCHANGED <<open, op, resume, worker, calls, stored>>,
         job'.status = "SUCCEEDED" => job.status = "SUCCEEDED",
         \A v \in Worker : Owns(v)' => Owns(v),
         ~stalled' => /\ ~stalled
                      /\ \A v \in Worker : ~At(v, "idle") =>
                           Owns(v)' /\ job'.lease
  PROVE Inv'
  <1>1. Typed /\ RowInv /\ CreateInv /\ WallInv /\ CalmInv
    BY DEF Inv
  <1>2. Grows
    BY DEF Grows
  <1>3. \A v \in Worker : worker[v].op.phase \in Phase
                          /\ worker[v].out.phase \in Phase
    BY <1>1 DEF Typed, WorkerRow, Operation
  <1>4. RowInv'
    <2>1. \A v \in Worker : RowOK(worker[v])'
      <3> SUFFICES ASSUME NEW v \in Worker PROVE RowOK(worker[v])'
        OBVIOUS
      <3>1. RowOK(worker[v])
        BY <1>1 DEF RowInv
      <3>2. Evident(worker[v].op.phase)' /\ Evident(worker[v].out.phase)'
        BY <3>1, SamePlatform DEF RowOK, Evident
      <3>3. worker[v].kind = "success" => Whole'
        BY <3>1, SamePlatform DEF RowOK, Whole
      <3>4. QED
        BY <3>1, <3>2, <3>3, SamePlatform DEF RowOK
    <2>2. Evident(op.phase)' /\ (Whole => Whole')
      BY <1>1, SamePlatform DEF RowInv, Evident, Whole
    <2>3. QED
      BY <1>1, <2>1, <2>2, SamePlatform DEF RowInv
  <1>5. CreateInv'
    BY <1>1, SamePlatform DEF CreateInv, At
  <1>6. WallInv'
    BY <1>1 DEF WallInv, At
  <1>7. CalmInv'
    <2> SUFFICES ASSUME ~stalled' PROVE CalmInv'
      BY DEF CalmInv
    <2>1. \A v \in Worker : ~At(v, "idle") => CalmRow(worker[v])'
      <3> SUFFICES ASSUME NEW v \in Worker, ~At(v, "idle")
                   PROVE CalmRow(worker[v])'
        OBVIOUS
      <3>1. CalmRow(worker[v])
        BY <1>1 DEF CalmInv
      <3>2. QED
        BY <3>1, SamePlatform DEF CalmRow
    <2>2. QED
      BY <1>1, <2>1 DEF CalmInv, At
  <1>8. QED
    BY <1>4, <1>5, <1>6, <1>7 DEF Inv

LEMMA LeaseExpiresInv ==
  ASSUME Inv, LeaseExpires \/ Stall PROVE Inv'
  <1>1. Typed /\ CalmInv
    BY DEF Inv
  <1>2. /\ job.status = "RUNNING" /\ job' = [job EXCEPT !.lease = FALSE]
        /\ UNCHANGED <<open, worker, op, resume>>
        /\ UNCHANGED <<calls, stored, ready, urls, live>>
    BY DEF LeaseExpires, Stall, target, provider
  <1>3. /\ job' \in JobRow /\ job'.status = job.status
        /\ job'.owner = job.owner
    BY <1>1, <1>2 DEF Typed, JobRow
  <1>4. /\ faults' \in 0 .. MaxFaults /\ stalled' \in BOOLEAN
        /\ blamed' \in BOOLEAN
    <2>1. CASE LeaseExpires
      BY <1>1, <2>1 DEF LeaseExpires, history, Typed
    <2>2. CASE Stall
      <3>1. /\ faults < MaxFaults /\ faults' = faults + 1
            /\ stalled' = TRUE /\ blamed' = TRUE
        BY <2>2 DEF Stall
      <3>2. faults \in 0 .. MaxFaults /\ MaxFaults \in Nat
        BY <1>1, AdaptersAssumption DEF Typed
      <3>3. QED
        BY <3>1, <3>2
    <2>3. QED
      BY <2>1, <2>2
  <1>5. Typed'
    BY <1>1, <1>2, <1>3, <1>4 DEF Typed
  <1>6. ~stalled' => ~stalled /\ At(job.owner, "idle")
    BY DEF LeaseExpires, Stall, history
  <1>7. ~stalled' => \A v \in Worker : At(v, "idle")
    BY <1>1, <1>6 DEF CalmInv, Owns
  <1>8. QED
    BY <1>2, <1>3, <1>5, <1>6, <1>7, Aside DEF Owns

LEMMA ReauthEndsInv ==
  ASSUME Inv, NEW status \in {"READY", "FAILED"}, ReauthEnds(status)
  PROVE Inv'
  <1>1. Typed /\ CalmInv
    BY DEF Inv
  <1>2. /\ job.status # "RUNNING"
        /\ job' = Released(status, status, job.tries)
        /\ UNCHANGED <<open, worker, op, resume, faults, stalled>>
        /\ UNCHANGED <<calls, stored, ready, urls, live>>
        /\ blamed' \in BOOLEAN
    BY <1>1 DEF ReauthEnds, target, provider, Typed
  <1>3. job' \in JobRow /\ job'.status = status
    BY <1>1, <1>2 DEF Typed, JobRow, Released
  <1>4. Typed'
    BY <1>1, <1>2, <1>3 DEF Typed
  <1>5. \A v \in Worker : ~Owns(v) /\ ~Owns(v)'
    BY <1>2, <1>3 DEF Owns
  <1>6. ~stalled => \A v \in Worker : At(v, "idle")
    BY <1>1, <1>5 DEF CalmInv
  <1>7. QED
    BY <1>2, <1>3, <1>4, <1>5, <1>6, Aside

LEMMA ProviderInv ==
  ASSUME Inv,
         \/ \E state \in {"done", "rejected"} : Processes(state)
         \/ \E url \in 1 .. MaxUrls : UrlExpires(url)
  PROVE Inv'
  <1>1. Typed /\ CalmInv
    BY DEF Inv
  <1>2. /\ UNCHANGED <<open, job, worker, op, resume>>
        /\ UNCHANGED <<calls, stored, urls>>
    BY DEF Processes, UrlExpires, Calls, target
  <1>3. /\ faults' \in 0 .. MaxFaults /\ blamed' \in BOOLEAN
        /\ stalled' = stalled
    <2>1. \/ Fault(TRUE) \/ Fault("YOUTUBE" \in open) \/ UNCHANGED history
      BY DEF Processes, UrlExpires
    <2>2. CASE UNCHANGED history
      BY <1>1, <2>2 DEF history, Typed
    <2>3. CASE Fault(TRUE)
      BY <1>1, <2>3, FaultTyped
    <2>4. CASE Fault("YOUTUBE" \in open)
      <3>1. ("YOUTUBE" \in open) \in BOOLEAN
        OBVIOUS
      <3>2. QED
        BY <1>1, <2>4, <3>1, FaultTyped
    <2>5. QED
      BY <2>1, <2>2, <2>3, <2>4
  <1>4. /\ ready' \in {"none", "processing", "done", "rejected"}
        /\ live' \subseteq live
    BY <1>1 DEF Processes, UrlExpires, Typed
  <1>5. Typed'
    BY <1>1, <1>2, <1>3, <1>4 DEF Typed
  <1>6. ~stalled => \A v \in Worker : ~At(v, "idle") =>
          Owns(v)' /\ job'.lease
    BY <1>1, <1>2 DEF CalmInv, Owns
  <1>7. QED
    BY <1>2, <1>3, <1>5, <1>6, Aside DEF Owns

-----------------------------------------------------------------------------
(* The theorems.                                                           *)

LEMMA InvInit == Init => Inv
  <1> SUFFICES ASSUME Init PROVE Inv
    OBVIOUS
  <1>1. /\ worker = [w \in Worker |-> Idle]
        /\ \A w \in Worker : worker[w] = Idle /\ At(w, "idle")
    BY IdleTyped DEF Init, At
  <1>2. Typed
    <2>1. 0 \in 0 .. MaxUrls /\ 0 \in 0 .. Size /\ 0 \in 0 .. MaxFaults
          /\ 0 \in 0 .. Budget
      BY AdaptersAssumption
    <2>2. job \in JobRow
      BY <2>1 DEF Init, JobRow
    <2>3. worker \in [Worker -> WorkerRow]
      BY <1>1, IdleTyped
    <2>4. calls \in [Intent -> 0 .. 2]
      BY DEF Init
    <2>5. stored \in 0 .. Size /\ urls \in 0 .. MaxUrls
          /\ faults \in 0 .. MaxFaults /\ resume \in 0 .. MaxUrls
      BY <2>1 DEF Init
    <2>6. /\ open \in Scopes /\ ready = "none" /\ live = {}
          /\ stalled = FALSE /\ blamed = FALSE /\ op = NoOp
      BY DEF Init
    <2>7. QED
      BY <2>2, <2>3, <2>4, <2>5, <2>6, Operations DEF Typed
  <1>3. Evident("none")
    BY <1>2, Platforms DEF Evident, Late
  <1>4. /\ op.phase = "none" /\ op = NoOp
        /\ \A c \in Intent : calls[c] = 0
    BY Operations DEF Init
  <1>5. RowInv
    <2>1. \A w \in Worker : RowOK(worker[w])
      BY <1>1, <1>3, IdleTyped, Operations DEF RowOK, Uploading
    <2>2. "wall" \in Intent
      BY DEF Intent
    <2>3. QED
      BY <1>3, <1>4, <2>1, <2>2 DEF RowInv, Init
  <1>6. CreateInv
    <2>1. Creation \in Intent
      BY <1>2, CreationIsIntent
    <2>2. QED
      BY <1>1, <1>4, <2>1, IdleTyped DEF CreateInv, At
  <1>7. WallInv
    <2>1. "wall" \in Intent
      BY DEF Intent
    <2>2. QED
      BY <1>1, <1>4, <2>1, IdleTyped, Operations DEF WallInv, At, Late
  <1>8. CalmInv
    <2>1. "dispatch" \in Intent
      BY DEF Intent
    <2>2. QED
      BY <1>1, <1>4, <2>1, IdleTyped DEF CalmInv, At, Init
  <1>9. QED
    BY <1>2, <1>5, <1>6, <1>7, <1>8 DEF Inv

LEMMA InvStep == Inv /\ [Next]_vars => Inv'
  <1> SUFFICES ASSUME Inv, [Next]_vars PROVE Inv'
    OBVIOUS
  <1>1. ASSUME NEW w \in Worker, Execute(w) PROVE Inv'
    <2>1. 0 \in 0 .. Size /\ Size \in 0 .. Size
      BY AdaptersAssumption
    <2>2. QED
      BY <1>1, UncertainInv, PersistIntentInv, AnswersInv, PersistAnswerInv,
         PollInv, LoadResumeInv, QueryOffsetInv, SendBytesInv, UrlIsGoneInv,
         RefreshInv, PersistRefreshedInv, PersistVideoInv, FinishInv
      DEF Execute
  <1>2. ASSUME NEW w \in Worker, Fails(w) PROVE Inv'
    BY <1>2, UnavailableInv, AnswerIsLostInv, RefusesInv, SendBytesInv,
       OffsetUnknownInv, BreaksOffInv, CrashInv DEF Fails
  <1>3. CASE UNCHANGED vars
    <2>1. /\ UNCHANGED <<open, job, op, resume, worker>>
          /\ UNCHANGED <<calls, stored, ready, urls, live>>
          /\ UNCHANGED <<faults, stalled, blamed>>
      BY <1>3 DEF vars
    <2>2. Typed /\ CalmInv
      BY DEF Inv
    <2>3. Typed'
      BY <2>1, <2>2 DEF Typed
    <2>4. ~stalled => \A v \in Worker : ~At(v, "idle") =>
            Owns(v)' /\ job'.lease
      BY <2>1, <2>2 DEF CalmInv, Owns
    <2>5. QED
      BY <2>1, <2>3, <2>4, Aside DEF Owns
  <1>4. QED
    BY <1>1, <1>2, <1>3, ClaimInv, LeaseExpiresInv, ProviderInv,
       ReauthEndsInv DEF Next

(* The invariant holds in every behaviour: what an operation says of the   *)
(* provider is true, creating calls come from a fresh intent, and a worker *)
(* with a lease works alone on the operation of the target.                *)
THEOREM AdaptersInvariant == Spec => []Inv
  BY InvInit, InvStep, PTL DEF Spec

(* Every row keeps to its type, and a stored session or URL is that of the *)
(* operation (persistProviderResume).                                      *)
THEOREM AdaptersTypeCorrect == Spec => []TypeOK
  <1>1. Inv => TypeOK
    <2> SUFFICES ASSUME Inv PROVE TypeOK
      OBVIOUS
    <2>1. Typed /\ CalmInv
      BY DEF Inv
    <2>2. resume # 0 /\ ~stalled => op = Upload(op.phase, resume)
      BY <2>1 DEF CalmInv, Typed, Operation, Upload
    <2>3. QED
      BY <2>1, <2>2 DEF TypeOK, Typed
  <1>2. QED
    BY <1>1, AdaptersInvariant, PTL

(* A call that creates something is carried out at most once, whatever is  *)
(* lost, dies or lapses; media_publish, unless a lease has lapsed under a  *)
(* worker (content_publish_vk.go:92-98, content_publish_youtube.go:90-96,  *)
(* content_publish_instagram.go:69-76).                                    *)
THEOREM CallsAlwaysMadeOnce == Spec => []CallsAreMadeOnce
  <1>1. Inv => CallsAreMadeOnce
    <2> SUFFICES ASSUME Inv, NEW c \in Intent, calls[c] > 1
                 PROVE c = "dispatch" /\ stalled
      BY DEF CallsAreMadeOnce
    <2>1. Typed /\ RowInv /\ CreateInv /\ WallInv /\ CalmInv
      BY DEF Inv
    <2>2. calls[c] \in 0 .. 2 /\ calls[c] > 0 /\ ~(calls[c] <= 1)
      BY <2>1 DEF Typed
    <2>3. c \in Mine /\ c # Creation
      BY <2>1, <2>2 DEF RowInv, CreateInv
    <2>4. c # "wall"
      BY <2>1, <2>2 DEF RowInv, WallInv
    <2>5. c = "dispatch"
      BY <2>1, <2>3, <2>4, Platforms DEF Intent
    <2>6. QED
      BY <2>1, <2>2, <2>5 DEF CalmInv
  <1>2. QED
    BY <1>1, AdaptersInvariant, PTL

(* A target is shown as published only with everything done: the upload    *)
(* whole or the container published, and the wall post made                *)
(* (content_publish_worker.go:463-483).                                    *)
THEOREM SuccessesAreAlwaysComplete == Spec => []SuccessIsComplete
  <1>1. Inv => SuccessIsComplete
    <2> SUFFICES ASSUME Inv, job.status = "SUCCEEDED"
                 PROVE /\ calls[Creation] = 1
                       /\ "INSTAGRAM" \in open => calls["dispatch"] > 0
                       /\ "INSTAGRAM" \notin open => stored = Size
                       /\ "wall" \in open => calls["wall"] = 1
      BY DEF SuccessIsComplete
    <2>1. Typed /\ RowInv /\ CreateInv /\ WallInv /\ Whole
      BY DEF Inv, RowInv
    <2>2. /\ calls[Creation] \in 0 .. 2 /\ calls["wall"] \in 0 .. 2
      <3>1. Creation \in Intent /\ "wall" \in Intent
        BY <2>1, CreationIsIntent DEF Intent
      <3>2. QED
        BY <2>1, <3>1 DEF Typed
    <2>3. QED
      BY <2>1, <2>2 DEF Whole, CreateInv, WallInv
  <1>2. QED
    BY <1>1, AdaptersInvariant, PTL

-----------------------------------------------------------------------------
(* The offsets of uploads.                                                 *)

(* No worker is about to send bytes beyond those that the session has: it  *)
(* has asked for its offset, or begins anew, and nothing is taken away.    *)
OffsetInv == \A w \in Worker : worker[w].next <= stored

(* What a step does to the offset of a worker.                             *)
Offset(w) == worker'[w].next \in {worker[w].next, 0, stored}

LEMMA InitOffset == Init => OffsetInv
  <1> SUFFICES ASSUME Init PROVE OffsetInv
    OBVIOUS
  <1>1. Idle.next = 0
    BY DEF Idle
  <1>2. stored = 0 /\ worker = [w \in Worker |-> Idle]
    BY DEF Init
  <1>3. stored \in Nat
    BY <1>2
  <1>4. ASSUME NEW w \in Worker PROVE worker[w].next <= stored
    <2>1. worker[w] = Idle
      BY <1>2
    <2>2. worker[w].next = stored
      BY <1>1, <1>2, <2>1
    <2>3. QED
      BY <1>3, <2>2
  <1>5. QED
    BY <1>4 DEF OffsetInv

(* The bytes that the provider has do not become fewer.                    *)
LEMMA StoredGrows ==
  ASSUME Typed, [Next]_vars PROVE stored <= stored' /\ stored \in Nat
  <1>1. stored \in Nat /\ stored \in 0 .. Size
    BY AdaptersAssumption DEF Typed
  <1>2. ASSUME NEW w \in Worker, NEW bytes,
               SendBytes(w, bytes) \/ BreaksOff(w, bytes)
        PROVE  stored <= stored'
    <2>1. UNCHANGED provider \/ (bytes \in stored .. Size /\ stored' = bytes)
      BY <1>2 DEF SendBytes, BreaksOff, Arrives
    <2>2. QED
      BY <1>1, <2>1 DEF provider
  <1>3. ASSUME NEW w \in Worker, Execute(w), ~SendBytes(w, Size)
        PROVE  UNCHANGED stored
    BY <1>3 DEF Execute, Uncertain, PersistIntent, Answers, PersistAnswer,
      Poll, PollVK, LoadResume, QueryOffset, UrlIsGone, Refresh,
      PersistRefreshed, PersistVideo, finishContentPublish, CarriedOut,
      Quiet, provider
  <1>4. ASSUME NEW w \in Worker,
               \/ \E kind \in {"auth", "retryable", "permanent"} :
                    Unavailable(w, kind) \/ UploadRefused(w, kind)
               \/ AnswerIsLost(w) \/ OffsetUnknown(w) \/ Crash(w)
               \/ \E kind \in {"auth", "permanent"} : Refuses(w, kind)
        PROVE  UNCHANGED stored
    BY <1>4 DEF Unavailable, UploadRefused, AnswerIsLost, OffsetUnknown,
      Crash, Refuses, CarriedOut, provider
  <1>5. ASSUME NEW w \in Worker, Fails(w) PROVE stored <= stored'
    <2>1. stored <= stored
      BY <1>1
    <2>2. QED
      BY <1>2, <1>4, <1>5, <2>1 DEF Fails
  <1>6. ASSUME \/ \E w \in Worker : claimContentPublish(w)
               \/ LeaseExpires \/ Stall
               \/ \E url \in 1 .. MaxUrls : UrlExpires(url)
               \/ \E status \in {"READY", "FAILED"} : ReauthEnds(status)
               \/ \E state \in {"done", "rejected"} : Processes(state)
               \/ UNCHANGED vars
        PROVE  UNCHANGED stored
    BY <1>6 DEF claimContentPublish, LeaseExpires, Stall, UrlExpires,
      ReauthEnds, Processes, vars, provider
  <1>7. QED
    BY <1>1, <1>2, <1>3, <1>5, <1>6 DEF Next

(* The ways in which a worker changes its row.                             *)
LEMMA StepOffset ==
  ASSUME Typed, NEW w \in Worker, NEW row, Step(w, row),
         row.next \in {worker[w].next, 0, stored}
  PROVE \A v \in Worker : Offset(v)
  BY DEF Typed, Step, Offset

LEMMA EndsOffset ==
  ASSUME Typed, NEW w \in Worker, NEW kind, NEW out, Ends(w, kind, out)
  PROVE \A v \in Worker : Offset(v)
  <1> DEFINE row == [worker[w] EXCEPT !.pc = "finish", !.kind = kind,
                                      !.out = out]
  <1>1. worker[w] \in WorkerRow
    BY DEF Typed
  <1>2. row.next = worker[w].next
    BY <1>1 DEF WorkerRow
  <1>3. Step(w, row)
    BY DEF Ends
  <1> HIDE DEF row
  <1>4. QED
    BY <1>2, <1>3, StepOffset

LEMMA MovesOffset ==
  ASSUME Typed, NEW w \in Worker, NEW pc, NEW url, NEW o,
         NEW next \in {0, stored},
         \/ Goes(w, pc)
         \/ Step(w, [worker[w] EXCEPT !.pc = pc, !.url = url])
         \/ Step(w, [worker[w] EXCEPT !.pc = pc, !.op = o])
         \/ Step(w, [worker[w] EXCEPT !.pc = pc, !.next = next])
  PROVE \A v \in Worker : Offset(v)
  <1>1. worker[w] \in WorkerRow
    BY DEF Typed
  <1>2. [worker[w] EXCEPT !.pc = pc].next = worker[w].next
    BY <1>1 DEF WorkerRow
  <1>3. [worker[w] EXCEPT !.pc = pc, !.url = url].next = worker[w].next
    BY <1>1 DEF WorkerRow
  <1>4. [worker[w] EXCEPT !.pc = pc, !.op = o].next = worker[w].next
    BY <1>1 DEF WorkerRow
  <1>5. [worker[w] EXCEPT !.pc = pc, !.next = next].next = next
    BY <1>1 DEF WorkerRow
  <1>6. QED
    BY <1>2, <1>3, <1>4, <1>5, StepOffset DEF Goes

(* A worker that becomes idle, or claims the job, has no offset.           *)
LEMMA IdleOffset ==
  ASSUME Typed, NEW w \in Worker,
         claimContentPublish(w) \/ finishContentPublish(w) \/ Crash(w)
  PROVE \A v \in Worker : Offset(v)
  <1>1. ASSUME claimContentPublish(w)
        PROVE  \A v \in Worker : Offset(v)
    <2> DEFINE lost == job.status = "RUNNING" /\ op = NoOp
               row == [Idle EXCEPT
                         !.pc = IF lost THEN "finish" ELSE "begin",
                         !.kind = IF lost THEN "permanent" ELSE "none",
                         !.known = op # NoOp, !.op = op]
    <2>1. Step(w, row)
      BY <1>1 DEF claimContentPublish
    <2>2. row.next = 0
      BY DEF Idle
    <2> HIDE DEF row
    <2>3. QED
      BY <2>1, <2>2, StepOffset
  <1>2. ASSUME finishContentPublish(w) \/ Crash(w)
        PROVE  \A v \in Worker : Offset(v)
    <2>1. Step(w, Idle)
      BY <1>2 DEF finishContentPublish, Crash
    <2>2. Idle.next = 0
      BY DEF Idle
    <2>3. QED
      BY <2>1, <2>2, StepOffset
  <1>3. QED
    BY <1>1, <1>2

LEMMA ExecuteOffset ==
  ASSUME Typed, NEW w \in Worker, Execute(w)
  PROVE \A v \in Worker : Offset(v)
  <1>1. CASE \/ Uncertain(w) \/ Poll(w) \/ PollVK(w) \/ LoadResume(w)
             \/ QueryOffset(w) \/ UrlIsGone(w)
    <2>1. \/ \E kind, out : Ends(w, kind, out)
          \/ \E pc : Goes(w, pc)
          \/ \E pc, url : Step(w, [worker[w] EXCEPT !.pc = pc, !.url = url])
          \/ \E pc : Step(w, [worker[w] EXCEPT !.pc = pc, !.next = stored])
      BY <1>1 DEF Uncertain, Poll, PollVK, LoadResume, QueryOffset,
        FirstMissing, UrlIsGone
    <2>2. QED
      BY <2>1, EndsOffset, MovesOffset
  <1>2. CASE \/ PersistIntent(w) \/ PersistAnswer(w) \/ PersistRefreshed(w)
             \/ PersistVideo(w)
    <2>1. \/ \E kind, out : Ends(w, kind, out)
          \/ \E pc, o : Step(w, [worker[w] EXCEPT !.pc = pc, !.op = o])
      BY <1>2 DEF PersistIntent, PersistAnswer, PersistRefreshed,
        PersistVideo, Unpersisted
    <2>2. QED
      BY <2>1, EndsOffset, MovesOffset
  <1>3. CASE Answers(w) \/ SendBytes(w, Size) \/ Refresh(w)
    <2>1. \/ \E kind, out : Ends(w, kind, out)
          \/ \E pc : Goes(w, pc)
          \/ \E pc, url : Step(w, [worker[w] EXCEPT !.pc = pc, !.url = url])
      BY <1>3 DEF Answers, SendBytes, Refresh
    <2>2. QED
      BY <2>1, EndsOffset, MovesOffset
  <1>4. QED
    BY <1>1, <1>2, <1>3, IdleOffset DEF Execute

LEMMA FailsOffset ==
  ASSUME Typed, NEW w \in Worker, Fails(w)
  PROVE \A v \in Worker : Offset(v)
  <1>1. \/ \E kind, out : Ends(w, kind, out)
        \/ \E pc : Goes(w, pc)
        \/ \E pc : Step(w, [worker[w] EXCEPT !.pc = pc, !.next = 0])
        \/ Crash(w)
    BY DEF Fails, Unavailable, UploadRefused, AnswerIsLost, OffsetUnknown,
      Refuses, SendBytes, BreaksOff
  <1>2. QED
    BY <1>1, EndsOffset, MovesOffset, IdleOffset

LEMMA OffsetStep ==
  ASSUME Inv, OffsetInv, [Next]_vars PROVE OffsetInv'
  <1>1. Typed /\ Typed'
    BY InvStep DEF Inv
  <1>2. stored <= stored' /\ stored \in Nat /\ stored' \in Nat
    BY <1>1, StoredGrows, AdaptersAssumption DEF Typed
  <1>3. ASSUME \/ LeaseExpires \/ Stall
               \/ \E url \in 1 .. MaxUrls : UrlExpires(url)
               \/ \E status \in {"READY", "FAILED"} : ReauthEnds(status)
               \/ \E state \in {"done", "rejected"} : Processes(state)
               \/ UNCHANGED vars
        PROVE  UNCHANGED worker
    BY <1>3 DEF LeaseExpires, Stall, UrlExpires, ReauthEnds, Processes, vars
  <1>4. \A w \in Worker : Offset(w)
    BY <1>1, <1>3, ExecuteOffset, FailsOffset, IdleOffset DEF Next, Offset
  <1>5. \A w \in Worker : worker[w].next \in Nat
    BY <1>1, AdaptersAssumption DEF Typed, WorkerRow
  <1>6. QED
    BY <1>2, <1>4, <1>5 DEF OffsetInv, Offset

(* No upload leaves a gap: the bytes that are sent begin at one that the   *)
(* session has or at the first one that it lacks, with whatever crashes,   *)
(* lost answers and unknown offsets (content_publish_youtube.go:170-224).  *)
THEOREM UploadsLeaveNoGap == Spec => []OffsetInv
  <1>1. Init => Inv /\ OffsetInv
    BY InvInit, InitOffset
  <1>2. Inv /\ OffsetInv /\ [Next]_vars => (Inv /\ OffsetInv)'
    BY InvStep, OffsetStep
  <1>3. QED
    BY <1>1, <1>2, PTL DEF Spec

-----------------------------------------------------------------------------
(* The reasons for which a publication fails.                              *)

(* Unless a failure is excused, an execution that leaves no operation or   *)
(* an intent behind is still there, an upload can be resumed, and what was *)
(* tried in vain was a fault.                                              *)
JobReason ==
  /\ job.status # "FAILED" /\ ready # "rejected"
  /\ "YOUTUBE" \in open => live = 1 .. urls
  /\ resume \in 0 .. urls
  /\ op.phase \in {"session", "upload"} => resume # 0
  /\ op.phase \in Intent => job.status = "RUNNING"
  /\ job.status = "RUNNING" /\ op.phase \in Intent \cup {"none"} =>
       \E v \in Worker : Owns(v) /\ ~At(v, "idle")
  /\ op = NoOp => job.tries <= faults

WorkerReason(r) ==
  /\ r.pc = "begin" => r.op.phase \notin Intent
  /\ r.pc \in Uploading => op.phase \notin Intent
  /\ r.pc = "query" => "VK" \notin open
  /\ r.pc = "refreshed" => r.url \in 1 .. urls
  /\ r.pc = "answered" /\ r.op.phase \in {"init", "save"} =>
       r.url \in 1 .. urls
  /\ r.pc = "begin" /\ ~r.known => op = NoOp
  /\ ~r.known => job.tries <= faults
  /\ r.pc = "finish" =>
       /\ r.kind \in {"success", "pending", "retryable", "auth"}
       /\ r.kind = "pending" => r.known \/ r.out # NoOp
       /\ r.kind = "retryable" /\ ~r.known /\ op = NoOp => job.tries < faults
       /\ op.phase \in Intent => r.out = Op("media")

Reasons ==
  /\ JobReason
  /\ \A w \in Worker : ~At(w, "idle") => WorkerReason(worker[w])

ReasonInv == (stalled => blamed) /\ (~blamed => Reasons)

(* A step of this section: nothing has happened that excuses a failure.    *)
Good ==
  /\ Inv /\ Inv' /\ OffsetInv
  /\ ~stalled /\ ~blamed /\ ~blamed' /\ Reasons

(* What a step leaves alone or only adds to.                               *)
Steady ==
  /\ UNCHANGED <<open, job>>
  /\ ready' # "rejected" /\ faults <= faults' /\ urls <= urls'
  /\ "YOUTUBE" \in open => live' = 1 .. urls'

(* Whoever works owns the job and is alone.                                *)
LEMMA Working ==
  ASSUME Good, NEW w \in Worker, ~At(w, "idle")
  PROVE /\ Owns(w) /\ job.lease /\ CalmRow(worker[w])
        /\ WorkerReason(worker[w]) /\ RowOK(worker[w])
        /\ worker[w] \in WorkerRow
        /\ worker[w].op \in Operation /\ worker[w].url \in 0 .. MaxUrls
        /\ \A v \in Worker : v # w => At(v, "idle")
  <1>1. \A v \in Worker : ~At(v, "idle") => Owns(v)
    BY DEF Good, Inv, CalmInv
  <1>2. Owns(w) /\ job.lease /\ CalmRow(worker[w]) /\ RowOK(worker[w])
    BY DEF Good, Inv, CalmInv, RowInv
  <1>3. \A v \in Worker : v # w => At(v, "idle")
    BY <1>1, <1>2 DEF Owns
  <1>4. /\ worker[w] \in WorkerRow /\ worker[w].op \in Operation
        /\ worker[w].url \in 0 .. MaxUrls
    BY Known DEF Good
  <1>5. WorkerReason(worker[w])
    BY DEF Good, Reasons
  <1>6. QED
    BY <1>2, <1>3, <1>4, <1>5

LEMMA Counters ==
  ASSUME Good
  PROVE /\ job.tries \in Nat /\ faults \in Nat /\ faults' \in Nat
        /\ urls \in Nat /\ urls' \in Nat /\ resume \in Nat /\ resume' \in Nat
        /\ faults <= MaxFaults
  <1>1. Typed /\ Typed'
    BY DEF Good, Inv
  <1>2. Budget \in Nat /\ MaxFaults \in Nat /\ MaxUrls \in Nat
    BY AdaptersAssumption
  <1>3. job.tries \in 0 .. Budget /\ faults \in 0 .. MaxFaults
    BY <1>1 DEF Typed, JobRow
  <1>4. faults' \in 0 .. MaxFaults /\ urls \in 0 .. MaxUrls
        /\ urls' \in 0 .. MaxUrls /\ resume \in 0 .. MaxUrls
        /\ resume' \in 0 .. MaxUrls
    BY <1>1 DEF Typed
  <1>5. QED
    BY <1>2, <1>3, <1>4

(* A worker takes a step and is not done.                                  *)
LEMMA GoesOnReason ==
  ASSUME Good, Steady, NEW w \in Worker, ~At(w, "idle"),
         \A v \in Worker : v # w => worker'[v] = worker[v],
         worker'[w].pc # "idle",
         resume' \in 0 .. urls',
         op'.phase \in {"session", "upload"} => resume' # 0,
         op' = NoOp => op = NoOp,
         WorkerReason(worker[w])'
  PROVE Reasons'
  <1>1. /\ Owns(w) /\ \A v \in Worker : v # w => At(v, "idle")
        /\ JobReason
    BY Working DEF Good, Reasons
  <1>2. op' = NoOp => job'.tries <= faults'
    BY <1>1, Counters DEF JobReason, Steady
  <1>3. JobReason'
    <2>1. Owns(w)' /\ ~At(w, "idle")' /\ job'.status = "RUNNING"
      BY <1>1 DEF Owns, At, Steady
    <2>2. QED
      BY <1>1, <1>2, <2>1 DEF JobReason, Steady
  <1>4. \A v \in Worker : ~At(v, "idle")' => v = w
    BY <1>1 DEF At
  <1>5. QED
    BY <1>3, <1>4 DEF Reasons

LEMMA EndsReason ==
  ASSUME Good, Steady, NEW w \in Worker, ~At(w, "idle"),
         NEW kind \in {"success", "pending", "retryable", "auth"},
         NEW out \in Operation, Ends(w, kind, out),
         resume' \in 0 .. urls',
         op'.phase \in {"session", "upload"} => resume' # 0,
         op' = NoOp => op = NoOp,
         op'.phase \in Intent => out = Op("media"),
         kind = "pending" => out # NoOp,
         kind = "retryable" /\ op' = NoOp => faults < faults'
  PROVE Reasons'
  <1>1. /\ worker[w] \in WorkerRow /\ WorkerReason(worker[w]) /\ Typed
    BY Working DEF Good, Inv
  <1>2. /\ \A v \in Worker : v # w => worker'[v] = worker[v]
        /\ worker'[w].pc = "finish" /\ worker'[w].kind = kind
        /\ worker'[w].out = out
    BY <1>1, EndsRow DEF Kinds
  <1>3. worker'[w].known = worker[w].known
    BY <1>1 DEF Ends, Step, Typed, WorkerRow
  <1>4. ~worker[w].known =>
          /\ job'.tries <= faults'
          /\ kind = "retryable" /\ op' = NoOp => job'.tries < faults'
    BY <1>1, Counters DEF WorkerReason, Steady
  <1>5. WorkerReason(worker[w])'
    BY <1>2, <1>3, <1>4 DEF WorkerReason, Uploading
  <1>6. QED
    BY <1>2, <1>5, GoesOnReason

(* An execution that leaves the operation as it is ends ...                *)
LEMMA EndsInsideReason ==
  ASSUME Good, Steady, NEW w \in Worker, ~At(w, "idle"),
         NEW kind \in {"success", "pending", "retryable", "auth"},
         NEW out \in Operation, Ends(w, kind, out),
         UNCHANGED <<op, resume>>,
         op.phase \in Intent => out = Op("media"),
         kind = "pending" => out # NoOp,
         kind = "retryable" /\ op = NoOp => faults < faults'
  PROVE Reasons'
  <1>1. /\ resume \in 0 .. urls
        /\ op.phase \in {"session", "upload"} => resume # 0
    BY DEF Good, Reasons, JobReason
  <1>2. resume' \in 0 .. urls'
    BY <1>1, Counters DEF Steady
  <1>3. QED
    BY <1>1, <1>2, EndsReason

(* ... or goes on.                                                         *)
LEMMA MovesReason ==
  ASSUME Good, Steady, NEW w \in Worker, ~At(w, "idle"),
         NEW pc \in {"intend", "query", "send", "expired", "refreshed",
                     "uploaded"},
         NEW url \in 0 .. MaxUrls, NEW next \in 0 .. Size,
         Step(w, [worker[w] EXCEPT !.pc = pc, !.url = url, !.next = next]),
         UNCHANGED <<op, resume>>,
         op.phase \notin Intent,
         pc = "query" => "VK" \notin open,
         pc = "refreshed" => url \in 1 .. urls'
  PROVE Reasons'
  <1>1. /\ worker[w] \in WorkerRow /\ WorkerReason(worker[w]) /\ Typed
    BY Working DEF Good, Inv
  <1>2. /\ \A v \in Worker : v # w => worker'[v] = worker[v]
        /\ worker'[w].pc = pc /\ worker'[w].url = url
    <2>1. pc \in Places
      BY DEF Places
    <2>2. Step(w, Moved(w, pc, url, next))
      BY DEF Moved
    <2>3. QED
      BY <1>1, <2>1, <2>2, MovesRow
  <1>3. worker'[w].known = worker[w].known
    BY <1>1 DEF Step, Typed, WorkerRow
  <1>4. ~worker[w].known => job'.tries <= faults'
    BY <1>1, Counters DEF WorkerReason, Steady
  <1>5. WorkerReason(worker[w])'
    BY <1>2, <1>3, <1>4 DEF WorkerReason, Uploading, Steady
  <1>6. /\ resume \in 0 .. urls
        /\ op.phase \in {"session", "upload"} => resume # 0
    BY DEF Good, Reasons, JobReason
  <1>7. resume' \in 0 .. urls'
    BY <1>6, Counters DEF Steady
  <1>8. QED
    BY <1>2, <1>5, <1>6, <1>7, GoesOnReason

(* Without a fault nothing changes at the provider.                        *)
LEMMA QuietSteady ==
  ASSUME Good, Quiet
  PROVE Steady
  BY Counters DEF Good, Reasons, JobReason, Quiet, Steady, provider, history

(* A fault that is no excuse is counted.                                   *)
LEMMA FaultCounts ==
  ASSUME Good, NEW excuse \in BOOLEAN, Fault(excuse)
  PROVE ~excuse /\ faults' = faults + 1 /\ faults < faults'
  <1>1. ~blamed' /\ blamed' = (blamed \/ excuse) /\ faults' = faults + 1
    BY DEF Good, Fault
  <1>2. ~excuse
    BY <1>1, Zenon
  <1>3. QED
    BY <1>1, <1>2, Counters

-----------------------------------------------------------------------------
(* The actions inside of an execution, unless a failure is excused.        *)

(* Before an execution has done anything it is not in doubt.               *)
LEMMA Beginning ==
  ASSUME Good, NEW w \in Worker, worker[w].pc \in {"begin", "intend"}
  PROVE /\ ~At(w, "idle") /\ worker[w].op = op /\ op.phase \notin Intent
        /\ Expected(w)
  <1>1. ~At(w, "idle")
    BY DEF At
  <1>2. worker[w].op = op /\ (At(w, "begin") => op.phase \notin Intent)
    BY <1>1, Working DEF CalmRow, WorkerReason, At
  <1>3. At(w, "intend") => op.phase \notin Intent
    BY <1>1, <1>2, Working DEF RowOK, At, Intent
  <1>4. QED
    BY <1>1, <1>2, <1>3 DEF Expected, At

(* An upload has an operation, and the URL of a session is alive.          *)
LEMMA InUpload ==
  ASSUME Good, NEW w \in Worker, worker[w].pc \in Uploading
  PROVE /\ ~At(w, "idle") /\ op # NoOp /\ op.phase \notin Intent
        /\ "INSTAGRAM" \notin open
        /\ worker[w].pc \in {"expired", "refreshed"} => "VK" \in open
        /\ worker[w].pc \in {"query", "send"} /\ "VK" \notin open =>
             worker[w].url \in live
  <1>1. /\ ~At(w, "idle")
    BY DEF Uploading, At
  <1>2. /\ "INSTAGRAM" \notin open /\ calls[Creation] > 0
        /\ worker[w].pc \in {"expired", "refreshed"} => "VK" \in open
        /\ op.phase \notin Intent
    BY <1>1, Working DEF RowOK, WorkerReason
  <1>3. Typed /\ CreateInv
    BY DEF Good, Inv
  <1>4. op # NoOp
    <2>1. calls[Creation] # 0
      BY <1>2
    <2>2. QED
      BY <1>3, <2>1 DEF CreateInv
  <1>5. ASSUME worker[w].pc \in {"query", "send"}, "VK" \notin open
        PROVE worker[w].url \in live
    <2>1. op = ParamOp(w) /\ ParamOp(w).phase \in {"session", "upload"}
          /\ ParamOp(w).url = worker[w].url
      <3>1. /\ op = ParamOp(w) /\ ParamOp(w).phase = UploadPhase
            /\ UploadPhase \in {"session", "upload"}
            /\ ParamOp(w) = Upload(UploadPhase, worker[w].url)
        BY <1>5, KnownUpload DEF Good
      <3>2. QED
        BY <3>1 DEF Upload
    <2>2. resume # 0 /\ resume \in 0 .. urls
      BY <2>1 DEF Good, Reasons, JobReason
    <2>3. worker[w].url = resume
      BY <2>1, <2>2 DEF Good, Inv, CalmInv
    <2>4. "YOUTUBE" \in open
      BY <1>2, <1>3, <1>5, Platforms
    <2>5. live = 1 .. urls
      BY <2>4 DEF Good, Reasons, JobReason
    <2>6. QED
      BY <2>2, <2>3, <2>5, Counters
  <1>6. QED
    BY <1>1, <1>2, <1>4, <1>5

(* A worker that only changes its place keeps the rest of its row.         *)
LEMMA GoesRow ==
  ASSUME Good, NEW w \in Worker, NEW pc \in Places, Goes(w, pc)
  PROVE /\ worker[w].url \in 0 .. MaxUrls /\ worker[w].next \in 0 .. Size
        /\ Step(w, [worker[w] EXCEPT !.pc = pc, !.url = worker[w].url,
                                     !.next = worker[w].next])
  <1>1. /\ worker[w] \in WorkerRow
        /\ worker[w].url \in 0 .. MaxUrls /\ worker[w].next \in 0 .. Size
    BY Known DEF Good
  <1>2. [worker[w] EXCEPT !.pc = pc]
          = [worker[w] EXCEPT !.pc = pc, !.url = worker[w].url,
                              !.next = worker[w].next]
    BY <1>1 DEF WorkerRow
  <1>3. QED
    BY <1>1, <1>2 DEF Goes

LEMMA UnavailableReason ==
  ASSUME Good, NEW w \in Worker,
         NEW kind \in {"auth", "retryable", "permanent"},
         Unavailable(w, kind) \/ UploadRefused(w, kind)
  PROVE Reasons'
  <1>1. /\ Ends(w, kind, NoOp) /\ Fault(kind = "permanent")
        /\ UNCHANGED <<open, job, op, resume>>
        /\ UNCHANGED <<calls, stored, ready, urls, live>>
    BY DEF Unavailable, UploadRefused, Calls, target, provider
  <1>2. kind # "permanent" /\ faults < faults'
    BY <1>1, FaultCounts
  <1>3. Steady
    BY <1>1, <1>2, Counters DEF Steady, Good, Reasons, JobReason
  <1>4. ~At(w, "idle") /\ op.phase \notin Intent
    <2>1. CASE Unavailable(w, kind)
      BY <2>1, Beginning DEF Unavailable, At
    <2>2. CASE UploadRefused(w, kind)
      <3>1. worker[w].pc \in Uploading
        BY <2>2 DEF UploadRefused, At, Uploading
      <3>2. QED
        BY <3>1, InUpload
    <2>3. QED
      BY <2>1, <2>2
  <1>5. QED
    BY <1>1, <1>2, <1>3, <1>4, Operations, EndsInsideReason

(* An execution finds no intent, since whoever has written it would have   *)
(* ended it.                                                               *)
LEMMA UncertainReason ==
  ASSUME Good, NEW w \in Worker, Uncertain(w) PROVE FALSE
  BY Beginning DEF Uncertain, At

LEMMA AnswerIsLostReason ==
  ASSUME Good, NEW w \in Worker,
         \/ AnswerIsLost(w)
         \/ \E kind \in {"auth", "permanent"} : Refuses(w, kind)
  PROVE FALSE
  <1>1. Fault(TRUE)
    BY DEF AnswerIsLost, Refuses
  <1>2. QED
    BY <1>1, FaultCounts

LEMMA PollReason ==
  ASSUME Good, NEW w \in Worker, Poll(w) \/ PollVK(w)
  PROVE Reasons'
  <1>1. /\ ~At(w, "idle") /\ worker[w].op = op /\ op.phase \notin Intent
        /\ At(w, "begin")
    BY Beginning DEF Poll, PollVK, At
  <1>2. Steady /\ UNCHANGED <<op, resume>>
    BY QuietSteady DEF Poll, PollVK, target
  <1>3. ready # "rejected" /\ worker[w].op \in Operation
    BY Known DEF Good, Reasons, JobReason
  <1>4. ASSUME Ends(w, "success", worker[w].op) PROVE Reasons'
    BY <1>1, <1>2, <1>3, <1>4, EndsInsideReason
  <1>5. ASSUME Ends(w, "pending", worker[w].op), worker[w].op # NoOp
        PROVE Reasons'
    BY <1>1, <1>2, <1>3, <1>5, EndsInsideReason
  <1>6. ASSUME Goes(w, "intend") PROVE Reasons'
    <2>1. Step(w, [worker[w] EXCEPT !.pc = "intend", !.url = worker[w].url,
                                    !.next = worker[w].next])
          /\ worker[w].url \in 0 .. MaxUrls /\ worker[w].next \in 0 .. Size
      <3>1. "intend" \in Places
        BY DEF Places
      <3>2. QED
        BY <1>6, <3>1, GoesRow
    <2>2. QED
      BY <1>1, <1>2, <2>1, MovesReason
  <1>7. CASE Poll(w)
    <2>1. \/ /\ worker[w].op.phase \in {"container", "video"}
             /\ Ends(w, "pending", worker[w].op)
          \/ Goes(w, "intend")
          \/ Ends(w, "success", worker[w].op)
      BY <1>3, <1>7, Zenon DEF Poll
    <2>2. worker[w].op.phase \in {"container", "video"} =>
            worker[w].op # NoOp
      BY Operations
    <2>3. QED
      BY <1>4, <1>5, <1>6, <2>1, <2>2
  <1>8. CASE PollVK(w)
    BY <1>4, <1>8 DEF PollVK
  <1>9. QED
    BY <1>7, <1>8

LEMMA LoadResumeReason ==
  ASSUME Good, NEW w \in Worker, LoadResume(w) PROVE Reasons'
  <1> DEFINE pc == IF "VK" \in open THEN "send" ELSE "query"
  <1>1. /\ ~At(w, "idle") /\ worker[w].op = op /\ op.phase \notin Intent
    BY Beginning DEF LoadResume, At
  <1>2. Steady /\ UNCHANGED <<op, resume>>
    BY QuietSteady DEF LoadResume, target
  <1>3. resume # 0
    BY <1>1 DEF LoadResume, Good, Reasons, JobReason
  <1>4. Step(w, [worker[w] EXCEPT !.pc = pc, !.url = resume])
    BY <1>1, <1>3 DEF LoadResume
  <1>5. /\ pc \in {"send", "query"} /\ pc \in Places
        /\ pc = "query" => "VK" \notin open
    BY DEF Places
  <1> HIDE DEF pc
  <1>6. Typed /\ resume \in 0 .. MaxUrls /\ worker[w].next \in 0 .. Size
    BY Known DEF Good, Inv, Typed
  <1>7. Step(w, [worker[w] EXCEPT !.pc = pc, !.url = resume,
                                  !.next = worker[w].next])
    BY <1>4, <1>5, <1>6, SameRow
  <1>8. QED
    BY <1>1, <1>2, <1>5, <1>6, <1>7, MovesReason

LEMMA SendsFromReason ==
  ASSUME Good, Steady, NEW w \in Worker, worker[w].pc = "query",
         NEW next \in 0 .. Size,
         Step(w, [worker[w] EXCEPT !.pc = "send", !.next = next]),
         UNCHANGED <<op, resume>>
  PROVE Reasons'
  <1>1. worker[w].pc \in Uploading
    BY DEF Uploading
  <1>2. ~At(w, "idle") /\ op.phase \notin Intent
    BY <1>1, InUpload
  <1>3. worker[w] \in WorkerRow /\ worker[w].url \in 0 .. MaxUrls
    BY Known DEF Good
  <1>4. [worker[w] EXCEPT !.pc = "send", !.next = next]
          = [worker[w] EXCEPT !.pc = "send", !.url = worker[w].url,
                              !.next = next]
    BY <1>3 DEF WorkerRow
  <1>5. Step(w, [worker[w] EXCEPT !.pc = "send", !.url = worker[w].url,
                                  !.next = next])
    BY <1>4
  <1>6. QED
    BY <1>2, <1>3, <1>5, MovesReason

LEMMA QueryOffsetReason ==
  ASSUME Good, NEW w \in Worker, QueryOffset(w) PROVE Reasons'
  <1>1. worker[w].pc = "query" /\ worker[w].pc \in Uploading
    BY DEF QueryOffset, At, Uploading
  <1>2. /\ ~At(w, "idle") /\ op.phase \notin Intent
        /\ "VK" \notin open => worker[w].url \in live
    BY <1>1, InUpload
  <1>3. "VK" \notin open
    BY <1>1, <1>2, Working DEF WorkerReason
  <1>4. Steady /\ UNCHANGED <<op, resume>>
    BY QuietSteady DEF QueryOffset, target
  <1>5. /\ Typed /\ worker[w] \in WorkerRow /\ stored \in 0 .. Size
        /\ worker[w].url \in 0 .. MaxUrls /\ worker[w].next \in 0 .. Size
    BY Known DEF Good, Inv, Typed
  <1>6. CASE Goes(w, "uploaded")
    <2>1. "uploaded" \in Places
      BY DEF Places
    <2>2. Step(w, [worker[w] EXCEPT !.pc = "uploaded",
                     !.url = worker[w].url, !.next = worker[w].next])
      BY <1>6, <2>1, GoesRow
    <2>3. QED
      BY <1>2, <1>4, <1>5, <2>2, MovesReason
  <1>7. CASE Step(w, [worker[w] EXCEPT !.pc = "send", !.next = stored])
    BY <1>1, <1>4, <1>5, <1>7, SendsFromReason
  <1>8. CASE Ends(w, "pending", ParamOp(w))
    <2>1. op = ParamOp(w) /\ ParamOp(w) \in Operation /\ op # NoOp
      BY <1>1, KnownUpload, InUpload DEF Good
    <2>2. QED
      BY <1>2, <1>4, <1>8, <2>1, EndsInsideReason
  <1>9. QED
    BY <1>2, <1>3, <1>6, <1>7, <1>8 DEF QueryOffset, FirstMissing

(* An answer that does not tell the offset is a fault, but no reason.      *)
LEMMA OffsetUnknownReason ==
  ASSUME Good, NEW w \in Worker, OffsetUnknown(w) PROVE Reasons'
  <1>1. /\ worker[w].pc = "query" /\ Fault(FALSE)
        /\ UNCHANGED <<open, job, op, resume>>
        /\ UNCHANGED <<calls, stored, ready, urls, live>>
        /\ Step(w, [worker[w] EXCEPT !.pc = "send", !.next = 0])
    BY DEF OffsetUnknown, At, Calls, target, provider
  <1>2. faults < faults'
    BY <1>1, FaultCounts
  <1>3. Steady
    BY <1>1, <1>2, Counters DEF Steady, Good, Reasons, JobReason
  <1>4. 0 \in 0 .. Size
    BY AdaptersAssumption
  <1>5. QED
    BY <1>1, <1>3, <1>4, SendsFromReason

LEMMA SendsReason ==
  ASSUME Good, NEW w \in Worker, NEW bytes,
         SendBytes(w, bytes) \/ BreaksOff(w, bytes)
  PROVE Reasons'
  <1>1. worker[w].pc \in {"query", "send"} /\ worker[w].pc \in Uploading
    BY DEF SendBytes, BreaksOff, At, Uploading
  <1>2. ~At(w, "idle") /\ op.phase \notin Intent /\ op # NoOp
    BY <1>1, InUpload
  <1>3. op = ParamOp(w) /\ ParamOp(w) \in Operation
    BY <1>1, KnownUpload DEF Good
  <1>4. /\ UNCHANGED <<open, job, op, resume>> /\ UNCHANGED <<urls, live>>
        /\ ready' # "rejected"
    <2>1. ready # "rejected"
      BY DEF Good, Reasons, JobReason
    <2>2. \/ UNCHANGED provider
          \/ Arrives(w, bytes)
      BY DEF SendBytes, BreaksOff
    <2>3. UNCHANGED <<open, job, op, resume>>
      BY DEF SendBytes, BreaksOff, Calls, target
    <2>4. QED
      BY <2>1, <2>2, <2>3 DEF provider, Arrives
  <1>5. CASE Goes(w, "uploaded") /\ UNCHANGED history
    <2>1. Steady
      BY <1>4, <1>5, Counters
      DEF Steady, Good, Reasons, JobReason, history
    <2>2. Step(w, [worker[w] EXCEPT !.pc = "uploaded", !.url = worker[w].url,
                                    !.next = worker[w].next])
          /\ worker[w].url \in 0 .. MaxUrls /\ worker[w].next \in 0 .. Size
      <3>1. "uploaded" \in Places
        BY DEF Places
      <3>2. QED
        BY <1>5, <3>1, GoesRow
    <2>3. QED
      BY <1>2, <1>4, <2>1, <2>2, MovesReason
  <1>6. CASE Ends(w, "pending", ParamOp(w)) /\ Fault(FALSE)
    <2>1. faults < faults'
      BY <1>6, FaultCounts
    <2>2. Steady
      BY <1>4, <2>1, Counters DEF Steady, Good, Reasons, JobReason
    <2>3. QED
      BY <1>2, <1>3, <1>4, <1>6, <2>2, EndsInsideReason
  <1>7. QED
    BY <1>5, <1>6 DEF SendBytes, BreaksOff

(* Only a URL of VK expires without an excuse, and it is replaced; no bytes*)
(* leave a gap.                                                            *)
LEMMA UrlIsGoneReason ==
  ASSUME Good, NEW w \in Worker, UrlIsGone(w) PROVE Reasons'
  <1>1. worker[w].pc = "send" /\ worker[w].pc \in Uploading
    BY DEF UrlIsGone, At, Uploading
  <1>2. /\ ~At(w, "idle") /\ op.phase \notin Intent
        /\ "VK" \notin open => worker[w].url \in live
    BY <1>1, InUpload
  <1>3. Steady /\ UNCHANGED <<op, resume>> /\ Goes(w, "expired")
    <2>1. worker[w].next <= stored
      BY DEF Good, OffsetInv
    <2>2. QED
      BY <1>2, <2>1, QuietSteady DEF UrlIsGone, Takes, target
  <1>4. Step(w, [worker[w] EXCEPT !.pc = "expired", !.url = worker[w].url,
                                  !.next = worker[w].next])
        /\ worker[w].url \in 0 .. MaxUrls /\ worker[w].next \in 0 .. Size
    <2>1. "expired" \in Places
      BY DEF Places
    <2>2. QED
      BY <1>3, <2>1, GoesRow
  <1>5. QED
    BY <1>2, <1>3, <1>4, MovesReason

LEMMA RefreshReason ==
  ASSUME Good, NEW w \in Worker, Refresh(w) PROVE Reasons'
  <1>1. worker[w].pc = "expired" /\ worker[w].pc \in Uploading
    BY DEF Refresh, At, Uploading
  <1>2. ~At(w, "idle") /\ op.phase \notin Intent /\ "VK" \in open
    BY <1>1, InUpload
  <1>3. Typed /\ Typed' /\ "refreshed" \in Places
    BY DEF Good, Inv, Places
  <1>4. ~Fault(TRUE)
    BY FaultCounts
  <1>5. /\ urls' = urls + 1 /\ UNCHANGED <<ready, faults>>
        /\ UNCHANGED <<open, job, op, resume>>
        /\ Step(w, [worker[w] EXCEPT !.pc = "refreshed", !.url = urls'])
    BY <1>4 DEF Refresh, Calls, target, history
  <1>6. Steady
    <2>1. "YOUTUBE" \notin open
      BY <1>2, <1>3, Platforms
    <2>2. QED
      BY <1>5, <2>1, Counters DEF Steady, Good, Reasons, JobReason
  <1>7. urls' \in 0 .. MaxUrls /\ urls' \in 1 .. urls'
        /\ worker[w].next \in 0 .. Size
    BY <1>3, <1>5, Counters, Known DEF Good, Typed
  <1>8. Step(w, [worker[w] EXCEPT !.pc = "refreshed", !.url = urls',
                                  !.next = worker[w].next])
    BY <1>3, <1>5, <1>7, SameRow
  <1>9. QED
    BY <1>2, <1>5, <1>6, <1>7, <1>8, MovesReason

-----------------------------------------------------------------------------
(* The actions that write the operation, unless a failure is excused.      *)

LEMMA PersistIntentReason ==
  ASSUME Good, NEW w \in Worker, PersistIntent(w) PROVE Reasons'
  <1> DEFINE intent == CASE At(w, "intend") -> "dispatch"
                         [] worker[w].op.phase = "video" -> "wall"
                         [] OTHER -> Creation
  <1>1. ~At(w, "idle") /\ Expected(w)
    BY Beginning DEF PersistIntent, At
  <1>2. Persist(Op(intent))
        /\ Step(w, [worker[w] EXCEPT !.pc = "call", !.op = Op(intent)])
    BY <1>1 DEF PersistIntent
  <1>3. intent \in Intent
    BY CreationIsIntent DEF Intent, Good, Inv
  <1> HIDE DEF intent
  <1>4. /\ Op(intent).phase = intent /\ Op(intent) # NoOp
        /\ intent \notin {"session", "upload", "none"}
    BY <1>3, Operations DEF Intent, Phase
  <1>5. op' = Op(intent) /\ resume' = 0
    BY <1>2 DEF Persist
  <1>6. Steady
    BY QuietSteady DEF PersistIntent
  <1>7. /\ worker[w] \in WorkerRow /\ WorkerReason(worker[w]) /\ Typed
    BY <1>1, Working DEF Good, Inv
  <1>8. /\ \A v \in Worker : v # w => worker'[v] = worker[v]
        /\ worker'[w].pc = "call" /\ worker'[w].known = worker[w].known
    BY <1>2, <1>7 DEF Step, Typed, WorkerRow
  <1>9. ~worker[w].known => job'.tries <= faults'
    BY <1>6, <1>7, Counters DEF WorkerReason, Steady
  <1>10. WorkerReason(worker[w])'
    BY <1>8, <1>9 DEF WorkerReason, Uploading
  <1>11. resume' \in 0 .. urls'
    BY <1>5, Counters
  <1>12. QED
    BY <1>1, <1>4, <1>5, <1>6, <1>8, <1>10, <1>11, GoesOnReason

LEMMA AnswersReason ==
  ASSUME Good, NEW w \in Worker, Answers(w) PROVE Reasons'
  <1> DEFINE c == worker[w].op.phase
  <1>1. /\ ~At(w, "idle") /\ CarriedOut(c)
        /\ Step(w, [worker[w] EXCEPT !.pc = "answered", !.url = urls'])
        /\ UNCHANGED <<open, job, op, resume, faults>>
    BY DEF Answers, At, Calls, target, history
  <1>2. /\ worker[w] \in WorkerRow /\ WorkerReason(worker[w]) /\ Typed
        /\ JobReason
    BY <1>1, Working DEF Good, Inv, Reasons
  <1> HIDE DEF c
  <1>3. /\ urls' = urls \/ (urls' = urls + 1 /\ live' = live \cup {urls'})
        /\ urls' = urls => live' = live
        /\ c \in {"init", "save"} => urls' = urls + 1
        /\ ready' # "rejected"
    <2>1. \/ c \in {"init", "save"} /\ urls' = urls + 1
                /\ live' = live \cup {urls'}
          \/ c \notin {"init", "save"} /\ UNCHANGED <<urls, live>>
      BY <1>1, Zenon DEF CarriedOut
    <2>2. ready' \in {"processing", ready}
      BY <1>1 DEF CarriedOut
    <2>3. urls \in Nat /\ ready # "rejected"
      BY <1>2, Counters DEF JobReason
    <2>4. QED
      BY <2>1, <2>2, <2>3
  <1>4. Steady
    <2>1. urls <= urls'
      BY <1>3, Counters
    <2>2. ASSUME "YOUTUBE" \in open PROVE live' = 1 .. urls'
      <3>1. live = 1 .. urls
        BY <1>2, <2>2 DEF JobReason
      <3>2. CASE urls' = urls
        BY <1>3, <3>1, <3>2
      <3>3. CASE urls' = urls + 1 /\ live' = live \cup {urls'}
        <4>1. urls \in Nat
          BY Counters
        <4>2. \A u : u \in 1 .. urls' <=> u \in 1 .. urls \/ u = urls'
          BY <3>3, <4>1
        <4>3. QED
          BY <3>1, <3>3, <4>2
      <3>4. QED
        BY <1>3, <3>2, <3>3
    <2>3. QED
      BY <1>1, <1>3, <2>1, <2>2, Counters DEF Steady
  <1>5. /\ \A v \in Worker : v # w => worker'[v] = worker[v]
        /\ worker'[w].pc = "answered" /\ worker'[w].known = worker[w].known
        /\ worker'[w].url = urls' /\ worker'[w].op.phase = c
    BY <1>1, <1>2 DEF Step, Typed, WorkerRow, c
  <1>6. c \in {"init", "save"} => urls' \in 1 .. urls'
    BY <1>3, Counters
  <1>7. ~worker[w].known => job'.tries <= faults'
    BY <1>1, <1>2 DEF WorkerReason
  <1>8. WorkerReason(worker[w])'
    BY <1>5, <1>6, <1>7 DEF WorkerReason, Uploading
  <1>9. /\ resume' \in 0 .. urls'
        /\ op'.phase \in {"session", "upload"} => resume' # 0
    BY <1>1, <1>2, <1>3, Counters DEF JobReason
  <1>10. QED
    BY <1>1, <1>4, <1>5, <1>8, <1>9, GoesOnReason

(* A worker that persists what ends its execution.                         *)
LEMMA PersistEndsReason ==
  ASSUME Good, Quiet, NEW w \in Worker, ~At(w, "idle"),
         NEW kind \in {"success", "pending"},
         NEW phase \in {"container", "video", "posted"},
         Persist(Op(phase)), Ends(w, kind, Op(phase))
  PROVE Reasons'
  <1>1. Steady
    BY QuietSteady
  <1>2. /\ Op(phase) \in Operation /\ Op(phase).phase = phase
        /\ Op(phase) # NoOp
    BY Operations DEF Phase
  <1>3. op' = Op(phase) /\ resume' = 0 /\ resume' \in 0 .. urls'
    BY Counters DEF Persist
  <1>4. op'.phase \notin Intent \cup {"session", "upload"}
    BY <1>2, <1>3 DEF Intent
  <1>5. QED
    BY <1>1, <1>2, <1>3, <1>4, EndsReason

(* A worker that stores the session or URL of an upload goes on with it.   *)
LEMMA StoresReason ==
  ASSUME Good, Quiet, NEW w \in Worker, ~At(w, "idle"),
         NEW phase \in {"session", "upload"},
         worker[w].url \in 1 .. urls,
         PersistResume(Upload(phase, worker[w].url)),
         NEW pc \in {"query", "send"}, NEW o,
         pc = "query" => "VK" \notin open,
         Step(w, [worker[w] EXCEPT !.pc = pc, !.op = o])
  PROVE Reasons'
  <1>1. Steady
    BY QuietSteady
  <1>2. /\ op'.phase = phase /\ resume' = worker[w].url
        /\ op' # NoOp
    BY Operations DEF PersistResume, Upload
  <1>3. resume' # 0 /\ resume' \in 0 .. urls'
    BY <1>1, <1>2, Counters DEF Steady
  <1>4. /\ worker[w] \in WorkerRow /\ WorkerReason(worker[w]) /\ Typed
    BY Working DEF Good, Inv
  <1>5. /\ \A v \in Worker : v # w => worker'[v] = worker[v]
        /\ worker'[w].pc = pc /\ worker'[w].known = worker[w].known
    BY <1>4 DEF Step, Typed, WorkerRow
  <1>6. ~worker[w].known => job'.tries <= faults'
    BY <1>1, <1>4, Counters DEF WorkerReason, Steady
  <1>7. WorkerReason(worker[w])'
    BY <1>1, <1>2, <1>5, <1>6 DEF WorkerReason, Uploading, Intent, Steady
  <1>8. QED
    BY <1>1, <1>2, <1>3, <1>5, <1>7, GoesOnReason

LEMMA PersistAnswerReason ==
  ASSUME Good, NEW w \in Worker, PersistAnswer(w) PROVE Reasons'
  <1> DEFINE c == worker[w].op.phase
             u == worker[w].url
             new == CASE c = "create" -> Op("container")
                      [] c = "dispatch" -> Op("media")
                      [] c = "init" -> Upload("session", u)
                      [] c = "save" -> Upload("upload", u)
                      [] c = "wall" -> Op("posted")
  <1>1. /\ At(w, "answered") /\ ~At(w, "idle") /\ worker[w].op = op /\ Quiet
        /\ Expected(w)
    BY Working DEF PersistAnswer, At, CalmRow, Expected
  <1>2. c \in {"init", "save"} => u \in 1 .. urls
    BY <1>1, Working DEF WorkerReason, At
  <1>3. c \in Mine
    BY Known DEF Good
  <1>4. CASE c = "dispatch" /\ Ends(w, "pending", new) /\ UNCHANGED target
    <2>1. new = Op("media") /\ Op("media") \in Operation
          /\ Op("media") # NoOp
      BY <1>4, Operations DEF Phase
    <2>2. Ends(w, "pending", Op("media")) /\ UNCHANGED <<op, resume>>
      BY <1>4, <2>1 DEF target
    <2>3. QED
      BY <1>1, <2>1, <2>2, QuietSteady, EndsInsideReason
  <1>5. CASE /\ c \in {"create", "wall"} /\ Persist(new)
             /\ Ends(w, IF c = "wall" THEN "success" ELSE "pending", new)
    <2>1. CASE c = "create"
      <3>1. new = Op("container")
        BY <2>1
      <3>2. QED
        BY <1>1, <1>5, <2>1, <3>1, PersistEndsReason
    <2>2. CASE c = "wall"
      <3>1. new = Op("posted")
        BY <2>2
      <3>2. QED
        BY <1>1, <1>5, <2>2, <3>1, PersistEndsReason
    <2>3. QED
      BY <1>5, <2>1, <2>2
  <1>6. CASE /\ c \in {"init", "save"} /\ PersistResume(new)
             /\ Step(w, [worker[w] EXCEPT
                  !.pc = IF c = "init" THEN "query" ELSE "send",
                  !.op = Carries(w, new)])
    <2>1. CASE c = "init"
      <3>1. new = Upload("session", u)
        BY <2>1
      <3>2. "VK" \notin open
        BY <1>3, <2>1, Platforms DEF Good, Inv
      <3>3. Step(w, [worker[w] EXCEPT !.pc = "query",
                                      !.op = Carries(w, new)])
        BY <1>6, <2>1
      <3>4. QED
        BY <1>1, <1>2, <1>6, <2>1, <3>1, <3>2, <3>3, StoresReason
    <2>2. CASE c = "save"
      <3>1. new = Upload("upload", u)
        BY <2>2
      <3>2. Step(w, [worker[w] EXCEPT !.pc = "send", !.op = Carries(w, new)])
        BY <1>6, <2>2
      <3>3. QED
        BY <1>1, <1>2, <1>6, <2>2, <3>1, <3>2, StoresReason
    <2>3. QED
      BY <1>6, <2>1, <2>2
  <1>7. QED
    BY <1>1, <1>4, <1>5, <1>6, Zenon DEF PersistAnswer

(* A retry without a fault: the upload keeps its operation, so that the    *)
(* next execution knows it.                                                *)
LEMMA UnpersistedReason ==
  ASSUME Good, Quiet, NEW w \in Worker, worker[w].pc \in Uploading,
         Ends(w, "retryable", NoOp), UNCHANGED <<op, resume>>
  PROVE Reasons'
  BY InUpload, QuietSteady, Operations, EndsInsideReason

LEMMA PersistRefreshedReason ==
  ASSUME Good, NEW w \in Worker, PersistRefreshed(w) PROVE Reasons'
  <1>1. worker[w].pc = "refreshed" /\ worker[w].pc \in Uploading /\ Quiet
    BY DEF PersistRefreshed, At, Uploading
  <1>2. ~At(w, "idle") /\ worker[w].url \in 1 .. urls
    BY <1>1, InUpload, Working DEF WorkerReason
  <1>3. CASE /\ PersistResume(Upload("upload", worker[w].url))
             /\ Step(w, [worker[w] EXCEPT !.pc = "send",
                           !.op = Upload("upload", worker[w].url)])
    BY <1>1, <1>2, <1>3, StoresReason
  <1>4. CASE Ends(w, "retryable", NoOp) /\ UNCHANGED target
    BY <1>1, <1>4, UnpersistedReason DEF target
  <1>5. QED
    BY <1>3, <1>4 DEF PersistRefreshed

LEMMA PersistVideoReason ==
  ASSUME Good, NEW w \in Worker, PersistVideo(w) PROVE Reasons'
  <1>1. worker[w].pc = "uploaded" /\ worker[w].pc \in Uploading /\ Quiet
    BY DEF PersistVideo, At, Uploading
  <1>2. ~At(w, "idle") /\ "INSTAGRAM" \notin open
    BY <1>1, InUpload
  <1>3. CASE Persist(Op("video")) /\ Ends(w, "pending", Op("video"))
    BY <1>1, <1>2, <1>3, PersistEndsReason
  <1>4. CASE Ends(w, "retryable", NoOp) /\ UNCHANGED target
    BY <1>1, <1>4, UnpersistedReason DEF target
  <1>5. QED
    BY <1>2, <1>3, <1>4 DEF PersistVideo, Unpersisted

-----------------------------------------------------------------------------
(* The queue, unless a failure is excused.                                 *)

(* A free job has neither an intent on record nor lost its operation.      *)
LEMMA ClaimReason ==
  ASSUME Good, NEW w \in Worker, claimContentPublish(w) PROVE Reasons'
  <1>1. /\ At(w, "idle") /\ Claimable
        /\ UNCHANGED <<open, op, resume, ready, urls, live, faults>>
        /\ job' = [job EXCEPT !.status = "RUNNING",
                     !.target = IF op = NoOp THEN "PUBLISHING"
                                ELSE "PROCESSING",
                     !.owner = w, !.lease = TRUE]
    BY DEF claimContentPublish, target, provider, history
  <1>2. Typed /\ JobReason
    BY DEF Good, Inv, Reasons
  <1>3. \A v \in Worker : At(v, "idle")
    <2> SUFFICES ASSUME NEW v \in Worker, ~At(v, "idle") PROVE FALSE
      OBVIOUS
    <2>1. Owns(v) /\ job.lease
      BY Working
    <2>2. QED
      BY <1>1, <2>1 DEF Claimable, Owns
  <1>4. op.phase \notin Intent /\ (job.status = "RUNNING" => op # NoOp)
    <2>1. op.phase \in Intent \cup {"none"} => job.status # "RUNNING"
      BY <1>2, <1>3 DEF JobReason
    <2>2. QED
      BY <1>2, <2>1, Operations DEF JobReason
  <1>5. Step(w, [Idle EXCEPT !.pc = "begin", !.kind = "none",
                             !.known = op # NoOp, !.op = op])
    <2>1. ~(job.status = "RUNNING" /\ op = NoOp)
      BY <1>4
    <2>2. QED
      BY <2>1 DEF claimContentPublish
  <1> DEFINE known == op # NoOp
             row == [Idle EXCEPT !.pc = "begin", !.kind = "none",
                                 !.known = known, !.op = op]
  <1>6. row.pc = "begin" /\ row.known = known /\ row.op = op
    BY DEF Idle
  <1> HIDE DEF row
  <1>7. worker'[w] = row /\ \A v \in Worker : v # w => At(v, "idle")'
    <2>1. worker' = [worker EXCEPT ![w] = row]
      BY <1>5 DEF Step, row
    <2>2. QED
      BY <1>2, <1>3, <2>1 DEF Typed, At
  <1>8. /\ job'.status = "RUNNING" /\ job'.owner = w
        /\ job'.tries = job.tries
    BY <1>1, <1>2 DEF Typed, JobRow
  <1>9. WorkerReason(worker[w])'
    <2>1. ~known => job'.tries <= faults'
      BY <1>1, <1>2, <1>8 DEF JobReason
    <2>2. QED
      BY <1>1, <1>4, <1>6, <1>7, <2>1 DEF WorkerReason, Uploading
  <1>10. JobReason'
    <2>1. Owns(w)' /\ ~At(w, "idle")'
      BY <1>6, <1>7, <1>8 DEF Owns, At
    <2>2. QED
      BY <1>1, <1>2, <1>4, <1>8, <2>1 DEF JobReason
  <1>11. QED
    BY <1>7, <1>9, <1>10 DEF Reasons

(* The retries cannot be used up: each of them was a fault, but for one    *)
(* after which the operation is known.                                     *)
LEMMA FinishReason ==
  ASSUME Good, MaxFaults < Budget, NEW w \in Worker, finishContentPublish(w)
  PROVE Reasons'
  <1> DEFINE r == worker[w]
             pending == \/ r.kind = "pending" /\ (r.out # NoOp \/ r.known)
                        \/ r.kind = "retryable" /\ r.known
             again == r.kind = "retryable" /\ ~r.known /\ job.tries < Budget
             later(shown, tries) == Released("RETRY_SCHEDULED", shown, tries)
  <1>1. /\ At(w, "finish") /\ ~At(w, "idle")
        /\ Owns(w) /\ CalmRow(r) /\ WorkerReason(r) /\ RowOK(r)
        /\ r \in WorkerRow /\ \A v \in Worker : v # w => At(v, "idle")
    BY Working DEF finishContentPublish, At
  <1>2. /\ UNCHANGED <<open, resume, ready, urls, live, faults>>
        /\ op' = Coalesced(r.out)
    BY <1>1 DEF finishContentPublish, provider, history
  <1>3. /\ r.kind \in {"success", "pending", "retryable", "auth"}
        /\ r.kind = "pending" => r.known \/ r.out # NoOp
        /\ r.kind = "retryable" /\ ~r.known /\ op = NoOp =>
             job.tries < faults
        /\ op.phase \in Intent => r.out = Op("media")
        /\ ~r.known => job.tries <= faults
    BY <1>1 DEF WorkerReason, At
  <1>4. ~r.known => job.tries < Budget
    <2>1. Budget \in Nat /\ MaxFaults \in Nat
      BY AdaptersAssumption
    <2>2. QED
      BY <1>3, <2>1, Counters
  <1>5. \/ job' \in {Released("SUCCEEDED", "SUCCEEDED", job.tries),
                     later("PROCESSING", job.tries),
                     later("WAITING_FOR_REAUTH", job.tries)}
        \/ /\ job' = later("RETRY_SCHEDULED", job.tries + 1)
           /\ r.kind = "retryable" /\ ~r.known
    <2>1. job' = CASE r.kind = "success" ->
                        Released("SUCCEEDED", "SUCCEEDED", job.tries)
                   [] pending -> later("PROCESSING", job.tries)
                   [] r.kind = "auth" ->
                        later("WAITING_FOR_REAUTH", job.tries)
                   [] again -> later("RETRY_SCHEDULED", job.tries + 1)
                   [] OTHER -> Released("FAILED", "FAILED", job.tries)
      BY <1>1 DEF finishContentPublish
    <2>2. \/ r.kind = "success" \/ pending \/ r.kind = "auth" \/ again
      BY <1>1, <1>3, <1>4 DEF WorkerRow
    <2> HIDE DEF pending, again
    <2>3. ~(again /\ ~(r.kind = "retryable" /\ ~r.known))
      BY DEF again
    <2>4. QED
      BY <2>1, <2>2, <2>3
  <1>6. job'.status \in {"SUCCEEDED", "RETRY_SCHEDULED"}
    BY <1>5 DEF Released
  <1>7. /\ op'.phase \notin Intent
        /\ op' \in {op, Op("media")} /\ (op' = NoOp => op = NoOp)
        /\ op'.phase \in {"session", "upload"} => op' = op
    <2>1. \/ r.out \in {NoOp, op}
          \/ r.out = Op("media")
      BY <1>1 DEF CalmRow, At
    <2>2. Op("media").phase = "media" /\ NoOp.phase = "none"
      BY Operations DEF Phase
    <2>3. op.phase \in Intent => op' = Op("media")
      BY <1>2, <1>3, <2>2 DEF Coalesced
    <2>4. QED
      BY <1>2, <2>1, <2>2, <2>3 DEF Coalesced, Intent
  <1>8. op' = NoOp => job'.tries <= faults'
    <2> SUFFICES ASSUME op' = NoOp PROVE job'.tries <= faults'
      OBVIOUS
    <2>1. job.tries <= faults
      BY <1>7 DEF Good, Reasons, JobReason
    <2>2. CASE job' = later("RETRY_SCHEDULED", job.tries + 1)
               /\ r.kind = "retryable" /\ ~r.known
      <3>1. job.tries < faults /\ job'.tries = job.tries + 1
        BY <1>3, <1>7, <2>2 DEF Released
      <3>2. QED
        BY <1>2, <3>1, Counters
    <2>3. QED
      BY <1>2, <1>5, <2>1, <2>2 DEF Released
  <1>9. JobReason'
    BY <1>2, <1>6, <1>7, <1>8 DEF JobReason, Good, Reasons
  <1>10. \A v \in Worker : At(v, "idle")'
    <2>1. worker' = [worker EXCEPT ![w] = Idle] /\ Typed
      BY DEF finishContentPublish, Step, Good, Inv
    <2>2. QED
      BY <1>1, <2>1, IdleTyped DEF Typed, At
  <1>11. QED
    BY <1>9, <1>10 DEF Reasons

(* A process that dies without an excuse leaves an operation behind that   *)
(* the next execution goes on with.                                        *)
LEMMA CrashReason ==
  ASSUME Good, NEW w \in Worker, Crash(w) PROVE Reasons'
  <1>1. /\ ~At(w, "idle")
        /\ Fault(Owns(w) /\ op.phase \in Intent \cup {"none"})
        /\ UNCHANGED <<open, job, op, resume, ready, urls, live>>
        /\ worker' = [worker EXCEPT ![w] = Idle]
    BY DEF Crash, Step, target, provider
  <1>2. Owns(w) /\ \A v \in Worker : v # w => At(v, "idle")
    BY <1>1, Working
  <1>3. op.phase \notin Intent \cup {"none"} /\ faults < faults'
    <2>1. (Owns(w) /\ op.phase \in Intent \cup {"none"}) \in BOOLEAN
      OBVIOUS
    <2>2. QED
      BY <1>1, <1>2, <2>1, FaultCounts
  <1>4. op # NoOp /\ JobReason
    BY <1>3, Operations DEF Good, Reasons
  <1>5. JobReason'
    BY <1>1, <1>3, <1>4 DEF JobReason
  <1>6. \A v \in Worker : At(v, "idle")'
    BY <1>1, <1>2, IdleTyped DEF Good, Inv, Typed, At
  <1>7. QED
    BY <1>5, <1>6 DEF Reasons

(* What happens outside of every execution, to the job or at the provider. *)
LEMMA AsideReason ==
  ASSUME Good, UNCHANGED <<open, op, resume, worker, urls>>,
         job'.tries = job.tries, faults <= faults',
         job'.status # "FAILED", ready' # "rejected",
         "YOUTUBE" \in open => live' = live,
         op.phase \in Intent => job'.status = "RUNNING",
         job'.status = "RUNNING" => job.status = "RUNNING",
         \A v \in Worker : Owns(v) /\ ~At(v, "idle") => Owns(v)'
  PROVE Reasons'
  <1>1. JobReason /\ \A w \in Worker : ~At(w, "idle") =>
                       WorkerReason(worker[w])
    BY DEF Good, Reasons
  <1>2. job.tries <= faults => job'.tries <= faults'
    BY Counters
  <1>3. job.tries < faults => job'.tries < faults'
    BY Counters
  <1>4. JobReason'
    <2>1. job'.status = "RUNNING" /\ op.phase \in Intent \cup {"none"} =>
            \E v \in Worker : Owns(v)' /\ ~At(v, "idle")'
      BY <1>1 DEF JobReason, At
    <2>2. QED
      BY <1>1, <1>2, <2>1 DEF JobReason
  <1>5. ASSUME NEW w \in Worker, ~At(w, "idle")'
        PROVE WorkerReason(worker[w])'
    <2>1. WorkerReason(worker[w]) /\ worker'[w] = worker[w]
      BY <1>1, <1>5 DEF At
    <2>2. QED
      BY <1>2, <1>3, <2>1 DEF WorkerReason
  <1>6. QED
    BY <1>4, <1>5 DEF Reasons

LEMMA LeaseExpiresReason ==
  ASSUME Good, LeaseExpires \/ Stall PROVE Reasons'
  <1>1. LeaseExpires
    BY DEF Good, Stall
  <1>2. /\ job' = [job EXCEPT !.lease = FALSE] /\ job.status = "RUNNING"
        /\ UNCHANGED <<open, op, resume, worker, urls, live, ready, faults>>
    BY <1>1 DEF LeaseExpires, target, provider, history
  <1>3. /\ job'.status = job.status /\ job'.owner = job.owner
        /\ job'.tries = job.tries
    BY <1>2 DEF Good, Inv, Typed, JobRow
  <1>4. ready # "rejected"
    BY DEF Good, Reasons, JobReason
  <1>5. \A v \in Worker : Owns(v) => Owns(v)'
    BY <1>3 DEF Owns
  <1>6. QED
    BY <1>2, <1>3, <1>4, <1>5, Counters, AsideReason

LEMMA ReauthEndsReason ==
  ASSUME Good, NEW status \in {"READY", "FAILED"}, ReauthEnds(status)
  PROVE Reasons'
  <1>1. blamed' = (blamed \/ status = "FAILED") /\ ~blamed'
    BY DEF ReauthEnds, Good
  <1>2. status = "READY"
    BY <1>1
  <1>3. /\ job.status # "RUNNING"
        /\ job' = Released("READY", "READY", job.tries)
        /\ UNCHANGED <<open, op, resume, worker, urls, live, ready, faults>>
    BY <1>2 DEF ReauthEnds, target, provider
  <1>4. job'.status = "READY" /\ job'.tries = job.tries
    BY <1>3 DEF Released
  <1>5. JobReason
    BY DEF Good, Reasons
  <1>6. \A v \in Worker : ~Owns(v)
    BY <1>3 DEF Owns
  <1>7. QED
    BY <1>3, <1>4, <1>5, <1>6, Counters, AsideReason DEF JobReason

LEMMA ProviderReason ==
  ASSUME Good,
         \/ \E state \in {"done", "rejected"} : Processes(state)
         \/ \E url \in 1 .. MaxUrls : UrlExpires(url)
  PROVE Reasons'
  <1>1. UNCHANGED <<open, op, resume, worker, urls, job>> /\ JobReason
    BY DEF Processes, UrlExpires, Calls, target, Good, Reasons
  <1>2. \A v \in Worker : Owns(v) => Owns(v)'
    BY <1>1 DEF Owns
  <1>3. CASE \E state \in {"done", "rejected"} : Processes(state)
    <2>1. ~Fault(TRUE)
      BY FaultCounts
    <2>2. ready' = "done" /\ UNCHANGED <<live, faults>>
      BY <1>3, <2>1 DEF Processes, history
    <2>3. QED
      BY <1>1, <1>2, <2>2, Counters, AsideReason DEF JobReason
  <1>4. CASE \E url \in 1 .. MaxUrls : UrlExpires(url)
    <2>1. Fault("YOUTUBE" \in open) /\ UNCHANGED ready
      BY <1>4 DEF UrlExpires
    <2>2. ("YOUTUBE" \in open) \in BOOLEAN
      OBVIOUS
    <2>3. "YOUTUBE" \notin open /\ faults < faults'
      BY <2>1, <2>2, FaultCounts
    <2>4. QED
      BY <1>1, <1>2, <2>1, <2>3, Counters, AsideReason DEF JobReason
  <1>5. QED
    BY <1>3, <1>4

-----------------------------------------------------------------------------
(* Failures have reasons, when the faults cannot use up the attempts.      *)

(* What has happened stays known, and a stall is an excuse.                *)
Past == (blamed => blamed') /\ (stalled' => stalled \/ blamed')

LEMMA HistoryPast ==
  ASSUME Typed, UNCHANGED history PROVE Past
  BY DEF Typed, history, Past

LEMMA FaultPast ==
  ASSUME Typed, NEW excuse, Fault(excuse) PROVE Past
  BY DEF Typed, Fault, Past

LEMMA ExecutePast ==
  ASSUME Typed, NEW w \in Worker, Execute(w) PROVE Past
  <1>1. CASE \/ Uncertain(w) \/ PersistIntent(w) \/ PersistAnswer(w)
             \/ Poll(w) \/ PollVK(w) \/ LoadResume(w) \/ QueryOffset(w)
             \/ UrlIsGone(w) \/ PersistRefreshed(w) \/ PersistVideo(w)
    <2>1. Quiet
      BY <1>1 DEF Uncertain, PersistIntent, PersistAnswer, Poll, PollVK,
                  LoadResume, QueryOffset, UrlIsGone, PersistRefreshed,
                  PersistVideo
    <2>2. QED
      BY <2>1, HistoryPast DEF Quiet
  <1>2. CASE Answers(w) \/ finishContentPublish(w)
    BY <1>2, HistoryPast DEF Answers, finishContentPublish
  <1>3. CASE SendBytes(w, Size)
    BY <1>3, HistoryPast, FaultPast DEF SendBytes
  <1>4. CASE Refresh(w)
    BY <1>4, HistoryPast, FaultPast DEF Refresh
  <1>5. QED
    BY <1>1, <1>2, <1>3, <1>4 DEF Execute

LEMMA FailsPast ==
  ASSUME Typed, NEW w \in Worker, Fails(w) PROVE Past
  <1>1. ASSUME NEW kind \in {"auth", "retryable", "permanent"},
               Unavailable(w, kind) \/ UploadRefused(w, kind)
        PROVE  Past
    BY <1>1, FaultPast DEF Unavailable, UploadRefused
  <1>2. ASSUME AnswerIsLost(w) \/ \E kind \in {"auth", "permanent"} :
                                    Refuses(w, kind)
        PROVE  Past
    BY <1>2, FaultPast DEF AnswerIsLost, Refuses
  <1>3. ASSUME NEW bytes \in 0 .. Size,
               SendBytes(w, bytes) \/ BreaksOff(w, bytes)
        PROVE  Past
    BY <1>3, HistoryPast, FaultPast DEF SendBytes, BreaksOff
  <1>4. CASE OffsetUnknown(w) \/ Crash(w)
    BY <1>4, FaultPast DEF OffsetUnknown, Crash
  <1>5. QED
    BY <1>1, <1>2, <1>3, <1>4 DEF Fails

LEMMA BlameStays ==
  ASSUME Typed, [Next]_vars PROVE Past
  <1>1. ASSUME NEW w \in Worker, claimContentPublish(w) PROVE Past
    BY <1>1, HistoryPast DEF claimContentPublish
  <1>2. CASE LeaseExpires
    BY <1>2, HistoryPast DEF LeaseExpires
  <1>3. CASE Stall
    BY <1>3 DEF Stall, Past
  <1>4. ASSUME NEW url \in 1 .. MaxUrls, UrlExpires(url) PROVE Past
    BY <1>4, FaultPast DEF UrlExpires
  <1>5. ASSUME NEW status \in {"READY", "FAILED"}, ReauthEnds(status)
        PROVE  Past
    BY <1>5 DEF ReauthEnds, Typed, Past
  <1>6. ASSUME NEW state \in {"done", "rejected"}, Processes(state)
        PROVE  Past
    BY <1>6, HistoryPast, FaultPast DEF Processes
  <1>7. CASE UNCHANGED vars
    BY <1>7, HistoryPast DEF vars, history
  <1>8. QED
    BY <1>1, <1>2, <1>3, <1>4, <1>5, <1>6, <1>7, ExecutePast, FailsPast
    DEF Next

LEMMA InitReason == Init => ReasonInv
  <1> SUFFICES ASSUME Init PROVE ReasonInv
    OBVIOUS
  <1>1. /\ job.status = "READY" /\ job.tries = 0 /\ faults = 0
        /\ ready = "none" /\ live = {} /\ urls = 0 /\ resume = 0 /\ op = NoOp
        /\ stalled = FALSE
    BY DEF Init
  <1>2. \A w \in Worker : At(w, "idle")
    BY IdleTyped DEF Init, At
  <1>3. op.phase = "none"
    BY <1>1, Operations
  <1>4. live = 1 .. urls /\ resume \in 0 .. urls /\ job.tries <= faults
    BY <1>1
  <1>5. JobReason
    BY <1>1, <1>3, <1>4 DEF JobReason, Intent
  <1>6. QED
    BY <1>1, <1>2, <1>5 DEF ReasonInv, Reasons

LEMMA StutterReason ==
  ASSUME Good, UNCHANGED vars PROVE Reasons'
  <1>1. /\ UNCHANGED <<open, op, resume, worker, urls>>
        /\ UNCHANGED <<job, ready, live, faults>>
    BY DEF vars
  <1>2. JobReason /\ JobReason'
    BY <1>1 DEF Good, Reasons, JobReason, Owns, At
  <1>3. \A w \in Worker : ~At(w, "idle")' => WorkerReason(worker[w])'
    BY <1>1 DEF Good, Reasons, WorkerReason, At
  <1>4. QED
    BY <1>2, <1>3 DEF Reasons

LEMMA ReasonStep ==
  ASSUME MaxFaults < Budget, Inv, OffsetInv, ReasonInv, [Next]_vars
  PROVE ReasonInv'
  <1>1. Inv' /\ Typed
    BY InvStep DEF Inv
  <1>2. Past /\ blamed \in BOOLEAN
    BY <1>1, BlameStays DEF Typed
  <1>3. stalled' => blamed'
    BY <1>2 DEF Past, ReasonInv
  <1>4. ASSUME ~blamed' PROVE Reasons'
    <2>1. ~blamed /\ ~stalled /\ Good
      BY <1>1, <1>2, <1>4 DEF Past, ReasonInv, Good
    <2>2. ASSUME NEW w \in Worker, Execute(w) PROVE Reasons'
      BY <2>1, <2>2, UncertainReason, PersistIntentReason, AnswersReason,
         PersistAnswerReason, PollReason, LoadResumeReason,
         QueryOffsetReason, SendsReason, UrlIsGoneReason, RefreshReason,
         PersistRefreshedReason, PersistVideoReason, FinishReason
      DEF Execute
    <2>3. ASSUME NEW w \in Worker, Fails(w) PROVE Reasons'
      BY <2>1, <2>3, UnavailableReason, AnswerIsLostReason,
         OffsetUnknownReason, SendsReason, CrashReason DEF Fails
    <2>4. QED
      BY <2>1, <2>2, <2>3, ClaimReason, LeaseExpiresReason, ProviderReason,
         ReauthEndsReason, StutterReason DEF Next
  <1>5. QED
    BY <1>3, <1>4 DEF ReasonInv

(* A publication fails only for a reason, as long as the faults are fewer  *)
(* than the attempts (contentRetryBackoff): dead processes during an       *)
(* upload, broken connections, unknown offsets, expired URLs and lapses of *)
(* an idle lease do not fail it, in whatever order they come               *)
(* (content_publish_youtube.go:170-224, content_publish_vk.go:139-149,     *)
(* 223-238, content_publish_worker.go:484-524).                            *)
THEOREM FailuresHaveReasons ==
  MaxFaults < Budget => (Spec => []FailsForAReason)
  <1> SUFFICES ASSUME MaxFaults < Budget PROVE Spec => []FailsForAReason
    OBVIOUS
  <1>1. Init => Inv /\ OffsetInv /\ ReasonInv
    BY InvInit, InitOffset, InitReason
  <1>2. Inv /\ OffsetInv /\ ReasonInv /\ [Next]_vars
          => (Inv /\ OffsetInv /\ ReasonInv)'
    BY InvStep, OffsetStep, ReasonStep
  <1>3. ReasonInv => FailsForAReason
    BY DEF ReasonInv, Reasons, JobReason, FailsForAReason
  <1>4. QED
    BY <1>1, <1>2, <1>3, PTL DEF Spec

-----------------------------------------------------------------------------
(* The refinement of PublishInOrder.                                       *)

(* A container that was asked about exists, and one that is about to be    *)
(* published, or was, has been processed.                                  *)
OrderInv ==
  "INSTAGRAM" \in open =>
    /\ ready # "none" => calls["create"] > 0
    /\ calls["dispatch"] > 0 => ready = "done"
    /\ \A w \in Worker :
         \/ At(w, "intend")
         \/ At(w, "call") /\ worker[w].op.phase = "dispatch"
         => ready = "done"

LEMMA PartsDone ==
  /\ Done \subseteq Plan
  /\ Plan \subseteq {"create", "upload", "process", "publish"}
  /\ "create" \in Done <=> calls[Creation] > 0
  /\ "upload" \in Done <=> "INSTAGRAM" \notin open /\ stored = Size
  /\ "process" \in Done <=> "INSTAGRAM" \in open /\ ready = "done"
  /\ "publish" \in Done <=>
       \/ "INSTAGRAM" \in open /\ calls["dispatch"] > 0
       \/ /\ "INSTAGRAM" \notin open /\ "wall" \in open
          /\ calls["wall"] > 0
  BY DEF Plan, Done

LEMMA SameParts ==
  ASSUME UNCHANGED open
  PROVE Plan' = Plan
  BY DEF Plan

LEMMA SameDone ==
  ASSUME UNCHANGED <<open, calls, stored, ready>>
  PROVE Plan' = Plan /\ Done' = Done
  BY SamePlatform DEF Plan, Done

LEMMA SuccessIsShown ==
  ASSUME Inv, OrderInv, NEW w \in Worker, worker[w].kind = "success"
  PROVE Plan \subseteq Done /\ op # NoOp
  <1>1. Typed /\ CreateInv /\ Whole /\ calls[Creation] > 0
    BY DEF Inv, RowInv, RowOK, Whole
  <1>2. Creation \in Intent /\ calls[Creation] \in 0 .. 2
    BY <1>1, CreationIsIntent DEF Typed
  <1>3. op # NoOp
    BY <1>1, <1>2 DEF CreateInv
  <1>4. "INSTAGRAM" \in open => ready = "done"
    BY <1>1 DEF Whole, OrderInv
  <1>5. Plan \subseteq Done
    BY <1>1, <1>4, Platforms DEF Plan, Done, Whole
  <1>6. QED
    BY <1>3, <1>5

(* A step that leaves the provider alone records an operation or nothing.  *)
LEMMA RecordOrder ==
  ASSUME UNCHANGED <<open, calls, stored, ready>>,
         op # NoOp => op' # NoOp,
         (job'.status = "SUCCEEDED") = (job.status = "SUCCEEDED")
  PROVE [Order!Next]_(Order!vars)
  <1>1. Plan' = Plan /\ Done' = Done
    BY SameDone
  <1>2. CASE op = NoOp /\ op' # NoOp
    <2>1. Order!Record
      BY <1>1, <1>2 DEF Order!Record
    <2>2. QED
      BY <2>1 DEF Order!Next
  <1>3. CASE (op' # NoOp) = (op # NoOp)
    BY <1>1, <1>3 DEF Order!vars
  <1>4. QED
    BY <1>2, <1>3

(* One more part is complete.                                              *)
LEMMA PartOrder ==
  ASSUME UNCHANGED <<open, op, job>>, op # NoOp,
         NEW p \in Plan, p \notin Done, Done' = Done \cup {p},
         \A q \in Plan : Order!Rank[q] < Order!Rank[p] => q \in Done
  PROVE [Order!Next]_(Order!vars)
  <1>1. Plan' = Plan
    BY SameParts
  <1>2. p \in Order!Part
    BY PartsDone DEF Order!Part, Order!Rank
  <1>3. Order!Do(p)
    BY <1>1 DEF Order!Do
  <1>4. QED
    BY <1>2, <1>3 DEF Order!Next

LEMMA Ranks ==
  /\ Order!Rank["create"] = 1 /\ Order!Rank["upload"] = 2
  /\ Order!Rank["process"] = 3 /\ Order!Rank["publish"] = 4
  BY DEF Order!Rank

LEMMA CallsOrder ==
  ASSUME Inv, OrderInv, NEW w \in Worker, At(w, "call"),
         CarriedOut(worker[w].op.phase), UNCHANGED <<open, op, job>>
  PROVE [Order!Next]_(Order!vars)
  <1> DEFINE c == worker[w].op.phase
  <1>1. /\ Typed /\ RowOK(worker[w]) /\ Evident(c) /\ CreateInv
        /\ c \in Mine /\ c \in Intent
    BY Known DEF Inv, RowOK, At
  <1>2. /\ calls' = [calls EXCEPT ![c] = IF @ < 2 THEN @ + 1 ELSE @]
        /\ ready' = IF c = "create" THEN "processing" ELSE ready
        /\ stored' = stored
    BY DEF CarriedOut
  <1>3. op # NoOp
    BY <1>1, Operations DEF RowOK, Intent
  <1> HIDE DEF c
  <1>4. /\ calls \in [Intent -> 0 .. 2] /\ Creation \in Intent
        /\ "dispatch" \in Intent /\ "wall" \in Intent
    BY <1>1, CreationIsIntent DEF Typed, Intent
  <1>5. /\ calls'[c] > 0
        /\ \A d \in Intent : d # c => calls'[d] = calls[d]
    <2>1. calls[c] \in 0 .. 2
      BY <1>1, <1>4
    <2>2. QED
      BY <1>1, <1>2, <1>4, <2>1
  <1>6. Creation' = Creation /\ Plan' = Plan
    BY SamePlatform, SameParts
  <1>7. CASE c = Creation
    <2>1. calls[Creation] = 0
      BY <1>1, <1>7 DEF CreateInv, c
    <2>2. "INSTAGRAM" \in open => ready' = "processing" /\ ready = "none"
      <3>1. "INSTAGRAM" \in open => Creation = "create"
        BY <1>1, Platforms
      <3>2. QED
        BY <1>2, <1>4, <1>7, <2>1, <3>1 DEF OrderInv, Typed
    <2>3. c # "dispatch" /\ c # "wall"
      BY <1>1, <1>7, Platforms
    <2>4. Done' = Done \cup {"create"}
      BY <1>2, <1>4, <1>5, <1>6, <1>7, <2>2, <2>3 DEF Plan, Done
    <2>5. "create" \in Plan /\ "create" \notin Done
      BY <1>4, <2>1, PartsDone DEF Plan
    <2>6. \A q \in Plan : ~(Order!Rank[q] < Order!Rank["create"])
      BY Ranks, PartsDone
    <2>7. QED
      BY <1>3, <2>4, <2>5, <2>6, PartOrder
  <1>8. CASE c # Creation
    <2>1. c \in {"dispatch", "wall"} /\ ready' = ready
          /\ (c = "dispatch" => "INSTAGRAM" \in open)
          /\ (c = "wall" => "INSTAGRAM" \notin open /\ "wall" \in open)
      BY <1>1, <1>2, <1>8, Platforms DEF Intent, Evident
    <2>2. calls[Creation] > 0 /\ calls'[Creation] = calls[Creation]
      BY <1>1, <1>4, <1>5, <1>8, <2>1 DEF Evident
    <2>3. Done' = Done \cup {"publish"}
      BY <1>2, <1>4, <1>5, <1>6, <2>1, <2>2 DEF Plan, Done
    <2>4. "publish" \in Plan
      BY <2>1 DEF Plan
    <2>5. \A q \in Plan : q # "publish" => q \in Done
      <3>1. c = "dispatch" => ready = "done"
        BY <2>1 DEF OrderInv, c
      <3>2. c = "wall" => stored = Size
        BY <1>1 DEF Evident, Late
      <3>3. QED
        BY <1>1, <2>1, <2>2, <3>1, <3>2 DEF Plan, Done
    <2>6. CASE "publish" \in Done
      <3>1. Done' = Done
        BY <2>3, <2>6
      <3>2. QED
        BY <1>6, <3>1 DEF Order!vars
    <2>7. CASE "publish" \notin Done
      <3>1. \A q \in Plan : Order!Rank[q] < Order!Rank["publish"] => q \in Done
        BY <2>5, Ranks
      <3>2. QED
        BY <1>3, <2>3, <2>4, <2>7, <3>1, PartOrder
    <2>8. QED
      BY <2>6, <2>7
  <1>9. QED
    BY <1>7, <1>8

LEMMA ArrivesOrder ==
  ASSUME Inv, NEW w \in Worker, worker[w].pc \in Uploading,
         NEW bytes \in stored .. Size, Arrives(w, bytes),
         UNCHANGED <<open, op, job>>
  PROVE [Order!Next]_(Order!vars)
  <1>1. /\ Typed /\ RowOK(worker[w]) /\ CreateInv
        /\ "INSTAGRAM" \notin open /\ calls[Creation] > 0
    BY DEF Inv, RowInv, RowOK
  <1>2. /\ stored' = bytes /\ UNCHANGED calls
        /\ stored \in 0 .. Size /\ Size \in Nat
    BY <1>1, AdaptersAssumption DEF Arrives, Typed
  <1>3. op # NoOp
    <2>1. Creation \in Intent /\ calls[Creation] \in 0 .. 2
      BY <1>1, CreationIsIntent DEF Typed
    <2>2. QED
      BY <1>1, <2>1 DEF CreateInv
  <1>4. Creation' = Creation /\ Plan' = Plan
    BY SamePlatform, SameParts
  <1>5. stored = Size => stored' = Size
    BY <1>2
  <1>6. CASE stored # Size /\ stored' = Size
    <2>1. Done' = Done \cup {"upload"}
      BY <1>1, <1>2, <1>4, <1>6 DEF Plan, Done
    <2>2. "upload" \in Plan /\ "upload" \notin Done
      BY <1>1, <1>6, PartsDone DEF Plan
    <2>3. \A q \in Plan : Order!Rank[q] < Order!Rank["upload"] => q \in Done
      BY <1>1, PartsDone, Ranks
    <2>4. QED
      BY <1>3, <2>1, <2>2, <2>3, PartOrder
  <1>7. CASE (stored' = Size) = (stored = Size)
    <2>1. Done' = Done
      BY <1>1, <1>2, <1>4, <1>7 DEF Plan, Done
    <2>2. QED
      BY <1>4, <2>1 DEF Order!vars
  <1>8. QED
    BY <1>5, <1>6, <1>7

LEMMA ProcessesOrder ==
  ASSUME Inv, OrderInv, NEW state \in {"done", "rejected"}, Processes(state)
  PROVE [Order!Next]_(Order!vars)
  <1>1. /\ Typed /\ CreateInv /\ ready = "processing" /\ ready' = state
        /\ UNCHANGED <<open, op, job, calls, stored>>
    BY DEF Inv, Processes, Calls, target
  <1>2. Creation' = Creation /\ Plan' = Plan
    BY <1>1, SamePlatform, SameParts
  <1>3. CASE "INSTAGRAM" \in open /\ state = "done"
    <2>1. calls[Creation] > 0 /\ op # NoOp
      <3>1. Creation = "create" /\ calls["create"] > 0
        BY <1>1, <1>3, Platforms DEF OrderInv
      <3>2. QED
        BY <1>1, <3>1 DEF CreateInv
    <2>2. Done' = Done \cup {"process"}
      BY <1>1, <1>2, <1>3 DEF Plan, Done
    <2>3. "process" \in Plan /\ "process" \notin Done
      BY <1>1, <1>3, PartsDone DEF Plan
    <2>4. \A q \in Plan : Order!Rank[q] < Order!Rank["process"] => q \in Done
      BY <1>3, <2>1, PartsDone, Ranks DEF Plan
    <2>5. QED
      BY <1>1, <2>1, <2>2, <2>3, <2>4, PartOrder
  <1>4. CASE ~("INSTAGRAM" \in open /\ state = "done")
    <2>1. Done' = Done
      BY <1>1, <1>2, <1>4 DEF Plan, Done
    <2>2. QED
      BY <1>1, <1>2, <2>1 DEF Order!vars
  <1>5. QED
    BY <1>3, <1>4

LEMMA FinishOrder ==
  ASSUME Inv, OrderInv, NEW w \in Worker, finishContentPublish(w)
  PROVE [Order!Next]_(Order!vars)
  <1>1. UNCHANGED <<open, calls, stored, ready>>
    BY DEF finishContentPublish, provider
  <1>2. op # NoOp => op' # NoOp
    BY DEF finishContentPublish, Coalesced
  <1>3. CASE Owns(w) /\ worker[w].kind = "success"
    <2>1. Plan \subseteq Done /\ op # NoOp
      BY <1>3, SuccessIsShown
    <2>2. job.status # "SUCCEEDED"
      BY <1>3 DEF Owns
    <2>3. job'.status = "SUCCEEDED"
      BY <1>3 DEF finishContentPublish, Released
    <2>4. Plan' = Plan /\ Done' = Done
      BY <1>1, SameDone
    <2>5. Order!Show
      BY <1>2, <2>1, <2>2, <2>3, <2>4 DEF Order!Show
    <2>6. QED
      BY <2>5 DEF Order!Next
  <1>4. CASE ~(Owns(w) /\ worker[w].kind = "success")
    <2>1. (job'.status = "SUCCEEDED") = (job.status = "SUCCEEDED")
      <3>1. CASE Owns(w)
        <4>1. job.status # "SUCCEEDED"
          BY <3>1 DEF Owns
        <4>2. job'.status # "SUCCEEDED"
          BY <1>4, <3>1 DEF finishContentPublish, Released
        <4>3. QED
          BY <4>1, <4>2
      <3>2. CASE ~Owns(w)
        BY <3>2 DEF finishContentPublish
      <3>3. QED
        BY <3>1, <3>2
    <2>2. QED
      BY <1>1, <1>2, <2>1, RecordOrder
  <1>5. QED
    BY <1>3, <1>4

(* The order is kept by a step in which a worker goes elsewhere, ...       *)
LEMMA ElsewhereKeeps ==
  ASSUME OrderInv, NEW w \in Worker, UNCHANGED <<open, calls, ready>>,
         \A v \in Worker : v # w => worker'[v] = worker[v],
         worker'[w].pc \notin {"intend", "call"}
  PROVE OrderInv'
  BY DEF OrderInv, At

(* ... by one that moves no worker, ...                                    *)
LEMMA AsideKeeps ==
  ASSUME OrderInv, UNCHANGED <<open, calls, ready, worker>>
  PROVE OrderInv'
  BY DEF OrderInv, At

(* ... and by one on another platform.                                     *)
LEMMA ForeignKeeps ==
  ASSUME "INSTAGRAM" \notin open, UNCHANGED open
  PROVE OrderInv'
  BY DEF OrderInv

LEMMA StepGoes ==
  ASSUME Typed, NEW w \in Worker, NEW row, Step(w, row)
  PROVE worker'[w] = row /\ \A v \in Worker : v # w => worker'[v] = worker[v]
  BY DEF Typed, Step

LEMMA EndsElsewhere ==
  ASSUME Typed, OrderInv, NEW w \in Worker, NEW kind, NEW out,
         Ends(w, kind, out), UNCHANGED <<open, calls, ready>>
  PROVE OrderInv'
  <1> DEFINE row == [worker[w] EXCEPT !.pc = "finish", !.kind = kind,
                                      !.out = out]
  <1>1. worker[w] \in WorkerRow
    BY DEF Typed
  <1>2. row.pc = "finish"
    BY <1>1 DEF WorkerRow
  <1>3. Step(w, row)
    BY DEF Ends
  <1> HIDE DEF row
  <1>4. QED
    BY <1>2, <1>3, StepGoes, ElsewhereKeeps

LEMMA GoesElsewhere ==
  ASSUME Typed, OrderInv, NEW w \in Worker, NEW pc, Goes(w, pc),
         pc \notin {"intend", "call"}, UNCHANGED <<open, calls, ready>>
  PROVE OrderInv'
  <1> DEFINE row == [worker[w] EXCEPT !.pc = pc]
  <1>1. worker[w] \in WorkerRow
    BY DEF Typed
  <1>2. row.pc = pc
    BY <1>1 DEF WorkerRow
  <1>3. Step(w, row)
    BY DEF Goes
  <1> HIDE DEF row
  <1>4. QED
    BY <1>2, <1>3, StepGoes, ElsewhereKeeps

LEMMA ClaimKeepsOrder ==
  ASSUME Typed, OrderInv, NEW w \in Worker, claimContentPublish(w)
  PROVE OrderInv'
  <1> DEFINE lost == job.status = "RUNNING" /\ op = NoOp
             row == [Idle EXCEPT !.pc = IF lost THEN "finish" ELSE "begin",
                                 !.kind = IF lost THEN "permanent" ELSE "none",
                                 !.known = op # NoOp, !.op = op]
  <1>1. Step(w, row) /\ UNCHANGED <<open, calls, ready>>
    BY DEF claimContentPublish, provider
  <1>2. row.pc \notin {"intend", "call"}
    BY DEF Idle
  <1> HIDE DEF row
  <1>3. QED
    BY <1>1, <1>2, StepGoes, ElsewhereKeeps

LEMMA PollKeepsOrder ==
  ASSUME Typed, OrderInv, NEW w \in Worker, Poll(w)
  PROVE OrderInv'
  <1>1. UNCHANGED <<open, calls, ready>>
    BY DEF Poll, Quiet, provider
  <1>2. \/ \E kind, out : Ends(w, kind, out)
        \/ ready = "done" /\ Goes(w, "intend")
    BY DEF Poll, Finished
  <1>3. CASE ready = "done" /\ Goes(w, "intend")
    BY <1>1, <1>3 DEF OrderInv
  <1>4. QED
    BY <1>1, <1>2, <1>3, EndsElsewhere

LEMMA PersistIntentKeepsOrder ==
  ASSUME Typed, OrderInv, NEW w \in Worker, PersistIntent(w)
  PROVE OrderInv'
  <1> DEFINE intent == CASE At(w, "intend") -> "dispatch"
                         [] worker[w].op.phase = "video" -> "wall"
                         [] OTHER -> Creation
             row == [worker[w] EXCEPT !.pc = "call", !.op = Op(intent)]
  <1>1. UNCHANGED <<open, calls, ready>>
    BY DEF PersistIntent, Quiet, provider
  <1>2. \/ Step(w, row)
        \/ \E kind, out : Ends(w, kind, out)
    BY DEF PersistIntent, Unpersisted
  <1>3. CASE Step(w, row)
    <2>1. worker[w] \in WorkerRow
      BY DEF Typed
    <2>2. row.op = Op(intent) /\ row.pc = "call"
      BY <2>1 DEF WorkerRow
    <2>3. "INSTAGRAM" \in open /\ intent = "dispatch" => At(w, "intend")
      BY Platforms
    <2> HIDE DEF intent, row
    <2>4. worker'[w] = row /\ \A v \in Worker : v # w => worker'[v] = worker[v]
      BY <1>3, StepGoes
    <2>5. row.op.phase = intent
      BY <2>2 DEF Op
    <2>6. ASSUME "INSTAGRAM" \in open, NEW v \in Worker,
                 \/ At(v, "intend")'
                 \/ At(v, "call")' /\ worker'[v].op.phase = "dispatch"
          PROVE  ready = "done"
      <3>1. CASE v = w
        BY <2>2, <2>3, <2>4, <2>5, <2>6, <3>1 DEF OrderInv, At
      <3>2. CASE v # w
        BY <2>4, <2>6, <3>2 DEF OrderInv, At
      <3>3. QED
        BY <3>1, <3>2
    <2>7. QED
      BY <1>1, <2>6 DEF OrderInv
  <1>4. QED
    BY <1>1, <1>2, <1>3, EndsElsewhere

(* A call that the provider carries out.                                   *)
LEMMA CallKeepsOrder ==
  ASSUME Inv, OrderInv, NEW w \in Worker, At(w, "call"),
         CarriedOut(worker[w].op.phase), UNCHANGED open,
         \A v \in Worker : v # w => worker'[v] = worker[v],
         worker'[w].pc \notin {"intend", "call"}
  PROVE OrderInv'
  <1> SUFFICES ASSUME "INSTAGRAM" \in open PROVE OrderInv'
    BY ForeignKeeps
  <1> DEFINE c == worker[w].op.phase
  <1>1. Typed /\ RowOK(worker[w]) /\ c \in Mine /\ c \in Intent /\ CreateInv
    BY Known DEF Inv, RowOK, At
  <1>2. /\ calls' = [calls EXCEPT ![c] = IF @ < 2 THEN @ + 1 ELSE @]
        /\ ready' = IF c = "create" THEN "processing" ELSE ready
    BY DEF CarriedOut
  <1>3. /\ calls \in [Intent -> 0 .. 2]
        /\ "create" \in Intent /\ "dispatch" \in Intent
    BY <1>1 DEF Typed, Intent
  <1>4. c \in {"create", "dispatch"} /\ Creation = "create"
    BY <1>1, Platforms DEF Intent
  <1>5. CASE c = "create"
    <2>1. calls["create"] = 0
      BY <1>1, <1>4, <1>5 DEF CreateInv
    <2>2. ready = "none"
      BY <1>3, <2>1 DEF OrderInv
    <2> HIDE DEF c
    <2>3. /\ calls'["create"] = 1 /\ calls'["dispatch"] = calls["dispatch"]
      BY <1>2, <1>3, <1>5, <2>1
    <2>4. QED
      BY <2>2, <2>3 DEF OrderInv, At
  <1>6. CASE c = "dispatch"
    <2>1. ready = "done" /\ ready' = "done"
      BY <1>2, <1>6 DEF OrderInv
    <2> HIDE DEF c
    <2>2. calls'["create"] = calls["create"]
      BY <1>2, <1>3, <1>6
    <2>3. QED
      BY <2>1, <2>2 DEF OrderInv
  <1>7. QED
    BY <1>4, <1>5, <1>6

LEMMA AnswersKeepsOrder ==
  ASSUME Inv, OrderInv, NEW w \in Worker, Answers(w)
  PROVE OrderInv'
  <1> DEFINE row == [worker[w] EXCEPT !.pc = "answered", !.url = urls']
  <1>1. Typed /\ worker[w] \in WorkerRow
    BY DEF Inv, Typed
  <1>2. row.pc = "answered"
    BY <1>1 DEF WorkerRow
  <1>3. Step(w, row) /\ At(w, "call") /\ CarriedOut(worker[w].op.phase)
        /\ UNCHANGED open
    BY DEF Answers, Calls
  <1> HIDE DEF row
  <1>4. QED
    BY <1>1, <1>2, <1>3, StepGoes, CallKeepsOrder

LEMMA AnswerIsLostKeepsOrder ==
  ASSUME Inv, OrderInv, NEW w \in Worker, AnswerIsLost(w)
  PROVE OrderInv'
  <1>1. /\ At(w, "call") /\ UNCHANGED open
        /\ CarriedOut(worker[w].op.phase) \/ UNCHANGED provider
    BY DEF AnswerIsLost, Calls
  <1>2. PICK kind, out : Ends(w, kind, out)
    BY DEF AnswerIsLost
  <1>3. Typed /\ worker[w] \in WorkerRow
    BY DEF Inv, Typed
  <1>4. CASE CarriedOut(worker[w].op.phase)
    <2> DEFINE row == [worker[w] EXCEPT !.pc = "finish", !.kind = kind,
                                        !.out = out]
    <2>1. row.pc = "finish"
      BY <1>3 DEF WorkerRow
    <2>2. Step(w, row)
      BY <1>2 DEF Ends
    <2> HIDE DEF row
    <2>3. QED
      BY <1>1, <1>3, <1>4, <2>1, <2>2, StepGoes, CallKeepsOrder
  <1>5. CASE UNCHANGED provider
    BY <1>1, <1>2, <1>3, <1>5, EndsElsewhere DEF provider
  <1>6. QED
    BY <1>1, <1>4, <1>5

LEMMA PersistAnswerKeepsOrder ==
  ASSUME Typed, OrderInv, NEW w \in Worker, PersistAnswer(w)
  PROVE OrderInv'
  <1>1. UNCHANGED <<open, calls, ready>>
    BY DEF PersistAnswer, Quiet, provider
  <1>2. \/ \E kind, out : Ends(w, kind, out)
        \/ \E pc \in {"query", "send"} : \E o :
             Step(w, [worker[w] EXCEPT !.pc = pc, !.op = o])
    BY DEF PersistAnswer, Unpersisted
  <1>3. ASSUME NEW pc \in {"query", "send"}, NEW o,
               Step(w, [worker[w] EXCEPT !.pc = pc, !.op = o])
        PROVE  OrderInv'
    <2> DEFINE row == [worker[w] EXCEPT !.pc = pc, !.op = o]
    <2>1. worker[w] \in WorkerRow
      BY DEF Typed
    <2>2. row.pc = pc
      BY <2>1 DEF WorkerRow
    <2>3. Step(w, row)
      BY <1>3
    <2> HIDE DEF row
    <2>4. QED
      BY <1>1, <2>2, <2>3, StepGoes, ElsewhereKeeps
  <1>4. QED
    BY <1>1, <1>2, <1>3, EndsElsewhere

LEMMA QuietKeepsOrder ==
  ASSUME Typed, OrderInv, NEW w \in Worker,
         UNCHANGED <<open, job, calls, stored, ready>>,
         \/ Uncertain(w) \/ PersistIntent(w) \/ PersistAnswer(w)
         \/ Poll(w) \/ PollVK(w) \/ LoadResume(w) \/ QueryOffset(w)
         \/ UrlIsGone(w) \/ PersistRefreshed(w) \/ PersistVideo(w)
  PROVE OrderInv'
  <1>1. CASE Uncertain(w) \/ PollVK(w) \/ PersistVideo(w)
    <2>1. \E kind, out : Ends(w, kind, out)
      BY <1>1 DEF Uncertain, PollVK, PersistVideo, Unpersisted
    <2>2. QED
      BY <2>1, EndsElsewhere
  <1>2. CASE LoadResume(w) \/ QueryOffset(w) \/ UrlIsGone(w)
             \/ PersistRefreshed(w)
    <2>1. \/ \E kind, out : Ends(w, kind, out)
          \/ \E pc \in {"send", "query"} : \E url :
               Step(w, [worker[w] EXCEPT !.pc = pc, !.url = url])
          \/ \E pc \in {"uploaded", "expired"} : Goes(w, pc)
          \/ \E next : Step(w, [worker[w] EXCEPT !.pc = "send", !.next = next])
          \/ \E o : Step(w, [worker[w] EXCEPT !.pc = "send", !.op = o])
      BY <1>2 DEF LoadResume, QueryOffset, UrlIsGone, PersistRefreshed
    <2>2. worker[w] \in WorkerRow
      BY DEF Typed
    <2>3. ASSUME NEW row, Step(w, row), row.pc \notin {"intend", "call"}
          PROVE  OrderInv'
      BY <2>3, StepGoes, ElsewhereKeeps
    <2>4. ASSUME NEW pc \in {"send", "query"}, NEW url,
                 Step(w, [worker[w] EXCEPT !.pc = pc, !.url = url])
          PROVE  OrderInv'
      <3>1. [worker[w] EXCEPT !.pc = pc, !.url = url].pc = pc
        BY <2>2 DEF WorkerRow
      <3>2. QED
        BY <2>3, <2>4, <3>1
    <2>5. ASSUME NEW next,
                 Step(w, [worker[w] EXCEPT !.pc = "send", !.next = next])
          PROVE  OrderInv'
      <3>1. [worker[w] EXCEPT !.pc = "send", !.next = next].pc = "send"
        BY <2>2 DEF WorkerRow
      <3>2. QED
        BY <2>3, <2>5, <3>1
    <2>6. ASSUME NEW o, Step(w, [worker[w] EXCEPT !.pc = "send", !.op = o])
          PROVE  OrderInv'
      <3>1. [worker[w] EXCEPT !.pc = "send", !.op = o].pc = "send"
        BY <2>2 DEF WorkerRow
      <3>2. QED
        BY <2>3, <2>6, <3>1
    <2>7. QED
      BY <2>1, <2>4, <2>5, <2>6, EndsElsewhere, GoesElsewhere
  <1>3. QED
    BY <1>1, <1>2, PollKeepsOrder, PersistIntentKeepsOrder,
       PersistAnswerKeepsOrder

LEMMA SendsOrder ==
  ASSUME Inv, OrderInv, NEW w \in Worker, NEW bytes \in 0 .. Size,
         SendBytes(w, bytes) \/ BreaksOff(w, bytes)
  PROVE OrderInv' /\ [Order!Next]_(Order!vars)
  <1>1. worker[w].pc \in Uploading /\ UNCHANGED <<open, op, job>>
    BY DEF SendBytes, BreaksOff, At, Uploading, Calls, target
  <1>2. "INSTAGRAM" \notin open
    BY <1>1 DEF Inv, RowInv, RowOK
  <1>3. OrderInv'
    BY <1>1, <1>2, ForeignKeeps
  <1>4. CASE bytes \in stored .. Size /\ Arrives(w, bytes)
    BY <1>1, <1>3, <1>4, ArrivesOrder
  <1>5. CASE UNCHANGED provider
    BY <1>1, <1>3, <1>5, RecordOrder DEF provider
  <1>6. QED
    BY <1>4, <1>5 DEF SendBytes, BreaksOff

(* An operation that is on record stays there, whatever it becomes.        *)
LEMMA Written ==
  ASSUME Typed, NEW w \in Worker, op # NoOp,
         \/ Uncertain(w) \/ PersistIntent(w) \/ PersistAnswer(w)
         \/ Poll(w) \/ PollVK(w) \/ LoadResume(w) \/ QueryOffset(w)
         \/ UrlIsGone(w) \/ PersistRefreshed(w) \/ PersistVideo(w)
  PROVE op' # NoOp
  <1>1. NoOp.phase = "none"
    BY Operations
  <1>2. CASE \/ Uncertain(w) \/ Poll(w) \/ PollVK(w) \/ LoadResume(w)
             \/ QueryOffset(w) \/ UrlIsGone(w)
    BY <1>2 DEF Uncertain, Poll, PollVK, LoadResume, QueryOffset, UrlIsGone,
                target
  <1>3. CASE PersistIntent(w)
    <2>1. \/ UNCHANGED op
          \/ op'.phase \in {"dispatch", "wall", Creation}
      BY <1>3 DEF PersistIntent, Persist, Op, target
    <2>2. Creation # "none"
      BY Platforms
    <2>3. QED
      BY <1>1, <2>1, <2>2
  <1>4. CASE PersistAnswer(w)
    <2> DEFINE c == worker[w].op.phase
               new == CASE c = "create" -> Op("container")
                        [] c = "dispatch" -> Op("media")
                        [] c = "init" -> Upload("session", worker[w].url)
                        [] c = "save" -> Upload("upload", worker[w].url)
                        [] c = "wall" -> Op("posted")
    <2>1. \/ UNCHANGED op
          \/ op' = new /\ c \in {"create", "init", "save", "wall"}
      BY <1>4 DEF PersistAnswer, Persist, PersistResume, target
    <2> HIDE DEF c
    <2>2. c \in {"create", "init", "save", "wall"} => new.phase # "none"
      BY DEF Op, Upload
    <2>3. QED
      BY <1>1, <2>1, <2>2
  <1>5. CASE PersistRefreshed(w) \/ PersistVideo(w)
    <2>1. UNCHANGED op \/ op'.phase \in {"upload", "video"}
      BY <1>5 DEF PersistRefreshed, PersistVideo, Persist, PersistResume, Op,
                  Upload, target
    <2>2. QED
      BY <1>1, <2>1
  <1>6. QED
    BY <1>2, <1>3, <1>4, <1>5

LEMMA ExecuteOrder ==
  ASSUME Inv, OrderInv, NEW w \in Worker, Execute(w)
  PROVE OrderInv' /\ [Order!Next]_(Order!vars)
  <1>0. Typed
    BY DEF Inv
  <1>1. CASE \/ Uncertain(w) \/ PersistIntent(w) \/ PersistAnswer(w)
             \/ Poll(w) \/ PollVK(w) \/ LoadResume(w) \/ QueryOffset(w)
             \/ UrlIsGone(w) \/ PersistRefreshed(w) \/ PersistVideo(w)
    <2>1. Quiet
      BY <1>1 DEF Uncertain, PersistIntent, PersistAnswer, Poll, PollVK,
                  LoadResume, QueryOffset, UrlIsGone, PersistRefreshed,
                  PersistVideo
    <2>2. UNCHANGED <<open, job, calls, stored, ready>>
      BY <2>1 DEF Quiet, provider
    <2>3. op # NoOp => op' # NoOp
      BY <1>0, <1>1, Written
    <2>4. OrderInv'
      BY <1>0, <1>1, <2>2, QuietKeepsOrder
    <2>5. QED
      BY <2>2, <2>3, <2>4, RecordOrder
  <1>2. CASE Answers(w)
    <2>1. At(w, "call") /\ CarriedOut(worker[w].op.phase)
          /\ UNCHANGED <<open, op, job>>
      BY <1>2 DEF Answers, Calls, target
    <2>2. QED
      BY <1>2, <2>1, CallsOrder, AnswersKeepsOrder
  <1>3. CASE SendBytes(w, Size)
    <2>1. Size \in 0 .. Size
      BY AdaptersAssumption
    <2>2. QED
      BY <1>3, <2>1, SendsOrder
  <1>4. CASE Refresh(w)
    <2>1. UNCHANGED <<open, op, job, calls, stored, ready>>
      BY <1>4 DEF Refresh, Calls, target, provider
    <2>2. "INSTAGRAM" \notin open
      BY <1>4 DEF Inv, RowInv, RowOK, Uploading, Refresh, At
    <2>3. QED
      BY <2>1, <2>2, RecordOrder, ForeignKeeps
  <1>5. CASE finishContentPublish(w)
    <2>1. Step(w, Idle) /\ UNCHANGED <<open, calls, ready>>
      BY <1>5 DEF finishContentPublish, provider
    <2>2. OrderInv'
      BY <1>0, <2>1, IdleTyped, StepGoes, ElsewhereKeeps
    <2>3. QED
      BY <1>5, <2>2, FinishOrder
  <1>6. QED
    BY <1>1, <1>2, <1>3, <1>4, <1>5 DEF Execute

LEMMA FailsOrder ==
  ASSUME Inv, OrderInv, NEW w \in Worker, Fails(w)
  PROVE OrderInv' /\ [Order!Next]_(Order!vars)
  <1>0. Typed
    BY DEF Inv
  <1>1. ASSUME NEW kind, Unavailable(w, kind) \/ UploadRefused(w, kind)
                         \/ Refuses(w, kind)
        PROVE  OrderInv' /\ [Order!Next]_(Order!vars)
    <2>1. UNCHANGED <<open, op, job, calls, stored, ready>>
      BY <1>1 DEF Unavailable, UploadRefused, Refuses, Calls, target, provider
    <2>2. \E k, out : Ends(w, k, out)
      BY <1>1 DEF Unavailable, UploadRefused, Refuses
    <2>3. QED
      BY <1>0, <2>1, <2>2, EndsElsewhere, RecordOrder
  <1>2. CASE AnswerIsLost(w)
    <2>1. /\ At(w, "call") /\ UNCHANGED <<open, op, job>>
          /\ CarriedOut(worker[w].op.phase) \/ UNCHANGED provider
      BY <1>2 DEF AnswerIsLost, Calls, target
    <2>2. [Order!Next]_(Order!vars)
      BY <2>1, CallsOrder, RecordOrder DEF provider
    <2>3. QED
      BY <1>2, <2>2, AnswerIsLostKeepsOrder
  <1>3. ASSUME NEW bytes \in 0 .. Size,
               SendBytes(w, bytes) \/ BreaksOff(w, bytes)
        PROVE  OrderInv' /\ [Order!Next]_(Order!vars)
    BY <1>3, SendsOrder
  <1>4. CASE OffsetUnknown(w)
    <2>1. UNCHANGED <<open, op, job, calls, stored, ready>>
      BY <1>4 DEF OffsetUnknown, Calls, target, provider
    <2>2. "INSTAGRAM" \notin open
      BY <1>4 DEF Inv, RowInv, RowOK, Uploading, OffsetUnknown, At
    <2>3. QED
      BY <2>1, <2>2, RecordOrder, ForeignKeeps
  <1>5. CASE Crash(w)
    <2>1. Step(w, Idle) /\ UNCHANGED <<open, op, job, calls, stored, ready>>
      BY <1>5 DEF Crash, target, provider
    <2>2. OrderInv'
      BY <1>0, <2>1, IdleTyped, StepGoes, ElsewhereKeeps
    <2>3. QED
      BY <2>1, <2>2, RecordOrder
  <1>6. QED
    BY <1>1, <1>2, <1>3, <1>4, <1>5 DEF Fails

LEMMA StepOrder ==
  ASSUME Inv, OrderInv, [Next]_vars
  PROVE OrderInv' /\ [Order!Next]_(Order!vars)
  <1>0. Typed
    BY DEF Inv
  <1>1. ASSUME NEW w \in Worker, claimContentPublish(w)
        PROVE  OrderInv' /\ [Order!Next]_(Order!vars)
    <2>1. /\ UNCHANGED <<open, op, calls, stored, ready>>
          /\ job.status # "SUCCEEDED" /\ job'.status # "SUCCEEDED"
      BY <1>0, <1>1 DEF claimContentPublish, Claimable, target, provider,
                        Typed, JobRow
    <2>2. QED
      BY <1>0, <1>1, <2>1, ClaimKeepsOrder, RecordOrder
  <1>2. CASE LeaseExpires \/ Stall
    <2>1. /\ UNCHANGED <<open, op, calls, stored, ready, worker>>
          /\ job'.status = job.status
      BY <1>0, <1>2 DEF LeaseExpires, Stall, target, provider, Typed, JobRow
    <2>2. QED
      BY <2>1, AsideKeeps, RecordOrder
  <1>3. ASSUME NEW url, UrlExpires(url)
        PROVE  OrderInv' /\ [Order!Next]_(Order!vars)
    <2>1. UNCHANGED <<open, op, job, calls, stored, ready, worker>>
      BY <1>3 DEF UrlExpires, Calls, target
    <2>2. QED
      BY <2>1, AsideKeeps, RecordOrder
  <1>4. ASSUME NEW status \in {"READY", "FAILED"}, ReauthEnds(status)
        PROVE  OrderInv' /\ [Order!Next]_(Order!vars)
    <2>1. /\ UNCHANGED <<open, op, calls, stored, ready, worker>>
          /\ job.status # "SUCCEEDED" /\ job'.status # "SUCCEEDED"
      BY <1>4 DEF ReauthEnds, Released, target, provider
    <2>2. QED
      BY <2>1, AsideKeeps, RecordOrder
  <1>5. ASSUME NEW state \in {"done", "rejected"}, Processes(state)
        PROVE  OrderInv' /\ [Order!Next]_(Order!vars)
    <2>1. /\ UNCHANGED <<open, calls, worker>> /\ ready = "processing"
      BY <1>5 DEF Processes, Calls
    <2>2. OrderInv'
      BY <2>1 DEF OrderInv, At
    <2>3. QED
      BY <1>5, <2>2, ProcessesOrder
  <1>6. CASE UNCHANGED vars
    <2>1. UNCHANGED <<open, op, job, calls, stored, ready, worker>>
      BY <1>6 DEF vars
    <2>2. QED
      BY <2>1, AsideKeeps, RecordOrder
  <1>7. QED
    BY <1>1, <1>2, <1>3, <1>4, <1>5, <1>6, ExecuteOrder, FailsOrder DEF Next

LEMMA InitOrder == Init => OrderInv /\ Order!Init
  <1> SUFFICES ASSUME Init PROVE OrderInv /\ Order!Init
    OBVIOUS
  <1>1. Typed /\ op = NoOp /\ job.status = "READY" /\ ready = "none"
        /\ stored = 0 /\ \A c \in Intent : calls[c] = 0
    BY InvInit DEF Inv, Init
  <1>2. Creation \in Intent /\ "dispatch" \in Intent /\ "wall" \in Intent
    BY <1>1, CreationIsIntent DEF Intent
  <1>3. \A w \in Worker : At(w, "idle")
    BY IdleTyped DEF Init, At
  <1>4. OrderInv
    BY <1>1, <1>2, <1>3 DEF OrderInv, At
  <1>5. stored # Size
    BY <1>1, AdaptersAssumption
  <1>6. Done = {}
    BY <1>1, <1>2, <1>5, PartsDone
  <1>7. Plan \in SUBSET Order!Part
    BY PartsDone DEF Order!Part, Order!Rank
  <1>8. QED
    BY <1>1, <1>4, <1>6, <1>7 DEF Order!Init

(* The adapters implement the abstract publication in parts: an operation  *)
(* on record, each part after those before it, and then the success, for   *)
(* good (content_publish_instagram.go:69-76, 119-127,                      *)
(* content_publish_vk.go:154-181, content_publish_worker.go:463-483).      *)
THEOREM AdaptersPublishInOrder == Spec => ImplementsPublishInOrder
  BY InvInit, InvStep, InitOrder, StepOrder, PTL
  DEF Spec, ImplementsPublishInOrder, Order!Spec
=============================================================================
