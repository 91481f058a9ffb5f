------------------------------- MODULE WbTest -------------------------------
(***************************************************************************)
(* wbtest.c: the writeback test of the display controller.  main() finds   *)
(* the objects and runs scenarios; a scenario makes its buffers, commits   *)
(* frames with a writeback job each, waits for every job's fence, saves    *)
(* the captured picture and switches everything off again.  Any ioctl may  *)
(* fail, any property may be missing, a fence may be late.  Pixels are     *)
(* left out but for one thing: whether the hardware wrote the buffer.      *)
(***************************************************************************)
EXTENDS Integers, Sequences, FiniteSets, SequencesExt, Sums

CONSTANTS
  MaxRuns,      \* bound on the scenarios of one invocation
  Props         \* properties that may be missing from the driver

VARIABLES
  pc, scen,       \* where main() is; the scenario of run()
  runs, fails,    \* scenarios started; main()'s fails
  missing,        \* properties prop_find() does not find
  modes,          \* n_wb_modes
  bufs, blob,     \* buffers and blobs the kernel holds, as a set of <<kind, run>>
  todo,           \* buffers of this scenario that mkbuf() has still to make
  req, adds,      \* a_objs, a_cnts, a_props/a_vals; the calls of aadd() still to come
  asked,          \* the calls for this request whose property exists: <<object,
                  \* property, value>> (history)
  kms,            \* the kernel's side: what is switched on
  refused,        \* a commit that switches off was refused (history)
  f, ret,         \* frame counter and result of run()
  fence, wb,      \* the job's fence; the writeback buffer: "garbage", "queued" or "frame"
  saved           \* the files: <<content, frames of the scenario>>

vars == <<pc, scen, runs, fails, missing, modes, bufs, blob, todo, req, adds, asked, kms, refused, f, ret, fence, wb, saved>>
drm == <<missing, modes, kms, refused>>
main == <<runs, fails, scen>>
bufv == <<bufs, blob, todo>>
job == <<f, ret, fence, wb, saved>>
reqv == <<req, adds, asked>>

\* scens[] and the custom scenario: mode index, overlay, blend, frames.
Scens ==
  { [name |-> "compose", mode |-> 0, overlay |-> TRUE, blend |-> TRUE, frames |-> 1],
    [name |-> "upscale2x", mode |-> 0, overlay |-> FALSE, blend |-> FALSE, frames |-> 1],
    [name |-> "timing", mode |-> 1, overlay |-> FALSE, blend |-> FALSE, frames |-> 2] } \cup
  [name : {"custom"}, mode : {0}, overlay : {FALSE}, blend : {FALSE}, frames : 0 .. 2]

Empty == [objs |-> <<>>, cnts |-> <<>>, props |-> <<>>]
Switches == {<<"crtc", "ACTIVE">>, <<"prim", "CRTC_ID">>, <<"ovl", "CRTC_ID">>, <<"conn", "CRTC_ID">>}
AllOff == [s \in Switches |-> 0]

-----------------------------------------------------------------------------
(* The atomic request.                                                     *)

\* aadd(): a property of another object than the last one opens a new group;
\* a missing property is only warned about.
aadd(r, e) ==
  IF e[2] \in missing THEN r
  ELSE LET opened == IF r.objs = <<>> \/ Last(r.objs) # e[1]
                     THEN [objs |-> Append(r.objs, e[1]), cnts |-> Append(r.cnts, 0)]
                     ELSE [objs |-> r.objs, cnts |-> r.cnts]
       IN  [objs |-> opened.objs, props |-> Append(r.props, <<e[2], e[3]>>),
            cnts |-> [opened.cnts EXCEPT ![Len(opened.cnts)] = @ + 1]]

Geometry == <<"SRC_X", "SRC_Y", "SRC_W", "SRC_H", "CRTC_X", "CRTC_Y", "CRTC_W", "CRTC_H">>
plane_set(plane, on) ==
  << <<plane, "FB_ID", on>>, <<plane, "CRTC_ID", on>> >> \o
  (IF on = 1 THEN [i \in DOMAIN Geometry |-> <<plane, Geometry[i], 1>>] ELSE <<>>)

FrameList(s, k, blendKnown) ==
  (IF k = 0
   THEN << <<"crtc", "MODE_ID", 1>>, <<"crtc", "ACTIVE", 1>> >> \o plane_set("prim", 1) \o
        (IF s.overlay THEN plane_set("ovl", 1) ELSE <<>>) \o
        (IF s.blend /\ blendKnown THEN << <<"ovl", "blend", 1>> >> ELSE <<>>)
   ELSE <<>>) \o
  << <<"conn", "CRTC_ID", 1>>, <<"conn", "WRITEBACK_FB_ID", 1>>, <<"conn", "WRITEBACK_OUT_FENCE_PTR", 1>> >>

\* Mutant: the overlay plane is left on.
OffListPrimOnly(s) ==
  plane_set("prim", 0) \o << <<"conn", "CRTC_ID", 0>>, <<"crtc", "ACTIVE", 0>>, <<"crtc", "MODE_ID", 0>> >>

OffList(s) ==
  plane_set("prim", 0) \o (IF s.overlay THEN plane_set("ovl", 0) ELSE <<>>) \o
  << <<"conn", "CRTC_ID", 0>>, <<"crtc", "ACTIVE", 0>>, <<"crtc", "MODE_ID", 0>> >>

\* Property k belongs to group i: the groups before it hold fewer than k.
InGroup(cnts, i, k) == Sum(cnts, i - 1) < k /\ k <= Sum(cnts, i)

\* How the kernel takes a request apart: cnts[i] properties belong to objs[i].
Decoded(r) ==
  LET owner(k) == CHOOSE i \in DOMAIN r.objs : InGroup(r.cnts, i, k)
  IN  [k \in DOMAIN r.props |-> <<r.objs[owner(k)], r.props[k][1], r.props[k][2]>>]

Applied(r) ==
  LET d == Decoded(r)
      at(s) == {k \in DOMAIN d : <<d[k][1], d[k][2]>> = s}
  IN  [s \in Switches |-> IF at(s) = {} THEN kms[s] ELSE d[CHOOSE k \in at(s) : \A j \in at(s) : j <= k][3]]

-----------------------------------------------------------------------------
Init ==
  /\ pc = "main" /\ scen = [name |-> "none", mode |-> 0, overlay |-> FALSE, blend |-> FALSE, frames |-> 1]
  /\ runs = 0 /\ fails = 0 /\ missing = {} /\ modes = 0
  /\ bufs = {} /\ blob = {} /\ todo = <<>> /\ req = Empty /\ adds = <<>> /\ asked = <<>> /\ kms = AllOff /\ refused = FALSE
  /\ f = 0 /\ ret = 0 /\ fence = "none" /\ wb = "garbage" /\ saved = {}

\* main() up to the scenarios: open(), SET_MASTER, the client caps and
\* find_resources().  Without modes the two of the driver are made up; it
\* fails without a writeback connector or a primary plane.
FindResources ==
  /\ pc = "main"
  /\ \/ pc' = "exit" /\ fails' = 1 /\ UNCHANGED <<missing, modes>>
     \/ /\ pc' = "next" /\ UNCHANGED fails
        /\ missing' \in {{}} \cup {{p} : p \in Props}
        /\ \E reported \in 0 .. 2 : modes' = IF reported = 0 THEN 2 ELSE reported
  /\ UNCHANGED <<scen, runs, kms, refused>> /\ UNCHANGED reqv /\ UNCHANGED bufv /\ UNCHANGED job

\* run(): s->mode is an index that nobody compares with n_wb_modes.
RunScenario ==
  /\ pc = "next" /\ runs < MaxRuns /\ scen.name # "custom"
  /\ \E s \in Scens :
       /\ runs > 0 => s.name # "custom"
       /\ scen' = s
       /\ todo' = <<"prim">> \o (IF s.overlay THEN <<"ovl">> ELSE <<>>) \o <<"wb">>
  /\ runs' = runs + 1 /\ pc' = "mkbuf" /\ ret' = 0 /\ f' = 0 /\ wb' = "garbage" /\ fence' = "none"
  /\ UNCHANGED <<fails, bufs, blob, saved>> /\ UNCHANGED reqv /\ UNCHANGED drm

\* mkbuf(): dumb buffer, framebuffer, mapping.  On failure run() returns at
\* once; what was made so far stays until the descriptor is closed.
Mkbuf ==
  /\ pc = "mkbuf" /\ todo # <<>>
  /\ \/ /\ bufs' = bufs \cup {<<Head(todo), runs, part>> : part \in {"handle", "fb", "map"}}
        /\ todo' = Tail(todo) /\ UNCHANGED <<pc, fails, ret>>
     \/ /\ \E made \in {{}, {"handle"}, {"handle", "fb"}} :
             bufs' = bufs \cup {<<Head(todo), runs, part>> : part \in made}
        /\ pc' = "next" /\ fails' = fails + 1 /\ ret' = -1 /\ UNCHANGED todo
  /\ UNCHANGED <<runs, scen, blob, f, fence, wb, saved>> /\ UNCHANGED reqv /\ UNCHANGED drm

\* fill() and CREATEPROPBLOB.
Blob ==
  /\ pc = "mkbuf" /\ todo = <<>>
  /\ \/ blob' = blob \cup {runs} /\ pc' = "frame" /\ UNCHANGED <<fails, ret>>
     \/ pc' = "next" /\ fails' = fails + 1 /\ ret' = -1 /\ UNCHANGED blob
  /\ UNCHANGED <<runs, scen, bufs, todo, f, fence, wb, saved>> /\ UNCHANGED reqv /\ UNCHANGED drm

\* The frame loop: the request of frame f, or the end of the loop.
BuildFrame ==
  /\ pc = "frame"
  /\ IF f < scen.frames
     THEN /\ \E known \in BOOLEAN : adds' = FrameList(scen, f, known /\ "blend" \notin missing)
          /\ pc' = "commit"
     ELSE pc' = "save" /\ UNCHANGED adds
  /\ UNCHANGED <<req, asked>>
  /\ UNCHANGED main /\ UNCHANGED drm /\ UNCHANGED bufv /\ UNCHANGED job

Add ==
  /\ adds # <<>>
  /\ req' = aadd(req, Head(adds)) /\ adds' = Tail(adds)
  /\ asked' = IF Head(adds)[2] \in missing THEN asked ELSE Append(asked, Head(adds))
  /\ UNCHANGED pc /\ UNCHANGED main /\ UNCHANGED drm /\ UNCHANGED bufv /\ UNCHANGED job

\* Mutant: a request that was refused is kept.
CommitFrameKeeps ==
  /\ pc = "commit" /\ adds = <<>>
  /\ \/ /\ kms' = Applied(req) /\ pc' = "poll" /\ req' = Empty /\ asked' = <<>>
        /\ wb' = "queued" /\ fence' = "open" /\ UNCHANGED ret
     \/ ret' = -1 /\ pc' = "save" /\ UNCHANGED <<kms, fence, wb, req, asked>>
  /\ UNCHANGED <<adds, f, saved, missing, modes, refused>> /\ UNCHANGED main /\ UNCHANGED bufv

\* acommit() of a frame: the request is emptied whatever the kernel says.  A
\* mode beyond the reported ones is all zero and refused.
CommitFrame ==
  /\ pc = "commit" /\ adds = <<>>
  /\ \/ /\ scen.mode < modes \/ f > 0
        /\ kms' = Applied(req) /\ pc' = "poll" /\ UNCHANGED ret
        /\ wb' = IF "WRITEBACK_FB_ID" \in missing THEN wb ELSE "queued"
        /\ fence' = IF "WRITEBACK_OUT_FENCE_PTR" \in missing THEN "none" ELSE "open"
     \/ ret' = -1 /\ pc' = "save" /\ UNCHANGED <<kms, fence, wb>>
  /\ req' = Empty /\ asked' = <<>>
  /\ UNCHANGED <<adds, f, saved, missing, modes, refused>> /\ UNCHANGED main /\ UNCHANGED bufv

\* The hardware finishes the job and signals its fence.
Signal ==
  /\ wb = "queued"
  /\ wb' = "frame" /\ fence' = IF fence = "open" THEN "signalled" ELSE fence
  /\ UNCHANGED <<pc, f, ret, saved>> /\ UNCHANGED reqv /\ UNCHANGED main /\ UNCHANGED drm /\ UNCHANGED bufv

\* Mutant: the result of poll() is not looked at.
PollAny ==
  /\ pc = "poll"
  /\ f' = f + 1 /\ pc' = "frame" /\ fence' = "none"
  /\ UNCHANGED <<ret, wb, saved>> /\ UNCHANGED reqv /\ UNCHANGED main /\ UNCHANGED drm /\ UNCHANGED bufv

\* poll() for two seconds: signalled, or not (late, interrupted, no fence).
Poll ==
  /\ pc = "poll"
  /\ \/ fence = "signalled" /\ f' = f + 1 /\ pc' = "frame" /\ UNCHANGED ret
     \/ ret' = -1 /\ pc' = "save" /\ UNCHANGED f
  /\ fence' = "none"
  /\ UNCHANGED <<wb, saved>> /\ UNCHANGED reqv /\ UNCHANGED main /\ UNCHANGED drm /\ UNCHANGED bufv

\* The picture is written to a file; a file that cannot be opened is written
\* to all the same and ends the process.
Save ==
  /\ pc = "save"
  /\ \/ ret = 0 /\ saved' = saved \cup {<<wb, scen.frames>>} /\ pc' = "off"
     \/ ret = 0 /\ pc' = "crash" /\ UNCHANGED saved
     \/ ret # 0 /\ pc' = "off" /\ UNCHANGED saved
  /\ UNCHANGED <<f, ret, fence, wb>> /\ UNCHANGED reqv /\ UNCHANGED main /\ UNCHANGED drm /\ UNCHANGED bufv

\* Planes, writeback and CRTC off: a request and its commit, which may fail.
SwitchOff ==
  /\ pc = "off"
  /\ adds' = OffList(scen) /\ pc' = "offcommit"
  /\ UNCHANGED <<req, asked>> /\ UNCHANGED main /\ UNCHANGED drm /\ UNCHANGED bufv /\ UNCHANGED job

OffCommit ==
  /\ pc = "offcommit" /\ adds = <<>>
  /\ \/ kms' = Applied(req) /\ UNCHANGED refused
     \/ refused' = TRUE /\ UNCHANGED kms
  /\ req' = Empty /\ asked' = <<>> /\ pc' = "destroy"
  /\ UNCHANGED <<adds, missing, modes>> /\ UNCHANGED main /\ UNCHANGED bufv /\ UNCHANGED job

\* DESTROYPROPBLOB and rmbuf() of each buffer; the end of run().
Destroy ==
  /\ pc = "destroy"
  /\ blob' = blob \ {runs} /\ bufs' = {b \in bufs : b[2] # runs}
  /\ pc' = "next" /\ fails' = IF ret # 0 THEN fails + 1 ELSE fails
  /\ UNCHANGED <<runs, scen, todo>> /\ UNCHANGED reqv /\ UNCHANGED drm /\ UNCHANGED job

\* DROP_MASTER and the exit code.
Exit ==
  /\ pc = "next"
  /\ pc' = "exit" /\ bufs' = {} /\ blob' = {}
  /\ UNCHANGED todo /\ UNCHANGED reqv /\ UNCHANGED main /\ UNCHANGED drm /\ UNCHANGED job

Program ==
  \/ RunScenario \/ Mkbuf \/ Blob \/ BuildFrame \/ Add \/ CommitFrame
  \/ Poll \/ Save \/ SwitchOff \/ OffCommit \/ Destroy \/ Exit
Next == FindResources \/ Program \/ Signal

\* Once started the program is a running task; poll() has a time-out.
Fairness == WF_vars(Program)

-----------------------------------------------------------------------------
\* aadd(), acommit(): the kernel reads from the arrays exactly what the code
\* added, each property under its own object, missing ones left out; nothing of
\* a refused request is left for the next one; the arrays of MAXP hold it.
RequestExact ==
  /\ Decoded(req) = asked
  /\ Len(req.props) <= 96
  /\ pc \in {"next", "mkbuf", "frame", "poll", "save", "off", "destroy"} => req = Empty

\* run(): a picture is saved only after the hardware has written it, for every
\* scenario of at least one frame.
SavedIsCaptured == \A s \in saved : s[2] > 0 => s[1] = "frame"

\* Scenarios whose buffers or blob the kernel still holds.
Kept == {b[2] : b \in bufs} \cup blob

\* run(): when all properties exist, a plane, the writeback connector or the
\* CRTC stays on only after a refused commit; buffers and blobs stay only of
\* scenarios that returned early, and those count as failed.
CleanScreen ==
  /\ pc \in {"destroy", "next", "mkbuf", "exit"} /\ missing = {} /\ ~refused => kms = AllOff
  /\ pc \in {"next", "exit"} => Cardinality(Kept) <= fails

\* main(): the test ends, whatever fails and however late the hardware is.
TestRuns == pc # "main"
TestOver == pc \in {"exit", "crash"}
-----------------------------------------------------------------------------
(* The inductive invariant.                                                *)
Objects == {"crtc", "prim", "ovl", "conn"}
Properties == {"SRC_X", "SRC_Y", "SRC_W", "SRC_H", "CRTC_X", "CRTC_Y", "CRTC_W", "CRTC_H", "blend",
    "FB_ID", "CRTC_ID", "MODE_ID", "ACTIVE", "WRITEBACK_FB_ID", "WRITEBACK_OUT_FENCE_PTR"}
Calls == Objects \X Properties \X {0, 1}

TypeOK ==
  /\ pc \in {"main", "next", "mkbuf", "frame", "commit", "poll", "save", "off", "offcommit",
             "destroy", "exit", "crash"}
  /\ scen.overlay \in BOOLEAN /\ scen.frames \in Nat
  /\ runs \in Nat /\ fails \in Nat /\ f \in Nat /\ ret \in {0, -1} /\ refused \in BOOLEAN
  /\ kms \in [Switches -> {0, 1}]
  /\ adds \in Seq(Calls) /\ asked \in Seq(Calls)
  /\ req \in [objs : Seq(Objects), cnts : Seq(Nat), props : Seq(Properties \X {0, 1})]

\* Every call so far is a property in the group of its object, and the groups
\* make up the request; outside of building and committing there is none.
Grouped ==
  /\ Len(req.cnts) = Len(req.objs) /\ Len(req.props) = Len(asked)
  /\ Sum(req.cnts, Len(req.cnts)) = Len(asked)
  /\ \A k \in 1..Len(asked) : \E i \in 1..Len(req.objs) :
       /\ InGroup(req.cnts, i, k)
       /\ asked[k] = <<req.objs[i], req.props[k][1], req.props[k][2]>>
  /\ Len(asked) + Len(adds) <= 26
  /\ pc \notin {"commit", "offcommit"} => req = Empty /\ asked = <<>> /\ adds = <<>>

\* What a request will have asked for in the end: a frame's switches on the
\* overlay only in a scenario with one, switching off names every switch.
Requested ==
  LET all == Range(asked) \cup Range(adds) IN
  /\ pc = "commit" /\ ~scen.overlay => \A e \in all : <<e[1], e[2]>> # <<"ovl", "CRTC_ID">>
  /\ pc = "offcommit" /\ missing = {} => all = Range(OffList(scen))

\* Between scenarios everything is off; the overlay is touched only by those
\* that have one.
Screen ==
  /\ pc = "main" => missing = {}
  /\ missing = {} /\ ~refused =>
       /\ pc \in {"main", "next", "mkbuf", "destroy", "exit"} => kms = AllOff
       /\ ~scen.overlay => kms[<<"ovl", "CRTC_ID">>] = 0

\* A frame is counted when its fence has told that the hardware wrote it.
Captured ==
  /\ pc = "mkbuf" => f = 0
  /\ fence = "signalled" => wb = "frame"
  /\ pc \in {"frame", "save"} /\ ret = 0 /\ f > 0 => wb = "frame"
  /\ pc = "save" /\ ret = 0 => f >= scen.frames

\* Scenarios that left something behind, the one that runs not counted.
Left ==
  /\ Kept \subseteq 1..runs
  /\ pc = "main" => Kept = {}
  /\ pc \notin {"main", "next", "exit"} => runs > 0
  /\ Cardinality(IF pc \in {"next", "exit"} THEN Kept ELSE Kept \ {runs}) <= fails

WbInv == TypeOK /\ Grouped /\ Requested /\ Screen /\ Captured /\ Left /\ SavedIsCaptured
=============================================================================
