---------------------------- MODULE Collaboration ----------------------------
(***************************************************************************)
(* The program as its users see it: a host's editor (module Editor), the   *)
(* network (module Network) and the editor of one of its clients (Editor   *)
(* again), put together as src/src/editor.cpp does.                        *)
(*                                                                         *)
(* What Network knows as the number of a text is here a text: texts[v] is  *)
(* what the host's v-th key left.  On the wire every text is one unit, so  *)
(* that the host's text must not become empty (HostFile is longer than the *)
(* number of keys; Network itself has the empty text).                     *)
(***************************************************************************)
EXTENDS Network, GapBuffer

CONSTANTS
  Viewer,    \* the client
  Path, NoPath, Readable, Writable, Absent, None,
  HostPath,  \* the file the host may be started on
  HostFile,  \* its content
  Typed, Clips, MaxLen

ASSUME CollaborationAssumption ==
  /\ Client = {Viewer}
  /\ HostPath \in Path \cap Readable
  /\ HostFile \in Text /\ Len(HostFile) > MaxVersion
  /\ \A v \in Version : Size[v] = 1
  /\ MaxTransfer >= 2

VARIABLES
  texts,   \* what the host has posted so far
  \* the host's editor
  host_path, host_buffer, host_highlight, host_modal, host_running, host_disk,
  host_clipboard, host_posted,
  \* the client's
  viewer_path, viewer_buffer, viewer_highlight, viewer_modal, viewer_running,
  viewer_disk, viewer_clipboard, viewer_posted

hostEditor   == <<host_path, host_buffer, host_highlight, host_modal, host_running,
                  host_disk, host_clipboard, host_posted, texts>>
viewerEditor == <<viewer_path, viewer_buffer, viewer_highlight, viewer_modal,
                  viewer_running, viewer_disk, viewer_clipboard, viewer_posted>>
cvars        == <<nvars, hostEditor, viewerEditor>>

Disk == [p \in Path |-> IF p = HostPath THEN HostFile ELSE Absent]

Hosting == INSTANCE Editor WITH
  StartModes <- {"Host"}, Disks <- {Disk}, Messages <- {},
  mode_ <- "Host", path <- host_path, gap_buffer <- host_buffer,
  highligter <- host_highlight, modal <- host_modal, running_ <- host_running,
  disk <- host_disk, clipboard <- host_clipboard, posted <- host_posted

(* Its texts come from the network, not from a set of messages. *)
Viewing == INSTANCE Editor WITH
  StartModes <- {"Client"}, Disks <- {Disk}, Messages <- {},
  mode_ <- "Client", path <- viewer_path, gap_buffer <- viewer_buffer,
  highligter <- viewer_highlight, modal <- viewer_modal, running_ <- viewer_running,
  disk <- viewer_disk, clipboard <- viewer_clipboard, posted <- viewer_posted

CollaborationInit == Init /\ Hosting!Init /\ Viewing!Init /\ texts = << >>

(* A key on the host: handled, and the text posted. *)
HostKey ==
  /\ Hosting!Next
  /\ Post
  /\ texts' = Append(texts, host_posted')
  /\ UNCHANGED viewerEditor

(* After Quit the main loop ends, and shutdown stops the server. *)
HostShutdown == ~ host_running /\ HostStop /\ UNCHANGED <<hostEditor, viewerEditor>>

(* A key on the client, between two polls. *)
ViewerKey ==
  /\ link[Viewer] # "None" /\ ~ quit[Viewer] /\ ~ fetching[Viewer]
  /\ Viewing!Next
  /\ UNCHANGED <<nvars, hostEditor>>

ViewerShutdown ==
  /\ ~ viewer_running
  /\ ClientStop(Viewer)
  /\ UNCHANGED <<hostEditor, viewerEditor>>

(* poll_network: the text fetched replaces the client's. *)
TextOf(frame) == texts[frame[1][1]]

ViewerFetch ==
  /\ GetLatestBuffer(Viewer)
  /\ Viewing!PollNetwork(TextOf(latest_buffer_[Viewer]))
  /\ UNCHANGED hostEditor

ViewerPoll ==
  \/ ViewerFetch
  \/ viewer_running /\ HasNewData(Viewer) /\ UNCHANGED <<hostEditor, viewerEditor>>

(* Everything else in the network. *)
Beside(A) == A /\ UNCHANGED <<hostEditor, viewerEditor>>

Accepts == Beside(AcceptConnection(Viewer))
Handles == Beside(HostNetworkThread)
Writes  == Beside(WriteSome(Viewer) \/ WriteToNobody(Viewer))
Reads   == Beside(ReadHeader(Viewer) \/ ReadBody(Viewer))

CollaborationNext ==
  \/ HostKey \/ HostShutdown
  \/ ViewerKey \/ ViewerPoll \/ ViewerShutdown
  \/ Accepts \/ Handles \/ Writes \/ Reads
  \/ Beside(Connect(Viewer)) \/ Beside(LoseConnection(Viewer))

(* As in Network: threads that have something to do get to do it. *)
CollaborationSpec ==
  /\ CollaborationInit /\ [][CollaborationNext]_cvars
  /\ WF_cvars(Accepts) /\ WF_cvars(Handles) /\ WF_cvars(Writes) /\ WF_cvars(Reads)
  /\ WF_cvars(ViewerPoll)

-----------------------------------------------------------------------------
HostText   == serialize_buffer(host_buffer)
ViewerText == serialize_buffer(viewer_buffer)

Shared == INSTANCE SharedText WITH
  history <- texts, shown <- ViewerText, cursor <- viewer_buffer.gap_start,
  seen <- IF view[Viewer] = << >> THEN 0 ELSE view[Viewer][1][1]

(* Whatever both users type, and whatever the network does, the client     *)
(* shows texts the host's keys have left, in their order, and keeps its    *)
(* own cursor inside them.                                                 *)
ImplementsSharedText == Shared!Spec

(* A client that stays connected ends up with the host's text, once a key  *)
(* was pressed on the host.                                                *)
ViewerCatchesUp ==
  <>[](/\ hostUp /\ Viewer \in sessions_ \cap open
       /\ link[Viewer] = "Up" /\ viewer_running /\ texts # << >>)
    => <>[](ViewerText = HostText)
=============================================================================
