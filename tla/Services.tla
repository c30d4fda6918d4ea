------------------------------ MODULE Services ------------------------------
(***************************************************************************)
(* The smaller parts beside each other: BackendClient's process and its    *)
(* replies, the list of downloads, the plugins, the HTTP server, the       *)
(* chunking of texts and the fine-tuning tab.  They share no state, so     *)
(* that each behaviour is one of a single part.                            *)
(***************************************************************************)
EXTENDS Naturals, Sequences

CONSTANTS Streams, NoStream, ReplyKinds, MaxTokens, MaxChecks, MaxWaits, MaxStarts,
          Models, NoItem, MaxAdds, MaxTimers,
          Files, Plugins, BaseName, NoFile, MaxLoads,
          Clients, ChunkSizes, MaxSentences, MaxLength,
          MaxTrainings, StepsToFull

VARIABLES child, flag, call, checks, phase, starts, told, mishaps,
          serving, stream, asked, shown, mixed, request, misrouted,
          items, made, timers, loose, panel,
          onDisk, loaders, resident, replaced, system,
          listening, ephemeral, backend, conn,
          chunkSize, sentences, chunks, currentChunk, taken,
          isTraining, progress, bar, trainings, ticking, boxes, announced, stopped,
          part

Process == INSTANCE BackendClient
Replies == INSTANCE BackendReplies WITH Kinds <- ReplyKinds
Downloads == INSTANCE DownloadPanel
PluginList == INSTANCE PluginSystem
Web == INSTANCE WebServer WITH serving <- listening
Chunker == INSTANCE TextChunker
Panel == INSTANCE FineTunePanel WITH MaxStarts <- MaxTrainings, starts <- trainings

ASSUME PartsAssumption ==
  /\ Process!ConstantsAssumption /\ Replies!ConstantsAssumption
  /\ Downloads!ConstantsAssumption /\ PluginList!ConstantsAssumption
  /\ Chunker!ConstantsAssumption /\ Panel!ConstantsAssumption

processVars == <<child, flag, call, checks, phase, starts, told, mishaps>>
replyVars == <<serving, stream, asked, shown, mixed, request, misrouted>>
downloadVars == <<items, made, timers, loose, panel>>
pluginVars == <<onDisk, loaders, resident, replaced, system>>
webVars == <<listening, ephemeral, backend, conn>>
chunkVars == <<chunkSize, sentences, chunks, currentChunk, taken>>
panelVars == <<isTraining, progress, bar, trainings, ticking, boxes, announced, stopped>>
vars == <<part, processVars, replyVars, downloadVars, pluginVars, webVars, chunkVars,
          panelVars>>

\* Each part starts from each of its initial states, beside one of the others'.
Init ==
  /\ part \in {"process", "replies", "downloads", "plugins", "web", "chunker", "panel"}
  /\ Process!Init /\ Downloads!Init /\ Web!Init /\ Panel!Init
  /\ Replies!Init /\ (part # "replies" => serving)
  /\ PluginList!Init /\ (part # "plugins" => onDisk = {})
  /\ Chunker!Init /\ (part # "chunker" => sentences = <<>> /\ chunkSize = 1)

Next ==
  \/ /\ part = "process" /\ Process!Next
     /\ UNCHANGED <<part, replyVars, downloadVars, pluginVars, webVars, chunkVars, panelVars>>
  \/ /\ part = "replies" /\ Replies!Next
     /\ UNCHANGED <<part, processVars, downloadVars, pluginVars, webVars, chunkVars, panelVars>>
  \/ /\ part = "downloads" /\ Downloads!Next
     /\ UNCHANGED <<part, processVars, replyVars, pluginVars, webVars, chunkVars, panelVars>>
  \/ /\ part = "plugins" /\ PluginList!Next
     /\ UNCHANGED <<part, processVars, replyVars, downloadVars, webVars, chunkVars, panelVars>>
  \/ /\ part = "web" /\ Web!Next
     /\ UNCHANGED <<part, processVars, replyVars, downloadVars, pluginVars, chunkVars, panelVars>>
  \/ /\ part = "chunker" /\ Chunker!Next
     /\ UNCHANGED <<part, processVars, replyVars, downloadVars, pluginVars, webVars, panelVars>>
  \/ /\ part = "panel" /\ Panel!Next
     /\ UNCHANGED <<part, processVars, replyVars, downloadVars, pluginVars, webVars, chunkVars>>

Spec ==
  /\ Init /\ [][Next]_vars
  /\ Process!Fairness /\ Replies!Fairness /\ Downloads!Fairness /\ Web!Fairness
  /\ Panel!Fairness

-----------------------------------------------------------------------------
(***************************************************************************)
(* The properties of the parts, where their comments explain them.         *)
(***************************************************************************)

\* All parts are well typed.
TypeOK ==
  /\ Process!TypeOK /\ Replies!TypeOK /\ Downloads!TypeOK
  /\ PluginList!TypeOK /\ Web!TypeOK /\ Chunker!TypeOK /\ Panel!TypeOK

\* What the client of the Python backend knows of its child is what it said by
\* its signals, and no child runs that it does not know of, except after a
\* mishap (backend_client.cpp:98, :138, :437).
ChildIsKnown == Process!FlagIsTold /\ Process!NoStrayChild

\* Streams are shown whole and ended once, and answers become the signal of
\* what was asked (backend_client.cpp:308, :357).
RepliesAreTrue == Replies!TextIsWhole /\ Replies!EndIsToldOnce /\ Replies!RoutedRight

\* A timer of the list of downloads removes the item it was started for
\* (downloadpanel.cpp:186).
TimersTakeTheirOwn == Downloads!TimersTakeTheirOwn

\* The libraries in memory are those of the plugins listed, unless one
\* replaced another (plugin_system.cpp:59).
ListedIsResident == PluginList!ListedIsResident

\* The data of an HTTP request reaches the backend at most once however it is cut
\* into segments, and one cut within its first line calls it at most once
\* (web_server.cpp:93).
RequestsAreAnswered == Web!ActsOnce

\* The chunks of a document are all of its sentences, packed as tightly as
\* their size allows (rag_system.cpp:447).
ChunksAreRight == Chunker!SentencesKept /\ Chunker!ChunksAreTight

\* The timers that run in the fine-tuning tab are those of its trainings, which
\* they end, and whose models they announce (finetune_panel.cpp:354).
TimersAgree == Panel!TimersAgree

\* Nobody waits for ever on the event loop: the death of the backend is
\* noticed, its calls return, closed streams are reported, connections are
\* closed (backend_client.cpp:437, :98, :396, web_server.cpp:93).
AnswersArrive ==
  /\ Process!DeathIsNoticed /\ Process!CallsReturn /\ Replies!StreamsEnd
  /\ Web!ConnectionsClose

\* ... nor on a timer that counts: the checks of a new backend end, completed
\* downloads leave the list, trainings end (backend_client.cpp:163,
\* downloadpanel.cpp:186, finetune_panel.cpp:354).
EverythingEnds ==
  /\ AnswersArrive
  /\ Process!WaitReturns /\ Downloads!CompletedGoes /\ Panel!TrainingEnds

=============================================================================
