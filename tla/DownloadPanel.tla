---------------------------- MODULE DownloadPanel ---------------------------
(***************************************************************************)
(* The list of downloads (downloadpanel.cpp): one item per model name, the *)
(* signals of a download that change it, and the three-second timers that  *)
(* remove completed items by name.  The lambda of such a timer has no      *)
(* context object: it outlives the panel.  Left out: the title's count and *)
(* the figures shown; allDownloadsComplete changes nothing here.           *)
(***************************************************************************)
EXTENDS Naturals, Sequences

CONSTANTS Models,   \* the names of models
          NoItem,
          MaxAdds,  \* bound on the items made
          MaxTimers \* bound on the timers of one name

VARIABLES items,    \* m_downloads: for each name the item made for it, or NoItem
          made,     \* how many items were made
          timers,   \* for each name, the items its running timers were started for
          loose,    \* names removed, or completed again, while a timer ran
          panel     \* "open", "gone", "undefined": a timer used the panel after it was gone

downloadVars == <<items, made, timers, loose, panel>>

Item == [serial : 1..MaxAdds, look : {"active", "complete", "error"}]

ConstantsAssumption == NoItem \notin Item /\ MaxAdds \in Nat /\ MaxTimers \in Nat

TypeOK ==
  /\ items \in [Models -> Item \cup {NoItem}]
  /\ made \in 0..MaxAdds
  /\ \A n \in Models : timers[n] \in Seq(1..MaxAdds) /\ Len(timers[n]) <= MaxTimers
  /\ loose \subseteq Models
  /\ panel \in {"open", "gone", "undefined"}

Init ==
  /\ items = [n \in Models |-> NoItem] /\ made = 0
  /\ timers = [n \in Models |-> <<>>]
  /\ loose = {} /\ panel = "open"

Listed(n) == panel = "open" /\ items[n] # NoItem

Shown(n, look) == items' = [items EXCEPT ![n].look = look]

-----------------------------------------------------------------------------
\* Defect of addDownload: a download of a listed name gets a new item.
addDownloadAgain(n) ==
  /\ panel = "open" /\ made < MaxAdds
  /\ made' = made + 1
  /\ items' = [items EXCEPT ![n] = [serial |-> made + 1, look |-> "active"]]
  /\ UNCHANGED <<timers, loose, panel>>

\* A name that is listed already is ignored.
addDownload(n) ==
  /\ panel = "open" /\ items[n] = NoItem /\ made < MaxAdds
  /\ made' = made + 1
  /\ items' = [items EXCEPT ![n] = [serial |-> made + 1, look |-> "active"]]
  /\ UNCHANGED <<timers, loose, panel>>

\* Progress is shown whatever was shown before.
updateDownload(n) ==
  /\ Listed(n) /\ Shown(n, "active")
  /\ UNCHANGED <<made, timers, loose, panel>>

errorDownload(n) ==
  /\ Listed(n) /\ Shown(n, "error")
  /\ UNCHANGED <<made, timers, loose, panel>>

\* Each completion starts a timer of its own.
completeDownload(n) ==
  /\ Listed(n) /\ Shown(n, "complete")
  /\ Len(timers[n]) < MaxTimers
  /\ timers' = [timers EXCEPT ![n] = Append(@, items[n].serial)]
  /\ loose' = loose \cup (IF timers[n] = <<>> THEN {} ELSE {n})
  /\ UNCHANGED <<made, panel>>

\* removeDownload, called by hand: the timers of the name stay.
removeDownload(n) ==
  /\ Listed(n)
  /\ items' = [items EXCEPT ![n] = NoItem]
  /\ loose' = loose \cup (IF timers[n] = <<>> THEN {} ELSE {n})
  /\ UNCHANGED <<made, timers, panel>>

\* The timer calls removeDownload on the panel it captured, with its name.
timerFires(n) ==
  /\ panel # "undefined" /\ timers[n] # <<>>
  /\ timers' = [timers EXCEPT ![n] = Tail(@)]
  /\ items' = [items EXCEPT ![n] = NoItem]
  /\ panel' = IF panel = "gone" THEN "undefined" ELSE panel
  /\ UNCHANGED <<made, loose>>

\* The window takes the panel and its items with it, and none of the timers.
destroyed ==
  /\ panel = "open" /\ panel' = "gone"
  /\ items' = [n \in Models |-> NoItem]
  /\ UNCHANGED <<made, timers, loose>>

Next ==
  \/ \E n \in Models :
       \/ addDownload(n) \/ updateDownload(n) \/ errorDownload(n)
       \/ completeDownload(n) \/ removeDownload(n) \/ timerFires(n)
  \/ destroyed

\* The event loop fires timers that have expired.
Fairness == \A n \in Models : WF_downloadVars(timerFires(n))

-----------------------------------------------------------------------------
\* A timer removes the item it was started for: only a name that was removed
\* by hand, or completed twice, while a timer ran may lose a later item to it.
TimersTakeTheirOwn ==
  [][\A n \in Models :
       Len(timers'[n]) < Len(timers[n]) /\ items[n] # NoItem /\ n \notin loose
         => items[n].serial = Head(timers[n])]_downloadVars

\* An item whose download was completed leaves the list, even if progress or
\* an error is shown on it afterwards.
CompletedGoes ==
  \A n \in Models : \A s \in 1..MaxAdds :
    (items[n] # NoItem /\ items[n].serial = s /\ \E i \in DOMAIN timers[n] : timers[n][i] = s)
      ~> (items[n] = NoItem \/ items[n].serial # s)

=============================================================================
