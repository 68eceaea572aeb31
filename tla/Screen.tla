------------------------------- MODULE Screen -------------------------------
\* How a picture reaches the screen. The main loop composes a frame, gfx.c decides which
\* of its three surfaces shows it and whether it has to be drawn at all, and the video
\* output scans surfaces out behind its back. Pictures come from the decode thread
\* through a queue and are converted by the main thread or, in bands, by the workers of
\* the present pool; the opener worker takes all of it down and sets it up again.
EXTENDS Integers, Sequences, FiniteSets

CONSTANTS Painters,       \* the present pool, one band of the picture each
          MaxPictures,    \* bound: pictures decoded
          MaxOpens,       \* bound: sources opened
          Steady          \* bound: the first so many sources keep the size they begin with

ASSUME ScreenAssumption ==
  IsFiniteSet(Painters) /\ Painters # {} /\ MaxPictures \in Nat /\ MaxOpens \in Nat /\ Steady \in Nat

Surfaces == 0 .. 2        \* GFX_BUFFER_COUNT
Nowhere == 3              \* no surface, no frame
Frames == 0 .. 1       \* the memory of a decoded frame, given out again once freed

\* A picture and whether it is as wide as the screen: one that is not leaves bars. A tag
\* also says which of the times it is that the same picture gets one.
Picture(n, wide) == [n |-> n, wide |-> wide, as |-> 0]
Menu == Picture(0, TRUE)              \* anything that fills the screen
Garbage == Picture(-1, TRUE)
IsVideo(p) == p.n > 0
Unknown == [base |-> Garbage, over |-> <<>>]     \* tag 0

VARIABLES
  content,   \* what each surface holds, band by band, what lies over it, and its bars
  tag,       \* g->tag: what gfx.c believes it holds
  out,       \* activeIdx, shownIdx; flips not shown yet, the surface scanned, ages of flips
  frame,     \* the frame being composed: where main is, what it asks for, who it flips
  player,    \* stage of the opener; started, hardware decoding, g_srcW/H, everDrew
  heap,      \* the picture in the memory of a frame
  due,       \* the frame queue: the next frame, if any
  held,      \* g_lastShown
  nv,        \* g_nvFrame with its visible size, and the picture g_nvTag names
  scaled,    \* g_scaled: its picture, or Garbage if there is none
  bars,      \* g_barClearLeft, the two geometry caches; skew: below, at After
  pool,      \* the present pool: up, the job, who has yet to see it, who works, how many are done
  pictures, opens
screenVars ==
  <<content, tag, out, frame, player, heap, due, held, nv, scaled, bars, pool, pictures, opens>>
surfaces == <<content, tag, out>>
decoded == <<heap, due, held, nv, scaled, pictures>>

Whole(p, over, clean) == [band |-> [w \in Painters |-> p], over |-> over, bars |-> clean]
NoFrame == [at |-> "top", base |-> Garbage, over |-> <<>>, drawn |-> FALSE, hw |-> FALSE, flip |-> Nowhere]
NoPicture == [addr |-> Nowhere, wide |-> TRUE, names |-> Garbage]
IdlePool(up) == [up |-> up, to |-> Nowhere, fresh |-> {}, busy |-> {}, done |-> 0]

ScreenInit ==
  /\ content = [i \in Surfaces |-> Whole(Garbage, <<>>, "clean")] /\ tag = [i \in Surfaces |-> Unknown]
  /\ out = [active |-> 0, shown |-> Nowhere, scan |-> Nowhere, flips |-> <<>>,
            age |-> [i \in Surfaces |-> 3], presents |-> 0]
  /\ frame = NoFrame
  /\ player = [at |-> "idle", started |-> FALSE, hw |-> FALSE, wide |-> TRUE, drew |-> FALSE]
  /\ heap = [a \in Frames |-> Garbage] /\ due = Nowhere /\ held = Nowhere
  /\ nv = NoPicture /\ scaled = Garbage
  /\ bars = [left |-> 0, hw |-> "none", sw |-> "none", skew |-> FALSE]
  /\ pool = IdlePool(FALSE) /\ pictures = 0 /\ opens = 0

-----------------------------------------------------------------------------
\* The decode thread and the opener worker.

Decode ==
  /\ player.started /\ player.at # "down" /\ due = Nowhere /\ pictures < MaxPictures
  /\ \E a \in Frames \ {held} :
       due' = a /\ pictures' = pictures + 1 /\ heap' = [heap EXCEPT ![a] = Picture(pictures + 1, player.wide)]
  /\ UNCHANGED <<surfaces, frame, player, held, nv, scaled, bars, pool, opens>>

\* hw_reopen_for_params and hw_failover_to_software: another size, the end of hardware
\* decoding, or both. What is queued, held or being shown stays. Bound: between two pictures,
\* and not in the first Steady sources.
SizeChanges ==
  /\ player.started /\ player.at # "down" /\ player.hw /\ pictures \in 1 .. MaxPictures - 1 /\ opens > Steady
  /\ \E wide, hw \in BOOLEAN :
       /\ wide # player.wide \/ ~hw
       /\ player' = [player EXCEPT !.wide = wide, !.hw = hw]
  /\ UNCHANGED <<surfaces, frame, decoded, bars, pool, opens>>

TearDown ==
  /\ player.at = "queued"
  /\ player' = [player EXCEPT !.at = "down", !.started = FALSE, !.hw = FALSE]
  /\ heap' = [a \in Frames |-> Garbage] /\ due' = Nowhere /\ held' = Nowhere
  /\ nv' = [nv EXCEPT !.addr = Nowhere] /\ scaled' = Garbage /\ pool' = IdlePool(FALSE)
  /\ UNCHANGED <<surfaces, frame, bars, pictures, opens>>

\* "The lobby or previous source may have filled every scanout buffer": the new source
\* clears its bars in all of them. Without its workers the pool is not used.
RepaintsBars(b) == [b EXCEPT !.left = 4, !.skew = FALSE]

SetUp ==
  /\ player.at = "down" /\ bars' = RepaintsBars(bars)
  /\ \E started, hw, wide, up \in BOOLEAN :
       /\ player' = [player EXCEPT !.at = "idle", !.started = started, !.hw = hw, !.wide = wide]
       /\ pool' = IdlePool(up) /\ (up => hw) /\ (hw => started) /\ (~started => wide)
  /\ UNCHANGED <<surfaces, frame, decoded, opens>>

-----------------------------------------------------------------------------
\* The main loop composes a frame. Drawing is queued until gfx_present.

Open ==
  /\ frame.at = "top" /\ player.at = "idle" /\ out.presents = 3 /\ opens < MaxOpens
  /\ opens' = opens + 1 /\ player' = [player EXCEPT !.at = "queued"]
  /\ UNCHANGED <<surfaces, frame, decoded, bars, pool>>

Rendering == frame.at = "top"
Composed(base, over, hw) ==
  frame' = [frame EXCEPT !.at = "commit", !.base = base, !.over = over, !.drawn = TRUE, !.hw = hw]

\* A screen of its own: at the start, in the lobby, while nothing has been drawn yet. Such a
\* picture fills the surface, and whatever was drawn before does not count.
DrawScreen ==
  /\ Rendering
  /\ \/ player.at # "idle" /\ ~player.drew
     \/ player.at = "idle" /\ ~player.started
     \/ player.at = "idle" /\ player.started /\ ~player.drew /\ scaled = Garbage /\ held = Nowhere
  /\ Composed(Menu, <<>>, FALSE)
  /\ player' = [player EXCEPT !.drew = @ /\ (player.at # "idle" \/ player.started)]
  /\ UNCHANGED <<surfaces, decoded, bars, pool, pictures, opens>>

\* "Draw nothing: gfx then keeps the on-screen surface up": while something opens, and
\* before the first picture of a source that follows another one.
DrawNothing ==
  /\ Rendering /\ player.drew
  /\ player.at # "idle" \/ (player.started /\ scaled = Garbage)
  /\ frame' = [frame EXCEPT !.at = "commit"]
  /\ UNCHANGED <<surfaces, player, decoded, bars, pool, pictures, opens>>

\* Before the first picture the buffering panel is drawn over whatever the next surface
\* holds. Bound: over one that has no overlay yet.
DrawPanelOnly ==
  /\ Rendering /\ player.drew /\ player.at = "idle" /\ player.started
  /\ (player.hw /\ held = Nowhere) \/ (~player.hw /\ scaled = Garbage)
  /\ content[out.active].over = <<>>
  /\ Composed(Garbage, <<"panel">>, FALSE)
  /\ UNCHANGED <<surfaces, player, decoded, bars, pool, pictures, opens>>

\* Controls or subtitles lie over a picture; where they may touch the bars these are to
\* be cleared afterwards (player_request_bar_clear). Bound: not while that is still owed.
Overlays == IF bars.left = 0 THEN {<<>>, <<"hud">>} ELSE {<<>>}
Overlaid(b) ==
  \E o \in Overlays :
    /\ frame' = [frame EXCEPT !.at = "commit", !.base = b.base, !.over = o, !.drawn = TRUE, !.hw = b.hw]
    /\ bars' = IF o = <<>> THEN bars ELSE [bars EXCEPT !.left = 4]

\* build_scaled_nv12_direct: a picture gets a new tag when its memory, the frame on the
\* screen or the visible size is another one. "Video tags are never reused": the new one is
\* not the next number here but one that no surface carries.
SameAsShown(a) == a = held /\ a = nv.addr /\ player.wide = nv.wide
NewTag(p) ==
  [p EXCEPT !.as = CHOOSE k \in 0 .. 3 : \A i \in Surfaces : tag[i].base # [p EXCEPT !.as = k]]
Named(a) ==
  IF SameAsShown(a) THEN nv
  ELSE [addr |-> a, wide |-> player.wide, names |-> NewTag(Picture(heap[a].n, player.wide))]

CanRender == Rendering /\ player.at = "idle" /\ player.started

\* render_threaded with a picture that is due, by hardware: the last one is freed.
ShowHw ==
  /\ CanRender /\ player.hw /\ due # Nowhere
  /\ nv' = Named(due) /\ Overlaid([base |-> nv'.names, hw |-> TRUE])
  /\ held' = due /\ due' = Nowhere
  /\ heap' = IF held = Nowhere THEN heap ELSE [heap EXCEPT ![held] = Garbage]
  /\ player' = [player EXCEPT !.drew = TRUE]
  /\ UNCHANGED <<surfaces, scaled, pool, pictures, opens>>

\* By software (or after a failover): it is scaled at once and freed.
ShowSw ==
  /\ CanRender /\ ~player.hw /\ due # Nowhere
  /\ scaled' = heap[due] /\ Overlaid([base |-> heap[due], hw |-> FALSE])
  /\ due' = Nowhere /\ heap' = [heap EXCEPT ![due] = Garbage]
  /\ player' = [player EXCEPT !.drew = TRUE]
  /\ UNCHANGED <<surfaces, held, nv, pool, pictures, opens>>

\* Nothing is due, or the player is paused: the picture is shown again.
Hold ==
  /\ CanRender
  /\ \/ player.hw /\ held # Nowhere /\ nv' = Named(held) /\ Overlaid([base |-> nv'.names, hw |-> TRUE])
     \/ ~player.hw /\ scaled # Garbage /\ nv' = nv /\ Overlaid([base |-> scaled, hw |-> FALSE])
  /\ player' = [player EXCEPT !.drew = TRUE]
  /\ UNCHANGED <<surfaces, heap, due, held, scaled, pool, pictures, opens>>

-----------------------------------------------------------------------------
\* gfx_present: q_commit.

\* What the target holds once the frame is drawn: s_qTag.
Asked ==
  IF frame.base # Garbage THEN [base |-> frame.base, over |-> frame.over]
  ELSE IF tag[out.active] = Unknown THEN Unknown
  ELSE [tag[out.active] EXCEPT !.over = @ \o frame.over]

Flips(i) == frame' = [frame EXCEPT !.at = "flip", !.flip = i]
CommitKeeps == UNCHANGED <<surfaces, player, decoded, bars, pool, opens>>

\* Nothing was drawn: the picture on the screen again, "rather than an older surface".
ReshowUntouched == frame.at = "commit" /\ ~frame.drawn /\ Flips(out.shown) /\ CommitKeeps

OnScreen == IF out.shown = Nowhere THEN Unknown ELSE tag[out.shown]

\* The target holds it already; or the surface on the screen does, and the target a
\* picture that is known. With the queue full the frame is drawn whatever is there.
Reuse ==
  /\ frame.at = "commit" /\ frame.drawn /\ Asked # Unknown
  /\ \/ Asked = tag[out.active] /\ Flips(out.active)
     \/ Asked # tag[out.active] /\ tag[out.active] # Unknown /\ Asked = OnScreen /\ Flips(out.shown)
  /\ CommitKeeps

MustDraw ==
  \/ Asked = Unknown
  \/ Asked # tag[out.active] /\ (Asked # OnScreen \/ tag[out.active] = Unknown)
NoRoom == IsVideo(frame.base) /\ frame.over # <<>>
Run ==
  /\ frame.at = "commit" /\ frame.drawn /\ (MustDraw \/ NoRoom)
  /\ frame' = [frame EXCEPT !.at = IF IsVideo(frame.base) THEN "paint" ELSE "over"]
  /\ content' = IF frame.base = Menu THEN [content EXCEPT ![out.active] = Whole(Menu, <<>>, "clean")]
                ELSE content
  /\ UNCHANGED <<tag, out, player, decoded, bars, pool, opens>>

\* The bars are cleared while the counter says so, when the size is another one than
\* this path painted last, and when the target holds anything but a clean picture.
Size(wide) == IF wide THEN "wide" ELSE "narrow"
CleanTarget == IsVideo(tag[out.active].base) /\ tag[out.active].over = <<>>
BarsHw(wide) ==
  IF bars.hw = Size(wide) THEN bars ELSE [bars EXCEPT !.hw = Size(wide), !.left = 4]
BarsSw(wide) ==
  IF bars.sw = Size(wide) THEN bars
  ELSE [bars EXCEPT !.sw = Size(wide), !.left = IF wide THEN 0 ELSE 4, !.skew = FALSE]

\* What is in the bars afterwards. The two paths remember the size apart: once hardware has
\* painted wide pictures (skew) behind the back of a software path that remembers a narrow
\* one, what that leaves uncleared is stray.
Skews(b) == [b EXCEPT !.skew = @ \/ (frame.hw /\ nv.wide /\ b.sw = "narrow")]
After(wide, clears) ==
  IF wide \/ clears THEN "clean"
  ELSE LET old == content[out.active]
       IN  IF old.over = <<>> /\ \A w \in Painters : IsVideo(old.band[w]) /\ ~old.band[w].wide
           THEN old.bars
           ELSE IF ~frame.hw /\ bars.skew THEN "stray" ELSE "dirty"

Wide == IF frame.hw THEN nv.wide ELSE scaled.wide
ShowsNow == IF frame.hw THEN Picture(heap[nv.addr].n, player.wide) ELSE scaled   \* Mutant
Shows == IF frame.hw THEN Picture(heap[nv.addr].n, nv.wide) ELSE scaled

\* paint_nv12 and paint_scaled.
Paint ==
  /\ frame.at = "paint"
  /\ LET b      == IF frame.hw THEN BarsHw(Wide) ELSE BarsSw(Wide)
         clears == b.left > 0 \/ ~CleanTarget
         whole  == Whole(Shows, <<>>, After(Wide, clears))
     IN  /\ bars' = Skews([b EXCEPT !.left = IF @ > 0 THEN @ - 1 ELSE 0])
         /\ IF frame.hw /\ pool.up
            THEN /\ content' = [content EXCEPT ![out.active] =
                                  [whole EXCEPT !.band = content[out.active].band]]
                 /\ pool' = [pool EXCEPT !.to = out.active, !.fresh = Painters, !.done = 0]
                 /\ frame' = [frame EXCEPT !.at = "bands"]
            ELSE /\ content' = [content EXCEPT ![out.active] = whole] /\ pool' = pool
                 /\ frame' = [frame EXCEPT !.at = "over"]
  /\ UNCHANGED <<tag, out, player, decoded, opens>>

\* present_worker: a job is taken once, its band converted, and counted.
PoolKeeps == UNCHANGED <<tag, out, frame, player, decoded, bars, opens>>
TakeJob(w) ==
  /\ pool.up /\ w \in pool.fresh /\ w \notin pool.busy
  /\ pool' = [pool EXCEPT !.fresh = @ \ {w}, !.busy = @ \cup {w}]
  /\ UNCHANGED content /\ PoolKeeps
Band(w) ==
  /\ pool.up /\ w \in pool.busy
  /\ content' = [content EXCEPT ![pool.to].band[w] = Shows]
  /\ pool' = [pool EXCEPT !.busy = @ \ {w}, !.done = @ + 1] /\ PoolKeeps

AllDone == pool.done = Cardinality(Painters)
AllBands ==
  /\ frame.at = "bands" /\ AllDone /\ frame' = [frame EXCEPT !.at = "over"]
  /\ UNCHANGED <<surfaces, player, decoded, bars, pool, opens>>

\* The rest of the queue, and the only place where a tag is written.
Overlay ==
  /\ frame.at = "over" /\ Flips(out.active)
  /\ content' = [content EXCEPT ![out.active].over = @ \o frame.over]
  /\ tag' = [tag EXCEPT ![out.active] = Asked]
  /\ UNCHANGED <<out, player, decoded, bars, pool, opens>>

-----------------------------------------------------------------------------
\* gfx_present: the flip, and the wait for a surface to draw the next frame in.

Next3(i) == (i + 1) % 3
Aged(n) == IF n < 3 THEN n + 1 ELSE 3

Submit ==
  /\ frame.at = "flip" /\ frame' = [NoFrame EXCEPT !.at = "wait", !.flip = frame.flip]
  /\ out' = [out EXCEPT !.flips = Append(@, frame.flip), !.shown = frame.flip,
                        !.presents = Aged(@),
                        !.age = [i \in Surfaces |-> IF i = frame.flip THEN 0 ELSE Aged(@[i])]]
  /\ UNCHANGED <<content, tag, player, decoded, bars, pool, opens>>

\* "A buffer becomes writable only after a frame newer than its previous flip is
\* scanning"; and at most one flip is on its way then.
TargetNext == IF frame.flip = out.active THEN Next3(out.active) ELSE out.active
OwnFlipShown(i) == Len(out.flips) <= out.age[i]                     \* Mutant
NewerFlipShown(i) == Len(out.flips) < out.age[i] /\ Len(out.flips) < 2

Retarget ==
  /\ frame.at = "wait" /\ (out.presents = 3 => NewerFlipShown(TargetNext))
  /\ out' = [out EXCEPT !.active = TargetNext] /\ frame' = NoFrame
  /\ UNCHANGED <<content, tag, player, decoded, bars, pool, opens>>

\* The video output shows flips in the order in which they were submitted.
Vsync ==
  /\ out.flips # <<>> /\ out' = [out EXCEPT !.scan = Head(out.flips), !.flips = Tail(@)]
  /\ UNCHANGED <<content, tag, frame, player, decoded, bars, pool, opens>>

-----------------------------------------------------------------------------
Composing ==
  Open \/ DrawScreen \/ DrawNothing \/ DrawPanelOnly \/ ShowHw \/ ShowSw \/ Hold
Presenting ==
  \/ ReshowUntouched \/ Reuse \/ Run \/ Paint \/ AllBands \/ Overlay \/ Submit \/ Retarget
ScreenNext ==
  \/ Decode \/ SizeChanges \/ TearDown \/ SetUp \/ Composing \/ Presenting \/ Vsync
  \/ \E w \in Painters : TakeJob(w) \/ Band(w)
ScreenSpec == ScreenInit /\ [][ScreenNext]_screenVars

ScreenTypeOK ==
  /\ out.active \in Surfaces /\ out.shown \in Surfaces \cup {Nowhere}
  /\ \A i \in Surfaces : content[i].bars \in {"clean", "dirty", "stray"} /\ out.age[i] \in 0 .. 3
  /\ frame.at \in {"top", "commit", "paint", "bands", "over", "flip", "wait"}
  /\ player.at \in {"idle", "queued", "down"} /\ bars.left \in 0 .. 4
  /\ due \in Frames \cup {Nowhere} /\ held \in Frames \cup {Nowhere}
  /\ pictures \in 0 .. MaxPictures /\ opens \in 0 .. MaxOpens

Holds(c, t) ==
  /\ \A w \in Painters : c.band[w] = [t.base EXCEPT !.as = 0]
  /\ c.over = t.over /\ c.bars # "dirty"

\* "g->tag[i] only ever describes what was actually drawn into surface i", bars and every
\* band of the picture included, whatever the decode thread has changed since.
TagsAreTrue ==
  \A i \in Surfaces :
    tag[i] # Unknown /\ ~(i = out.active /\ frame.at \in {"bands", "over"})
      => Holds(content[i], tag[i])

\* What is flipped is the frame that was composed, drawn or found on a surface; nothing
\* composed leaves the screen as it is. Frames without a picture or background of their
\* own are set apart.
FlippedIsAsked ==
  frame.at = "flip" =>
    /\ ~frame.drawn => frame.flip = out.shown
    /\ frame.base # Garbage => Holds(content[frame.flip], [base |-> frame.base, over |-> frame.over])

\* Together: what is held on the screen is what was asked for, whole and without old bars.
PicturesAreTrue == TagsAreTrue /\ FlippedIsAsked

\* Nobody writes into a surface that is scanned out or waits for it, "which caused
\* partial frames": neither the main loop nor a worker of the pool.
InUse == {out.scan} \cup {out.flips[k] : k \in 1 .. Len(out.flips)}
NoTearing ==
  /\ frame.at # "wait" => out.active \notin InUse
  /\ pool.busy # {} => pool.to \notin InUse
=============================================================================
