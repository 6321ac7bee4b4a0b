----------------------------- MODULE SpoolScreen -----------------------------
(***************************************************************************)
(* The product image of the spool shown, beside ReaderController:          *)
(* show_spool and start_bambu_product_image_load of core/src/app.rs.       *)
(*                                                                         *)
(* A spool is shown without its image.  That of a Bambu spool is loaded in *)
(* a task of its own, by the color code of the product; that of an         *)
(* OpenPrintTag spool comes with its catalog entry.  Different Bambu       *)
(* spools have different color codes here; equal ones have the same image. *)
(***************************************************************************)
EXTENDS ReaderController

ASSUME SlotsAssumption == Slots \subseteq Nat

VARIABLES
  image,          \* spool_image: the spool it belongs to, None without has_spool_image
  image_loading,  \* spool_image_loading
  loads           \* the spools with an image load running; bound: one load of each

images == <<image, image_loading, loads>>
screen_vars == <<vars, images>>

ScreenInit ==
  /\ Init
  /\ image = None
  /\ image_loading = FALSE
  /\ loads = {}

\* show_spool with start_bambu_product_image_load; the spool may have no color
\* code, and there may be no free task.
ShowBambu(s) ==
  /\ ReadBambu(s)
  /\ image' = None
  /\ \/ /\ s \notin loads
        /\ loads' = loads \cup {s}
        /\ image_loading' = TRUE
     \/ /\ image_loading' = FALSE
        /\ UNCHANGED loads

\* show_spool with start_openprinttag_catalog_load.
ShowOpenPrintTag(s) ==
  /\ ReadOpenPrintTag(s)
  /\ image' = None
  /\ image_loading' = (tasks' # tasks)
  /\ UNCHANGED loads

\* The result is put on the screen, if there is an image.
PutImage(s) ==
  /\ image_loading' = FALSE
  /\ image' \in {image, s}

\* finish_openprinttag_catalog_load
EndCatalogLoad(t) ==
  /\ FinishCatalogLoad(t)
  /\ IF tasks[t].spool # active_tray_uid
     THEN UNCHANGED <<image, image_loading>>
     ELSE PutImage(tasks[t].spool)
  /\ UNCHANGED loads

\* Is another product shown than the one whose image was loaded?  An OpenPrintTag
\* spool has an empty color code.
OtherProduct_hiddenOnly(s) == ~has_spool
OtherProduct(s) == ~has_spool \/ active_tray_uid # s

\* load_product_image has ended.
EndImageLoad(s) ==
  /\ s \in loads
  /\ loads' = loads \ {s}
  /\ IF OtherProduct(s)
     THEN UNCHANGED <<image, image_loading>>
     ELSE PutImage(s)
  /\ UNCHANGED vars

OtherTaskStep(t) ==
  \/ Serve(t) \/ StalePreparation(t) \/ FinishFilamanPreparation(t)
  \/ FinishSpoolStorage(t) \/ FinishSpoolArchive(t)

\* The slots are all alike: a new task takes the first one that is free.
TakesFirstSlot ==
  \A t \in Slots :
    tasks[t] = NoTask /\ tasks'[t] # NoTask => \A u \in Slots : u < t => tasks[u] # NoTask

ScreenNext ==
  /\ \/ \E s \in Spools : ShowBambu(s) \/ ShowOpenPrintTag(s)
     \/ \E t \in Slots : EndCatalogLoad(t)
     \/ \E s \in Bambu : EndImageLoad(s)
     \/ /\ ReadFails \/ Button \/ \E t \in Slots : OtherTaskStep(t)
        /\ UNCHANGED images
  /\ TakesFirstSlot

\* The fairness of the controller; an image load need not end.
ScreenSpec ==
  ScreenInit /\ [][ScreenNext]_screen_vars /\ \A t \in Slots : WF_vars(TaskEnds(t))

-----------------------------------------------------------------------------
(* Properties *)

\* The image beside a spool is that spool's, whatever loads and lookups of spools
\* shown before, or of earlier reads of the same one, end in between; and the
\* screen says that an image is being loaded only while a task will bring it or
\* withdraw it (app.rs:840, 900).
ImageIsOfShownSpool ==
  has_spool =>
    /\ image \in {None, active_tray_uid}
    /\ image_loading =>
         \/ active_tray_uid \in loads
         \/ \E t \in Slots : tasks[t].kind = "catalog" /\ tasks[t].spool = active_tray_uid
=============================================================================
