----------------------------- MODULE Catalogue -----------------------------
(***************************************************************************)
(* A farmer's products and their photos: the pages that edit them, the     *)
(* product service behind them, and the two stores a photo lives in, a row *)
(* of the database and an object of the bucket.  A save is a series of     *)
(* calls, one after the other, and each may die between its two stores.    *)
(* Price, description and stock are left out.                              *)
(***************************************************************************)
EXTENDS Naturals, FiniteSets

CONSTANTS
    Pages,      \* tabs with the farmer's product page
    Products,   \* products the farmer may add
    Files,      \* pictures on the farmer's disk
    Copies,     \* bound: uploads of a picture to a product
    MaxPhotos,  \* photos a dialog accepts
    None,       \* no product, no photo
    Faults      \* TRUE when calls may die

ASSUME CatalogueAssumption ==
    /\ None \notin Products
    /\ Copies \in Nat \ {0} /\ MaxPhotos \in Nat /\ Faults \in BOOLEAN

VARIABLES
    products,   \* rows of products
    rows,       \* rows of photos
    objects,    \* objects of the bucket
    used,       \* history: keys of all uploads
    torn,       \* history: photos a call died over, or whose product was removed
    page        \* a farmer's tab and the save it has under way

vars == <<products, rows, objects, used, torn, page>>

(* A key names its product, its file and the time of the upload.           *)
Photo == [product : Products, file : Files, time : 1 .. Copies]
Of(x) == {k \in rows : k.product = x}

(* A dialog keeps what is to be deleted and what to be added, a save the   *)
(* two lists it began with (marked, picked) and what is left of them (del, *)
(* put).                                                                   *)
Page == [list : SUBSET Products, photos : SUBSET Photo, dialog : {"none", "add", "edit"},
         open : BOOLEAN, product : Products \cup {None},
         gone : SUBSET Photo, files : SUBSET Files,
         pc : {"idle", "create", "update", "next", "object", "row", "name", "done"},
         marked : SUBSET Photo, picked : SUBSET Files, del : SUBSET Photo, put : SUBSET Files,
         key : Photo \cup {None}]
Unmounted(r) == [r EXCEPT !.open = FALSE, !.gone = {}, !.files = {}]
Over(r) == [r EXCEPT !.pc = "idle", !.marked = {}, !.picked = {}, !.del = {}, !.put = {}, !.key = None]
NoDialog(r) == [Over(Unmounted(r)) EXCEPT !.dialog = "none", !.product = None]

Init ==
    /\ products = {} /\ rows = {} /\ objects = {} /\ used = {} /\ torn = {}
    /\ page = [p \in Pages |->
                [list |-> {}, photos |-> {}, dialog |-> "none", open |-> FALSE, product |-> None,
                 gone |-> {}, files |-> {}, pc |-> "idle", marked |-> {}, picked |-> {},
                 del |-> {}, put |-> {}, key |-> None]]

Set(p, r) == page' = [page EXCEPT ![p] = r]
Stores == <<products, rows, objects, used, torn>>

-----------------------------------------------------------------------------
(* The product page and its dialogs.                                       *)

(* A dialog that goes does not take its save along.  Bound: the next       *)
(* dialog waits for it.                                                    *)
Closed(r) == IF r.pc = "idle" THEN NoDialog(r) ELSE Unmounted(r)

(* The list is loaded with the page and after each save.  Bound: before    *)
(* the next dialog opens; later it may only close it.                      *)
Refresh(p) ==
    /\ page[p].dialog = "none"
    /\ Set(p, [page[p] EXCEPT !.list = products, !.photos = rows])
    /\ UNCHANGED Stores

(* Bound: while there are products to add.                                 *)
ToAdd == Products \ (products \cup {k.product : k \in used})
ShowAdd(p) ==
    /\ page[p].dialog = "none" /\ page[p].pc = "idle" /\ ToAdd # {}
    /\ Set(p, [page[p] EXCEPT !.dialog = "add", !.open = TRUE])
    /\ UNCHANGED Stores

ShowEdit(p, x) ==
    /\ page[p].dialog = "none" /\ page[p].pc = "idle" /\ x \in page[p].list
    /\ Set(p, [page[p] EXCEPT !.dialog = "edit", !.open = TRUE, !.product = x])
    /\ UNCHANGED Stores

Shown(r) == {k \in r.photos : k.product = r.product} \ r.gone

(* The buttons of the photos do not wait for a save.                       *)
HandleFileChange(p, f) ==
    /\ page[p].open /\ f \notin page[p].files
    /\ Cardinality(Shown(page[p])) + Cardinality(page[p].files) < MaxPhotos
    /\ Set(p, [page[p] EXCEPT !.files = @ \cup {f}])
    /\ UNCHANGED Stores

HandleDeleteNew(p, f) ==
    /\ page[p].open /\ f \in page[p].files
    /\ Set(p, [page[p] EXCEPT !.files = @ \ {f}])
    /\ UNCHANGED Stores

HandleDeleteExisting(p, k) ==
    /\ page[p].open /\ page[p].dialog = "edit" /\ k \in Shown(page[p])
    /\ Set(p, [page[p] EXCEPT !.gone = @ \cup {k}])
    /\ UNCHANGED Stores

OnClose(p) ==
    /\ page[p].open
    /\ Set(p, Closed(page[p]))
    /\ UNCHANGED Stores

(* A save goes through the lists as they were when it was clicked.         *)
HandleSave(p) ==
    /\ page[p].open /\ page[p].pc = "idle"
    /\ Set(p, [page[p] EXCEPT !.pc = IF page[p].dialog = "add" THEN "create" ELSE "update",
                              !.marked = page[p].gone, !.picked = page[p].files,
                              !.del = page[p].gone, !.put = page[p].files])
    /\ UNCHANGED Stores

(* After the last call the dialog closes, and a refresh is asked for.      *)
OnSave(p) ==
    /\ page[p].pc = "done"
    /\ Set(p, NoDialog(page[p]))
    /\ UNCHANGED Stores

(* Fault: a call that fails does not stop the ones after it.               *)
FailedGoesOn(r) == [r EXCEPT !.pc = "next", !.key = None, !.del = @ \ {r.key}]

(* A call that fails ends the save: the dialog, if it is still open, shows *)
(* the error and may save again, from the start.                           *)
Failed(r) ==
    IF r.open THEN [Over(r) EXCEPT !.product = IF r.dialog = "add" THEN None ELSE @] ELSE NoDialog(r)

-----------------------------------------------------------------------------
(* The service.                                                            *)

(* A product without photos is not created: the query is never awaited.    *)
Create(p) ==
    /\ page[p].pc = "create"
    /\ \/ /\ page[p].put = {}
          /\ Set(p, [page[p] EXCEPT !.pc = "done"])
          /\ UNCHANGED products
       \/ /\ page[p].put # {}
          /\ \E x \in ToAdd :
                /\ products' = products \cup {x}
                /\ Set(p, [page[p] EXCEPT !.pc = "next", !.product = x])
    /\ UNCHANGED <<rows, objects, used, torn>>

Update(p) ==
    /\ page[p].pc = "update"
    /\ Set(p, IF page[p].product \in products THEN [page[p] EXCEPT !.pc = "next"] ELSE Failed(page[p]))
    /\ UNCHANGED Stores

NothingLeft(p) ==
    /\ page[p].pc = "next" /\ page[p].del = {} /\ page[p].put = {}
    /\ Set(p, [page[p] EXCEPT !.pc = "done"])
    /\ UNCHANGED Stores

(* Deleting a photo: it is found, its object goes, its row goes.           *)
DeleteImage(p, k) ==
    /\ page[p].pc = "next" /\ k \in page[p].del
    /\ Set(p, IF k.product \in products /\ k \in rows THEN [page[p] EXCEPT !.pc = "object", !.key = k]
              ELSE Failed([page[p] EXCEPT !.key = k]))
    /\ UNCHANGED Stores

(* Fault: an object that could not be deleted is ignored.                  *)
DeleteFileIgnored(p) ==
    /\ page[p].pc = "object"
    /\ objects' \in {objects, objects \ {page[p].key}}
    /\ Set(p, [page[p] EXCEPT !.pc = "row"])
    /\ UNCHANGED <<products, rows, used, torn>>

DeleteFile(p) ==
    /\ page[p].pc = "object"
    /\ objects' = objects \ {page[p].key}
    /\ Set(p, [page[p] EXCEPT !.pc = "row"])
    /\ UNCHANGED <<products, rows, used, torn>>

DeleteRow(p) ==
    /\ page[p].pc = "row"
    /\ rows' = rows \ {page[p].key}
    /\ Set(p, IF page[p].key \in rows THEN [page[p] EXCEPT !.pc = "next", !.key = None, !.del = @ \ {page[p].key}]
              ELSE Failed(page[p]))
    /\ UNCHANGED <<products, objects, used, torn>>

(* Adding one: its object is stored, its row is made.  An edited product   *)
(* has to be there before the upload, any product before the row.          *)
UploadFile(p, f) ==
    /\ page[p].pc = "next" /\ page[p].del = {} /\ f \in page[p].put
    /\ \E n \in 1 .. Copies :
          LET k == [product |-> page[p].product, file |-> f, time |-> n] IN
          /\ k \notin used /\ \A i \in 1 .. n - 1 : [k EXCEPT !.time = i] \in used
          /\ \/ /\ page[p].product \in products \/ page[p].dialog = "add"
                /\ objects' = objects \cup {k} /\ used' = used \cup {k}
                /\ Set(p, [page[p] EXCEPT !.pc = "name", !.key = k])
             \/ /\ page[p].product \notin products /\ page[p].dialog # "add"
                /\ Set(p, Failed(page[p]))
                /\ UNCHANGED <<objects, used>>
    /\ UNCHANGED <<products, rows, torn>>

CreateRow(p) ==
    LET k == page[p].key IN
    /\ page[p].pc = "name"
    /\ IF k.product \in products
       THEN /\ rows' = rows \cup {k}
            /\ Set(p, [page[p] EXCEPT !.pc = "next", !.key = None, !.put = @ \ {k.file}])
            /\ UNCHANGED torn
       ELSE torn' = torn \cup {k} /\ Set(p, Failed(page[p])) /\ UNCHANGED rows
    /\ UNCHANGED <<products, objects, used>>

(* A call dies where it is, or its answer does.                            *)
Abort(p) ==
    /\ Faults /\ page[p].pc \notin {"idle", "done"}
    /\ torn' = IF page[p].pc \in {"row", "name"} THEN torn \cup {page[p].key} ELSE torn
    /\ Set(p, Failed(page[p]))
    /\ UNCHANGED <<products, rows, objects, used>>

(* No page removes a product, the interface does: its rows go with it, its *)
(* objects stay.                                                           *)
Remove(x) ==
    /\ x \in products
    /\ products' = products \ {x}
    /\ rows' = rows \ Of(x)
    /\ torn' = torn \cup Of(x)
    /\ UNCHANGED <<objects, used, page>>

Call(p) ==
    \/ Create(p) \/ Update(p) \/ NothingLeft(p)
    \/ \E k \in page[p].del : DeleteImage(p, k)
    \/ DeleteFile(p) \/ DeleteRow(p)
    \/ \E f \in Files : UploadFile(p, f)
    \/ CreateRow(p) \/ Abort(p)
Dialog(p) ==
    \/ Refresh(p) \/ ShowAdd(p) \/ OnClose(p) \/ HandleSave(p) \/ OnSave(p)
    \/ \E x \in Products : ShowEdit(p, x)
    \/ \E f \in Files : HandleFileChange(p, f) \/ HandleDeleteNew(p, f)
    \/ \E k \in page[p].photos : HandleDeleteExisting(p, k)
Next ==
    \/ \E p \in Pages : Call(p) \/ Dialog(p)
    \/ \E x \in Products : Remove(x)
Spec == Init /\ [][Next]_vars

-----------------------------------------------------------------------------
TypeOK ==
    /\ products \subseteq Products
    /\ rows \subseteq Photo /\ objects \subseteq Photo /\ used \subseteq Photo /\ torn \subseteq Photo
    /\ page \in [Pages -> Page]

(* A photo is in both stores or in neither, unless a call that died, or    *)
(* the removal of its product, left it torn, or a call is between the two  *)
(* at this moment: whoever else deletes the same photo, adds another or    *)
(* fails over it (deleteImage, addImage, create).                          *)
Between(k) == \E p \in Pages : page[p].key = k /\ page[p].pc \in {"row", "name"}
StoresAgree == \A k \in Photo : (k \in rows) # (k \in objects) => k \in torn \/ Between(k)

(* A save that reaches its end, at the first try or at a later one, has    *)
(* deleted what was to be deleted from both stores and uploaded every new  *)
(* picture, as the dialog had them when it was clicked and whatever        *)
(* became of the dialog since (the two handleSave).                        *)
SavedIsDone ==
    \A p \in Pages : page[p].pc = "done" =>
        /\ page[p].marked \cap (rows \cup objects) = {}
        /\ \A f \in page[p].picked : \E k \in used : k.product = page[p].product /\ k.file = f
=============================================================================
