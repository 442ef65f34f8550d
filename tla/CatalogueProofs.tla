-------------------------- MODULE CatalogueProofs --------------------------
(***************************************************************************)
(* What holds of a farmer's photos for any tabs, products and pictures.    *)
(* The argument is where a key may be known: an upload's key is fresh, so  *)
(* until its row is made no page can show the photo and none can ask for   *)
(* its deletion; and a key whose object is gone never gets one again.      *)
(***************************************************************************)
EXTENDS Catalogue, TLAPS

Saving == {"next", "object", "row", "name", "done"}

(* What a page knows, the photo its call works on, and what of its save is *)
(* done.                                                                   *)
Known(r) ==
    /\ r.photos \subseteq used /\ r.gone \subseteq used /\ r.marked \subseteq used
    /\ r.dialog # "edit" => r.gone = {} /\ r.marked = {}
Keyed(r) ==
    /\ r.pc \in {"object", "row"} => r.key \in r.del
    /\ r.pc = "row" => r.key \notin objects
    /\ r.pc = "name" => r.key \in objects /\ r.key \notin rows /\ r.key.product = r.product
Asked(r) ==
    /\ r.pc \in Saving => r.del \subseteq r.marked /\ r.put \subseteq r.picked
    /\ r.pc \in {"next", "object", "row", "name"} => r.product \in Products
    /\ r.pc = "create" => r.dialog = "add"
    /\ r.pc \in {"create", "update"} => r.del = r.marked /\ r.put = r.picked
    /\ r.pc = "done" => r.del = {} /\ r.put = {}
Achieved(r) ==
    r.pc \in Saving =>
        /\ (r.marked \ r.del) \cap (rows \cup objects) = {}
        /\ \A f \in r.picked \ r.put : \E k \in used : k.product = r.product /\ k.file = f
Fine(r) == Known(r) /\ Keyed(r) /\ Asked(r) /\ Achieved(r)

(* A photo whose row is still to be made is unknown to every page, and the *)
(* work of one call.                                                       *)
Unknown(r, s) == r.pc = "name" => r.key \notin s.photos \cup s.gone \cup s.marked
Apart(r, s) == r.pc = "name" /\ s.pc = "name" => r.key # s.key

IInv ==
    /\ TypeOK
    /\ rows \subseteq used /\ objects \subseteq used
    /\ \A p \in Pages : Fine(page[p])
    /\ \A p, q \in Pages : Unknown(page[p], page[q])
    /\ \A p, q \in Pages : p # q => Apart(page[p], page[q])
    /\ StoresAgree

-----------------------------------------------------------------------------
LEMMA InitInv == Init => IInv
BY CatalogueAssumption DEF Init, IInv, TypeOK, Page, Fine, Known, Keyed, Asked, Achieved, Saving, Unknown, Apart, StoresAgree

(* Where page p goes when its call leaves both stores alone.               *)
Goes(p, r) ==
    /\ r \in Page /\ Set(p, r) /\ Fine(r)
    /\ UNCHANGED <<rows, objects, used>>
    /\ products' \subseteq Products /\ torn \subseteq torn' /\ torn' \subseteq Photo
    /\ r.photos = page[p].photos \/ r.photos \subseteq rows
    /\ r.gone \subseteq page[p].gone \cup page[p].photos
    /\ r.marked \subseteq page[p].marked \cup page[p].gone
    /\ r.pc = "name" => page[p].pc = "name" /\ r.key = page[p].key
    /\ page[p].pc \in {"row", "name"} =>
          \/ r.pc = page[p].pc /\ r.key = page[p].key
          \/ page[p].key \in torn'
          \/ (page[p].key \in rows) = (page[p].key \in objects)

LEMMA PageStep == ASSUME IInv, NEW p \in Pages, NEW r, Goes(p, r) PROVE IInv'
<1>1. page'[p] = r /\ \A q \in Pages \ {p} : page'[q] = page[q]
  BY DEF Goes, Set, IInv, TypeOK
<1>2. TypeOK'
  BY DEF Goes, Set, IInv, TypeOK
<1>3. \A q \in Pages : Fine(page[q])'
  BY <1>1 DEF Goes, IInv, Fine, Known, Keyed, Asked, Achieved
<1>4. \A q, s \in Pages : Unknown(page[q], page[s])'
  <2>1. \A q \in Pages : page'[q].pc = "name" => page[q].pc = "name" /\ page'[q].key = page[q].key
    BY <1>1 DEF Goes
  <2>2. \A q \in Pages : page[q].pc = "name" => page[q].key \notin rows
    BY DEF IInv, Fine, Keyed
  <2>3. \A s \in Pages : page'[s].photos \subseteq rows \cup page[s].photos
    BY <1>1 DEF Goes
  <2>4. \A s \in Pages : page'[s].gone \subseteq page[s].gone \cup page[s].photos
    BY <1>1 DEF Goes
  <2>5. \A s \in Pages : page'[s].marked \subseteq page[s].marked \cup page[s].gone
    BY <1>1 DEF Goes
  <2>. QED
    BY <2>1, <2>2, <2>3, <2>4, <2>5 DEF IInv, Unknown
<1>5. \A q, s \in Pages : q # s => Apart(page[q], page[s])'
  BY <1>1 DEF Goes, IInv, Apart
<1>6. StoresAgree'
  <2>. SUFFICES ASSUME NEW k \in Photo, (k \in rows) # (k \in objects) PROVE k \in torn' \/ Between(k)'
    BY DEF Goes, StoresAgree
  <2>1. CASE k \in torn
    BY <2>1 DEF Goes
  <2>2. CASE Between(k)
    <3>1. PICK q \in Pages : page[q].key = k /\ page[q].pc \in {"row", "name"}
      BY <2>2 DEF Between
    <3>2. (page'[q].key = k /\ page'[q].pc \in {"row", "name"}) \/ k \in torn'
      BY <1>1, <3>1 DEF Goes
    <3>. QED
      BY <3>2 DEF Between
  <2>. QED
    BY <2>1, <2>2 DEF IInv, StoresAgree
<1>. QED
  BY <1>2, <1>3, <1>4, <1>5, <1>6 DEF IInv, Goes

-----------------------------------------------------------------------------
(* The steps of the page.                                                  *)
LEMMA Facts ==
    ASSUME IInv, NEW p \in Pages
    PROVE  page[p] \in Page /\ Fine(page[p]) /\ products \subseteq Products /\ rows \subseteq Photo
           /\ used \subseteq Photo /\ torn \subseteq Photo /\ rows \subseteq used
BY DEF IInv, TypeOK

(* A step that starts no save and stops none but by ending it.             *)
LEMMA QuietStep ==
    ASSUME IInv, NEW p \in Pages, NEW r \in Page, Set(p, r), UNCHANGED Stores, Known(r),
           r.photos = page[p].photos \/ r.photos \subseteq rows,
           r.gone \subseteq page[p].gone \cup page[p].photos, r.marked \subseteq page[p].marked,
           \/ r.pc = "idle" /\ page[p].pc \in {"idle", "done"}
           \/ /\ r.pc = page[p].pc /\ r.key = page[p].key /\ r.del = page[p].del /\ r.put = page[p].put
              /\ r.marked = page[p].marked /\ r.picked = page[p].picked
              /\ r.product = page[p].product /\ r.dialog = page[p].dialog
    PROVE  IInv'
<1>1. Fine(r)
  <2>1. CASE r.pc = "idle"
    BY <2>1 DEF Fine, Keyed, Asked, Achieved, Saving
  <2>2. CASE r.pc # "idle"
    BY <2>2, Facts DEF Fine, Keyed, Asked, Achieved
  <2>. QED
    BY <2>1, <2>2
<1>. QED
  BY <1>1, Facts, PageStep DEF Goes, Stores

LEMMA Gone ==
    ASSUME NEW r \in Page
    PROVE  /\ Unmounted(r) \in Page /\ Unmounted(r).photos = r.photos /\ Unmounted(r).gone = {}
           /\ Unmounted(r).pc = r.pc /\ Unmounted(r).key = r.key /\ Unmounted(r).del = r.del
           /\ Unmounted(r).put = r.put /\ Unmounted(r).marked = r.marked /\ Unmounted(r).picked = r.picked
           /\ Unmounted(r).product = r.product /\ Unmounted(r).dialog = r.dialog
           /\ Over(r) \in Page /\ Over(r).pc = "idle" /\ Over(r).photos = r.photos /\ Over(r).gone = r.gone
           /\ Over(r).marked = {} /\ Over(r).dialog = r.dialog
           /\ NoDialog(r) \in Page /\ NoDialog(r).pc = "idle" /\ NoDialog(r).photos = r.photos
           /\ NoDialog(r).gone = {} /\ NoDialog(r).marked = {}
<1>. DEFINE u == Unmounted(r)
            v == Over(r)
<1>1. /\ u \in Page /\ u.photos = r.photos /\ u.gone = {} /\ u.pc = r.pc /\ u.key = r.key /\ u.del = r.del
      /\ u.put = r.put /\ u.marked = r.marked /\ u.picked = r.picked /\ u.product = r.product /\ u.dialog = r.dialog
  BY DEF Unmounted, Page
<1>2. /\ v \in Page /\ v.pc = "idle" /\ v.photos = r.photos /\ v.gone = r.gone /\ v.marked = {} /\ v.dialog = r.dialog
  BY DEF Over, Page
<1>3. LET w == Over(u) IN w \in Page /\ w.pc = "idle" /\ w.photos = r.photos /\ w.gone = {} /\ w.marked = {}
  <2>. HIDE DEF u
  <2>. QED
    BY <1>1 DEF Over, Page
<1>4. LET w == NoDialog(r) IN w \in Page /\ w.pc = "idle" /\ w.photos = r.photos /\ w.gone = {} /\ w.marked = {}
  <2>. DEFINE w == Over(u)
  <2>1. NoDialog(r) = [w EXCEPT !.dialog = "none", !.product = None]
    BY DEF NoDialog
  <2>. HIDE DEF w, u
  <2>. QED
    BY <1>3, <2>1 DEF Page, w
<1>. QED
  BY <1>1, <1>2, <1>4

LEMMA DialogSteps == ASSUME IInv, NEW p \in Pages, Dialog(p) PROVE IInv'
<1>0. /\ page[p] \in Page /\ Fine(page[p]) /\ Known(page[p]) /\ rows \subseteq used /\ rows \subseteq Photo
      /\ products \subseteq Products
  BY Facts DEF Fine
<1>1. CASE Refresh(p)
  <2>. DEFINE r == [page[p] EXCEPT !.list = products, !.photos = rows]
  <2>1. /\ r \in Page /\ r.photos = rows /\ r.gone = page[p].gone /\ r.dialog = page[p].dialog /\ r.pc = page[p].pc
        /\ r.key = page[p].key /\ r.del = page[p].del /\ r.put = page[p].put /\ r.picked = page[p].picked
        /\ r.product = page[p].product /\ r.marked = page[p].marked
    BY <1>0 DEF Page
  <2>2. Set(p, r) /\ UNCHANGED Stores
    BY <1>1 DEF Refresh
  <2>. HIDE DEF r
  <2>3. Known(r)
    BY <1>0, <2>1 DEF Known
  <2>. QED
    BY <2>1, <2>2, <2>3, QuietStep
<1>2. CASE ShowAdd(p)
  <2>. DEFINE r == [page[p] EXCEPT !.dialog = "add", !.open = TRUE]
  <2>1. /\ r \in Page /\ r.photos = page[p].photos /\ r.gone = page[p].gone /\ r.pc = "idle"
        /\ r.marked = page[p].marked /\ page[p].pc = "idle"
    BY <1>0, <1>2 DEF Page, ShowAdd
  <2>2. Known(r)
    BY <1>0, <1>2, <2>1 DEF Known, ShowAdd
  <2>. QED
    BY <1>2, <2>1, <2>2, QuietStep DEF ShowAdd
<1>3. CASE \E x \in Products : ShowEdit(p, x)
  <2>1. PICK x \in Products : ShowEdit(p, x)
    BY <1>3
  <2>. DEFINE r == [page[p] EXCEPT !.dialog = "edit", !.open = TRUE, !.product = x]
  <2>2. /\ r \in Page /\ r.photos = page[p].photos /\ r.gone = page[p].gone /\ r.pc = "idle" /\ r.dialog = "edit"
        /\ r.marked = page[p].marked /\ page[p].pc = "idle"
    BY <1>0, <2>1 DEF Page, ShowEdit
  <2>3. Known(r)
    BY <1>0, <2>2 DEF Known
  <2>. QED
    BY <2>1, <2>2, <2>3, QuietStep DEF ShowEdit
<1>4. CASE \E f \in Files : HandleFileChange(p, f) \/ HandleDeleteNew(p, f)
  <2>1. PICK f \in Files : HandleFileChange(p, f) \/ HandleDeleteNew(p, f)
    BY <1>4
  <2>2. PICK fs \in SUBSET Files : Set(p, [page[p] EXCEPT !.files = fs]) /\ UNCHANGED Stores
    <3>1. page[p].files \cup {f} \in SUBSET Files /\ page[p].files \ {f} \in SUBSET Files
      BY <1>0 DEF Page
    <3>. QED
      BY <2>1, <3>1 DEF HandleFileChange, HandleDeleteNew
  <2>. DEFINE r == [page[p] EXCEPT !.files = fs]
  <2>3. /\ r \in Page /\ r.photos = page[p].photos /\ r.gone = page[p].gone /\ r.dialog = page[p].dialog
        /\ r.pc = page[p].pc /\ r.key = page[p].key /\ r.del = page[p].del /\ r.put = page[p].put
        /\ r.picked = page[p].picked /\ r.product = page[p].product /\ r.marked = page[p].marked
    BY <1>0 DEF Page
  <2>4. Set(p, r)
    BY <2>2
  <2>. HIDE DEF r
  <2>5. Known(r)
    BY <1>0, <2>3 DEF Known
  <2>. QED
    BY <2>2, <2>3, <2>4, <2>5, QuietStep
<1>5. CASE \E k \in page[p].photos : HandleDeleteExisting(p, k)
  <2>1. PICK k \in page[p].photos : HandleDeleteExisting(p, k)
    BY <1>5
  <2>. DEFINE r == [page[p] EXCEPT !.gone = @ \cup {k}]
  <2>2. /\ r \in Page /\ r.photos = page[p].photos /\ r.gone = page[p].gone \cup {k} /\ r.dialog = page[p].dialog
        /\ r.pc = page[p].pc /\ r.key = page[p].key /\ r.del = page[p].del /\ r.put = page[p].put
        /\ r.picked = page[p].picked /\ r.product = page[p].product /\ r.marked = page[p].marked
    BY <1>0 DEF Page
  <2>3. Set(p, r) /\ UNCHANGED Stores /\ page[p].dialog = "edit"
    BY <2>1 DEF HandleDeleteExisting
  <2>. HIDE DEF r
  <2>4. Known(r)
    BY <1>0, <2>1, <2>2, <2>3 DEF Known
  <2>. QED
    BY <2>1, <2>2, <2>3, <2>4, QuietStep
<1>6. CASE (OnClose(p) /\ page[p].pc = "idle") \/ OnSave(p)
  <2>. DEFINE r == NoDialog(page[p])
  <2>1. Set(p, r) /\ UNCHANGED Stores /\ page[p].pc \in {"idle", "done"}
    BY <1>6 DEF OnClose, OnSave, Closed
  <2>2. r \in Page /\ r.photos = page[p].photos /\ r.gone = {} /\ r.marked = {} /\ r.pc = "idle"
    BY <1>0, Gone
  <2>. HIDE DEF r
  <2>3. Known(r)
    BY <1>0, <2>2 DEF Known
  <2>. QED
    BY <2>1, <2>2, <2>3, QuietStep
<1>7. CASE OnClose(p) /\ page[p].pc # "idle"
  <2>. DEFINE r == Unmounted(page[p])
  <2>1. /\ r \in Page /\ r.photos = page[p].photos /\ r.gone = {} /\ r.dialog = page[p].dialog
        /\ r.pc = page[p].pc /\ r.key = page[p].key /\ r.del = page[p].del /\ r.put = page[p].put
        /\ r.picked = page[p].picked /\ r.product = page[p].product /\ r.marked = page[p].marked
    BY <1>0, Gone
  <2>2. Set(p, r) /\ UNCHANGED Stores
    BY <1>7 DEF OnClose, Closed
  <2>. HIDE DEF r
  <2>3. Known(r)
    BY <1>0, <2>1 DEF Known
  <2>. QED
    BY <2>1, <2>2, <2>3, QuietStep
<1>8. CASE HandleSave(p)
  <2>1. PICK r : /\ r = [page[p] EXCEPT !.pc = IF page[p].dialog = "add" THEN "create" ELSE "update",
                                      !.marked = page[p].gone, !.picked = page[p].files,
                                      !.del = page[p].gone, !.put = page[p].files]
                 /\ Set(p, r) /\ UNCHANGED Stores /\ page[p].pc = "idle"
    BY <1>8 DEF HandleSave
  <2>2. /\ r \in Page /\ r.photos = page[p].photos /\ r.gone = page[p].gone /\ r.dialog = page[p].dialog
        /\ r.pc = IF page[p].dialog = "add" THEN "create" ELSE "update"
        /\ r.marked = page[p].gone /\ r.del = r.marked /\ r.put = r.picked
    BY <1>0, <2>1 DEF Page
  <2>3. Fine(r)
    <3>1. Known(r) /\ r.pc \in {"create", "update"} /\ r.pc \notin Saving
      BY <1>0, <2>2 DEF Known, Saving
    <3>2. r.pc = "create" => r.dialog = "add"
      BY <2>2
    <3>. QED
      BY <2>2, <3>1, <3>2 DEF Fine, Keyed, Asked, Achieved
  <2>4. r.pc # "name"
    BY <2>2
  <2>5. Goes(p, r)
    BY <2>1, <2>2, <2>3, <2>4, Facts DEF Goes, Stores
  <2>. QED
    BY <2>5, PageStep
<1>. QED
  BY <1>1, <1>2, <1>3, <1>4, <1>5, <1>6, <1>7, <1>8 DEF Dialog, OnClose, OnSave

-----------------------------------------------------------------------------
(* The calls that leave both stores alone.                                 *)

(* A save that failed asks for nothing more.                               *)
LEMMA FailedStep ==
    ASSUME IInv, NEW p \in Pages, NEW k \in Photo \cup {None},
           Set(p, Failed([page[p] EXCEPT !.key = k])) \/ Set(p, Failed(page[p])),
           UNCHANGED <<rows, objects, used>>, products' \subseteq Products,
           torn \subseteq torn', torn' \subseteq Photo,
           page[p].pc \in {"row", "name"} =>
               page[p].key \in torn' \/ (page[p].key \in rows) = (page[p].key \in objects)
    PROVE  IInv'
<1>1. \A r \in Page : Failed(r) \in Page /\ Failed(r).pc = "idle" /\ Failed(r).photos = r.photos
                      /\ Failed(r).gone \subseteq r.gone /\ Failed(r).marked = {}
                      /\ (Failed(r).dialog # "edit" => Failed(r).gone = {} \/ r.dialog # "edit")
  <2>. TAKE r \in Page
  <2>. DEFINE v == Over(r)
              w == [v EXCEPT !.product = IF r.dialog = "add" THEN None ELSE v.product]
  <2>1. Failed(r) = IF r.open THEN w ELSE NoDialog(r)
    BY DEF Failed
  <2>2. /\ v \in Page /\ v.pc = "idle" /\ v.photos = r.photos /\ v.gone = r.gone /\ v.marked = {}
        /\ v.dialog = r.dialog
    BY Gone
  <2>. HIDE DEF v
  <2>3. /\ w \in Page /\ w.pc = "idle" /\ w.photos = r.photos /\ w.gone = r.gone /\ w.marked = {}
        /\ w.dialog = r.dialog
    BY <2>2 DEF Page
  <2>. HIDE DEF w
  <2>. QED
    BY <2>1, <2>3, Gone
<1>2. page[p] \in Page /\ Known(page[p])
  BY Facts DEF Fine
<1>3. PICK r : /\ r \in {page[p], [page[p] EXCEPT !.key = k]} /\ Set(p, Failed(r))
  OBVIOUS
<1>4. PICK t : t = Failed(r)
  OBVIOUS
<1>5. /\ t \in Page /\ t.pc = "idle" /\ t.photos = page[p].photos /\ t.gone \subseteq page[p].gone /\ t.marked = {}
      /\ (t.dialog # "edit" => t.gone = {})
  <2>. DEFINE q == [page[p] EXCEPT !.key = k]
  <2>1. q \in Page /\ q.photos = page[p].photos /\ q.gone = page[p].gone /\ q.dialog = page[p].dialog
    BY <1>2 DEF Page
  <2>2. r = page[p] \/ r = q
    BY <1>3
  <2>. HIDE DEF q
  <2>3. r \in Page /\ r.photos = page[p].photos /\ r.gone = page[p].gone /\ r.dialog = page[p].dialog
    BY <1>2, <2>1, <2>2
  <2>4. r.dialog # "edit" => r.gone = {}
    BY <1>2, <2>3 DEF Known
  <2>5. t \in Page /\ t.pc = "idle" /\ t.photos = r.photos /\ t.gone \subseteq r.gone /\ t.marked = {}
    BY <1>1, <1>4, <2>3
  <2>6. t.dialog # "edit" => t.gone = {}
    BY <1>1, <1>4, <2>3, <2>4, <2>5
  <2>. QED
    BY <2>3, <2>5, <2>6
<1>6. Fine(t)
  <2>1. Known(t)
    BY <1>2, <1>5 DEF Known
  <2>. QED
    BY <1>5, <2>1 DEF Fine, Keyed, Asked, Achieved, Saving
<1>7. Goes(p, t)
  BY <1>3, <1>4, <1>5, <1>6 DEF Goes
<1>. QED
  BY <1>7, PageStep

LEMMA CallSteps ==
    ASSUME IInv, NEW p \in Pages,
           \/ Create(p) \/ Update(p) \/ NothingLeft(p) \/ Abort(p)
           \/ \E k \in page[p].del : DeleteImage(p, k)
    PROVE  IInv'
<1>. DEFINE r == page[p]
<1>0. r \in Page /\ Fine(r) /\ products \subseteq Products /\ torn \subseteq Photo
  BY Facts
<1>1. CASE Create(p)
  <2>0. r.pc = "create" /\ r.dialog = "add" /\ r.gone = {} /\ r.marked = {} /\ r.del = {} /\ r.put = r.picked
    BY <1>0, <1>1 DEF Create, Fine, Known, Asked
  <2>1. CASE r.put = {} /\ Set(p, [r EXCEPT !.pc = "done"]) /\ products' = products
    <3>. DEFINE s == [r EXCEPT !.pc = "done"]
    <3>1. /\ s \in Page /\ s.pc = "done" /\ s.photos = r.photos /\ s.gone = {} /\ s.marked = {} /\ s.del = {} /\ s.put = {}
          /\ s.picked = {}
      BY <1>0, <2>0, <2>1 DEF Page
    <3>. HIDE DEF s
    <3>2. Fine(s)
      BY <1>0, <3>1 DEF Fine, Known, Keyed, Asked, Achieved
    <3>3. Goes(p, s)
      BY <1>0, <1>1, <2>0, <2>1, <3>1, <3>2 DEF Goes, Create, s
    <3>. QED
      BY <3>3, PageStep
  <2>2. CASE \E x \in Products : products' = products \cup {x} /\ Set(p, [r EXCEPT !.pc = "next", !.product = x])
    <3>1. PICK x \in Products : products' = products \cup {x} /\ Set(p, [r EXCEPT !.pc = "next", !.product = x])
      BY <2>2
    <3>. DEFINE s == [r EXCEPT !.pc = "next", !.product = x]
    <3>2. /\ s \in Page /\ s.pc = "next" /\ s.photos = r.photos /\ s.gone = {} /\ s.marked = {} /\ s.del = {} /\ s.put = s.picked
          /\ s.product = x
      BY <1>0, <2>0 DEF Page
    <3>3. Set(p, s)
      BY <3>1
    <3>. HIDE DEF s
    <3>4. Fine(s)
      BY <1>0, <3>2 DEF Fine, Known, Keyed, Asked, Achieved
    <3>5. Goes(p, s)
      BY <1>0, <1>1, <2>0, <3>1, <3>2, <3>3, <3>4 DEF Goes, Create
    <3>. QED
      BY <3>5, PageStep
  <2>. QED
    BY <1>1, <2>1, <2>2 DEF Create, ToAdd
<1>2. CASE Update(p)
  <2>0. r.pc = "update" /\ r.del = r.marked /\ r.put = r.picked
    BY <1>0, <1>2 DEF Update, Fine, Asked
  <2>1. CASE r.product \in products /\ Set(p, [r EXCEPT !.pc = "next"])
    <3>. DEFINE s == [r EXCEPT !.pc = "next"]
    <3>2. /\ s \in Page /\ s.pc = "next" /\ s.photos = r.photos /\ s.gone = r.gone /\ s.marked = r.marked /\ s.dialog = r.dialog
          /\ s.del = s.marked /\ s.put = s.picked /\ s.product \in Products
      BY <1>0, <2>0, <2>1 DEF Page
    <3>3. Set(p, s)
      BY <2>1
    <3>. HIDE DEF s
    <3>4. Fine(s)
      BY <1>0, <3>2 DEF Fine, Known, Keyed, Asked, Achieved
    <3>5. Goes(p, s)
      BY <1>0, <1>2, <2>0, <3>2, <3>3, <3>4 DEF Goes, Update, Stores
    <3>. QED
      BY <3>5, PageStep
  <2>2. CASE Set(p, Failed(r))
    BY <1>0, <1>2, <2>0, <2>2, FailedStep DEF Update, Stores
  <2>. QED
    BY <1>2, <2>1, <2>2 DEF Update
<1>3. CASE NothingLeft(p)
  <2>. DEFINE s == [r EXCEPT !.pc = "done"]
  <2>1. /\ s \in Page /\ s.pc = "done" /\ s.photos = r.photos /\ s.gone = r.gone /\ s.marked = r.marked /\ s.dialog = r.dialog
        /\ s.del = {} /\ s.put = {} /\ s.product = r.product /\ s.picked = r.picked
        /\ r.pc = "next" /\ r.del = {} /\ r.put = {}
    BY <1>0, <1>3 DEF Page, NothingLeft
  <2>2. Set(p, s)
    BY <1>3 DEF NothingLeft
  <2>. HIDE DEF s
  <2>3. Fine(s)
    BY <1>0, <2>1 DEF Fine, Known, Keyed, Asked, Achieved, Saving
  <2>4. Goes(p, s)
    BY <1>0, <1>3, <2>1, <2>2, <2>3 DEF Goes, NothingLeft, Stores
  <2>. QED
    BY <2>4, PageStep
<1>4. CASE Abort(p)
  <2>0. r.pc \in {"row", "name"} => r.key \in Photo
    <3>1. r.pc = "row" => r.key \in r.del
      BY <1>0 DEF Fine, Keyed
    <3>2. r.pc = "name" => r.key \in objects
      BY <1>0 DEF Fine, Keyed
    <3>. QED
      BY <1>0, <3>1, <3>2 DEF Page, IInv, TypeOK
  <2>1. torn \subseteq torn' /\ torn' \subseteq Photo /\ (r.pc \in {"row", "name"} => r.key \in torn')
    BY <1>0, <1>4, <2>0 DEF Abort
  <2>. QED
    BY <1>0, <1>4, <2>1, FailedStep DEF Abort
<1>5. CASE \E k \in page[p].del : DeleteImage(p, k)
  <2>1. PICK k \in r.del : DeleteImage(p, k)
    BY <1>5
  <2>2. r.pc = "next" /\ UNCHANGED Stores
    BY <2>1 DEF DeleteImage
  <2>3. CASE Set(p, [r EXCEPT !.pc = "object", !.key = k])
    <3>. DEFINE s == [r EXCEPT !.pc = "object", !.key = k]
    <3>1. k \in Photo
      BY <1>0 DEF Page
    <3>2. /\ s \in Page /\ s.pc = "object" /\ s.photos = r.photos /\ s.gone = r.gone /\ s.marked = r.marked /\ s.dialog = r.dialog
          /\ s.del = r.del /\ s.put = r.put /\ s.product = r.product /\ s.picked = r.picked /\ s.key = k
      BY <1>0, <3>1 DEF Page
    <3>3. Set(p, s)
      BY <2>3
    <3>. HIDE DEF s
    <3>4. Fine(s)
      BY <1>0, <2>2, <3>2 DEF Fine, Known, Keyed, Asked, Achieved, Saving
    <3>5. Goes(p, s)
      BY <1>0, <2>2, <3>2, <3>3, <3>4 DEF Goes, Stores
    <3>. QED
      BY <3>5, PageStep
  <2>4. CASE Set(p, Failed([r EXCEPT !.key = k]))
    <3>1. k \in Photo
      BY <1>0 DEF Page
    <3>. QED
      BY <1>0, <2>2, <2>4, <3>1, FailedStep DEF Stores
  <2>. QED
    BY <2>1, <2>3, <2>4 DEF DeleteImage
<1>. QED
  BY <1>1, <1>2, <1>3, <1>4, <1>5

-----------------------------------------------------------------------------
(* The calls that write to a store: only the photo they work on changes.   *)
StoreStep(p, r, k) ==
    /\ r \in Page /\ Set(p, r) /\ UNCHANGED <<products, torn>>
    /\ \A j \in Photo \ {k} : (j \in rows') = (j \in rows) /\ (j \in objects') = (j \in objects)
    /\ rows' \subseteq used' /\ objects' \subseteq used' /\ used' \subseteq Photo
    /\ r.photos = page[p].photos /\ r.gone = page[p].gone /\ r.marked = page[p].marked
    /\ page[p].pc \in {"row", "name"} => page[p].key = k
    /\ (k \in rows') = (k \in objects') \/ (r.key = k /\ r.pc \in {"row", "name"})
    /\ r.pc = "name" => r.key \notin used

LEMMA StoreKeeps ==
    ASSUME IInv, NEW p \in Pages, NEW r, NEW k \in Photo, StoreStep(p, r, k), \A q \in Pages : Fine(page[q])'
    PROVE  IInv'
<1>1. page'[p] = r /\ \A q \in Pages \ {p} : page'[q] = page[q]
  BY DEF StoreStep, Set, IInv, TypeOK
<1>2. TypeOK'
  <2>1. rows' \subseteq Photo /\ objects' \subseteq Photo
    BY DEF StoreStep
  <2>2. page' \in [Pages -> Page]
    BY DEF StoreStep, Set, IInv, TypeOK
  <2>. QED
    BY <2>1, <2>2 DEF StoreStep, IInv, TypeOK
<1>3. \A q \in Pages : Known(page[q]) /\ (page[q].pc = "name" => page[q].key \in used)
  BY DEF IInv, Fine, Keyed
<1>4. \A q, s \in Pages : Unknown(page[q], page[s])'
  <2>1. \A s \in Pages : page'[s].photos = page[s].photos /\ page'[s].gone = page[s].gone /\ page'[s].marked = page[s].marked
    BY <1>1 DEF StoreStep
  <2>2. \A s \in Pages : page[s].photos \subseteq used /\ page[s].gone \subseteq used /\ page[s].marked \subseteq used
    BY <1>3 DEF Known
  <2>. QED
    BY <1>1, <2>1, <2>2 DEF StoreStep, IInv, Unknown
<1>5. \A q, s \in Pages : q # s => Apart(page[q], page[s])'
  BY <1>1, <1>3 DEF StoreStep, IInv, Apart
<1>6. StoresAgree'
  <2>. SUFFICES ASSUME NEW j \in Photo, (j \in rows') # (j \in objects') PROVE j \in torn' \/ Between(j)'
    BY DEF StoresAgree
  <2>1. CASE j = k
    BY <1>1, <2>1 DEF StoreStep, Between
  <2>2. CASE j # k /\ j \in torn
    BY <2>2 DEF StoreStep
  <2>3. CASE j # k /\ Between(j)
    <3>1. PICK q \in Pages : page[q].key = j /\ page[q].pc \in {"row", "name"}
      BY <2>3 DEF Between
    <3>2. q # p
      BY <2>3, <3>1 DEF StoreStep
    <3>. QED
      BY <1>1, <3>1, <3>2 DEF Between
  <2>. QED
    BY <2>1, <2>2, <2>3 DEF StoreStep, IInv, StoresAgree
<1>. QED
  BY <1>2, <1>4, <1>5, <1>6 DEF IInv, StoreStep, StoresAgree

LEMMA DeleteSteps == ASSUME IInv, NEW p \in Pages, DeleteFile(p) \/ DeleteRow(p) PROVE IInv'
<1>. DEFINE r == page[p]
            k == page[p].key
<1>0. r \in Page /\ Fine(r) /\ used \subseteq Photo /\ rows \subseteq used /\ objects \subseteq used
  BY Facts DEF IInv
<1>1. r.pc \in {"object", "row"} /\ k \in r.del /\ k \in r.marked /\ k \in Photo /\ r.product \in Products
      /\ r.del \subseteq r.marked /\ r.put \subseteq r.picked
  BY <1>0 DEF DeleteFile, DeleteRow, Fine, Keyed, Asked, Saving, Page
<1>2. \A q \in Pages : page[q].pc = "name" => page[q].key # k
  BY <1>1 DEF IInv, Unknown
<1>3. CASE DeleteFile(p)
  <2>. DEFINE s == [r EXCEPT !.pc = "row"]
  <2>1. /\ s \in Page /\ s.pc = "row" /\ s.photos = r.photos /\ s.gone = r.gone /\ s.marked = r.marked /\ s.dialog = r.dialog
        /\ s.del = r.del /\ s.put = r.put /\ s.product = r.product /\ s.picked = r.picked /\ s.key = k
    BY <1>0 DEF Page
  <2>2. Set(p, s) /\ UNCHANGED <<products, rows, used, torn>> /\ objects' = objects \ {k} /\ r.pc = "object"
    BY <1>3 DEF DeleteFile
  <2>. HIDE DEF s
  <2>3. page'[p] = s /\ \A q \in Pages \ {p} : page'[q] = page[q]
    BY <2>2 DEF Set, IInv, TypeOK
  <2>4. Fine(page[p])'
    <3>1. Known(page[p])'
      BY <1>0, <2>1, <2>2, <2>3 DEF Fine, Known
    <3>2. Keyed(page[p])' /\ Asked(page[p])'
      BY <1>0, <1>1, <2>1, <2>2, <2>3 DEF Keyed, Asked
    <3>3. Achieved(page[p])'
      BY <1>0, <1>1, <2>1, <2>2, <2>3 DEF Fine, Achieved, Saving
    <3>. QED
      BY <3>1, <3>2, <3>3 DEF Fine
  <2>5. ASSUME NEW q \in Pages \ {p} PROVE Fine(page[q])'
    <3>1. Fine(page[q]) /\ page'[q] = page[q]
      BY <2>3 DEF IInv
    <3>2. Keyed(page[q])'
      BY <1>2, <2>2, <3>1 DEF Fine, Keyed
    <3>. QED
      BY <2>2, <3>1, <3>2 DEF Fine, Known, Asked, Achieved
  <2>6. StoreStep(p, s, k)
    BY <1>0, <1>1, <2>1, <2>2 DEF StoreStep
  <2>. QED
    BY <1>1, <2>4, <2>5, <2>6, StoreKeeps
<1>4. CASE DeleteRow(p) /\ k \in rows
  <2>. DEFINE s == [r EXCEPT !.pc = "next", !.key = None, !.del = @ \ {k}]
  <2>1. /\ s \in Page /\ s.pc = "next" /\ s.photos = r.photos /\ s.gone = r.gone /\ s.marked = r.marked /\ s.dialog = r.dialog
        /\ s.del = r.del \ {k} /\ s.put = r.put /\ s.product = r.product /\ s.picked = r.picked
    BY <1>0 DEF Page
  <2>2. Set(p, s) /\ UNCHANGED <<products, objects, used, torn>> /\ rows' = rows \ {k} /\ r.pc = "row"
    BY <1>4 DEF DeleteRow
  <2>. HIDE DEF s
  <2>3. page'[p] = s /\ \A q \in Pages \ {p} : page'[q] = page[q]
    BY <2>2 DEF Set, IInv, TypeOK
  <2>4. k \notin objects
    BY <1>0, <2>2 DEF Fine, Keyed
  <2>5. Fine(page[p])'
    <3>1. Known(page[p])'
      BY <1>0, <2>1, <2>2, <2>3 DEF Fine, Known
    <3>2. Keyed(page[p])' /\ Asked(page[p])'
      BY <1>1, <2>1, <2>3 DEF Keyed, Asked
    <3>3. (r.marked \ r.del) \cap (rows \cup objects) = {}
      BY <1>0, <2>2 DEF Fine, Achieved, Saving
    <3>4. (s.marked \ s.del) \cap (rows' \cup objects') = {}
      BY <2>1, <2>2, <2>4, <3>3
    <3>5. Achieved(page[p])'
      BY <1>0, <2>1, <2>2, <2>3, <3>4 DEF Fine, Achieved, Saving
    <3>. QED
      BY <3>1, <3>2, <3>5 DEF Fine
  <2>6. ASSUME NEW q \in Pages \ {p} PROVE Fine(page[q])'
    <3>1. Fine(page[q]) /\ page'[q] = page[q]
      BY <2>3 DEF IInv
    <3>. QED
      BY <2>2, <3>1 DEF Fine, Known, Keyed, Asked, Achieved
  <2>7. StoreStep(p, s, k)
    <3>1. \A j \in Photo \ {k} : (j \in rows') = (j \in rows) /\ (j \in objects') = (j \in objects)
      BY <2>2
    <3>2. k \notin rows' /\ k \notin objects' /\ rows' \subseteq used' /\ objects' \subseteq used'
      BY <1>0, <2>2, <2>4
    <3>. QED
      BY <1>0, <2>1, <2>2, <3>1, <3>2 DEF StoreStep
  <2>. QED
    BY <1>1, <2>5, <2>6, <2>7, StoreKeeps
<1>5. CASE DeleteRow(p) /\ k \notin rows
  <2>1. r.pc = "row" /\ Set(p, Failed(r)) /\ UNCHANGED <<products, objects, used, torn>> /\ rows' = rows
    BY <1>5 DEF DeleteRow
  <2>2. k \notin objects
    BY <1>0, <2>1 DEF Fine, Keyed
  <2>3. torn \subseteq torn' /\ torn' \subseteq Photo /\ products' \subseteq Products
    BY <2>1, Facts
  <2>4. (k \in rows) = (k \in objects)
    BY <1>5, <2>2
  <2>. QED
    BY <2>1, <2>3, <2>4, FailedStep
<1>. QED
  BY <1>3, <1>4, <1>5

LEMMA UploadSteps == ASSUME IInv, NEW p \in Pages, NEW f \in Files, UploadFile(p, f) PROVE IInv'
<1>. DEFINE r == page[p]
<1>0. r \in Page /\ Fine(r) /\ used \subseteq Photo /\ rows \subseteq used /\ objects \subseteq used
  BY Facts DEF IInv
<1>1. r.pc = "next" /\ r.del = {} /\ f \in r.put /\ r.product \in Products /\ r.put \subseteq r.picked
  BY <1>0 DEF UploadFile, Fine, Asked, Saving
<1>2. CASE Set(p, Failed(r)) /\ UNCHANGED Stores
  BY <1>1, <1>2, Facts, FailedStep DEF Stores
<1>3. CASE ~(Set(p, Failed(r)) /\ UNCHANGED Stores)
  <2>1. PICK n \in 1 .. Copies :
          LET k == [product |-> r.product, file |-> f, time |-> n] IN
          /\ k \notin used
          /\ objects' = objects \cup {k} /\ used' = used \cup {k}
          /\ Set(p, [r EXCEPT !.pc = "name", !.key = k]) /\ UNCHANGED <<products, rows, torn>>
    BY <1>3 DEF UploadFile, Stores
  <2>. DEFINE k == [product |-> r.product, file |-> f, time |-> n]
              s == [r EXCEPT !.pc = "name", !.key = k]
  <2>2. k \in Photo /\ k.product = r.product
    BY <1>1, <2>1 DEF Photo
  <2>3. /\ s \in Page /\ s.pc = "name" /\ s.photos = r.photos /\ s.gone = r.gone /\ s.marked = r.marked /\ s.dialog = r.dialog
        /\ s.del = r.del /\ s.put = r.put /\ s.product = r.product /\ s.picked = r.picked /\ s.key = k
    BY <1>0, <2>2 DEF Page
  <2>4. /\ k \notin used /\ objects' = objects \cup {k} /\ used' = used \cup {k}
        /\ Set(p, s) /\ UNCHANGED <<products, rows, torn>>
    BY <2>1
  <2>. HIDE DEF s, k
  <2>5. page'[p] = s /\ \A q \in Pages \ {p} : page'[q] = page[q]
    BY <2>4 DEF Set, IInv, TypeOK
  <2>6. Fine(page[p])'
    <3>1. Known(page[p])'
      BY <1>0, <2>3, <2>4, <2>5 DEF Fine, Known
    <3>2. Keyed(page[p])' /\ Asked(page[p])'
      BY <1>0, <1>1, <2>2, <2>3, <2>4, <2>5 DEF Keyed, Asked
    <3>3. (r.marked \ r.del) \cap (rows' \cup objects') = {}
      BY <1>0, <1>1, <2>4 DEF Fine, Known, Achieved, Saving
    <3>4. \A g \in r.picked \ r.put : \E j \in used' : j.product = r.product /\ j.file = g
      BY <1>0, <1>1, <2>4 DEF Fine, Achieved, Saving
    <3>5. Achieved(page[p])'
      BY <2>3, <2>5, <3>3, <3>4 DEF Achieved
    <3>. QED
      BY <3>1, <3>2, <3>5 DEF Fine
  <2>7. ASSUME NEW q \in Pages \ {p} PROVE Fine(page[q])'
    <3>1. Fine(page[q]) /\ page'[q] = page[q]
      BY <2>5 DEF IInv
    <3>2. Known(page[q])' /\ Asked(page[q])'
      BY <2>4, <3>1 DEF Fine, Known, Asked
    <3>3. Keyed(page[q])'
      <4>1. page[q].pc = "row" => page[q].key \in used
        BY <3>1 DEF Fine, Keyed, Asked, Known, Saving
      <4>. QED
        BY <2>4, <3>1, <4>1 DEF Fine, Keyed
    <3>4. Achieved(page[q])'
      BY <2>4, <3>1 DEF Fine, Known, Achieved
    <3>. QED
      BY <3>2, <3>3, <3>4 DEF Fine
  <2>8. StoreStep(p, s, k)
    <3>1. \A j \in Photo \ {k} : (j \in rows') = (j \in rows) /\ (j \in objects') = (j \in objects)
      BY <2>4
    <3>2. rows' \subseteq used' /\ objects' \subseteq used' /\ used' \subseteq Photo
      BY <1>0, <2>2, <2>4
    <3>. QED
      BY <1>1, <2>3, <2>4, <3>1, <3>2 DEF StoreStep
  <2>. QED
    BY <2>2, <2>6, <2>7, <2>8, StoreKeeps
<1>. QED
  BY <1>2, <1>3

LEMMA CreateRowStep == ASSUME IInv, NEW p \in Pages, CreateRow(p) PROVE IInv'
<1>. DEFINE r == page[p]
            k == page[p].key
<1>0. r \in Page /\ Fine(r) /\ used \subseteq Photo /\ rows \subseteq used /\ objects \subseteq used /\ torn \subseteq Photo
  BY Facts DEF IInv
<1>1. /\ r.pc = "name" /\ k \in objects /\ k \notin rows /\ k.product = r.product /\ r.product \in Products
      /\ k \in Photo /\ k \in used /\ r.put \subseteq r.picked /\ r.del \subseteq r.marked
  <2>1. r.pc = "name"
    BY DEF CreateRow
  <2>2. k \in objects /\ k \notin rows /\ k.product = r.product /\ r.product \in Products
        /\ r.put \subseteq r.picked /\ r.del \subseteq r.marked
    BY <1>0, <2>1 DEF Fine, Keyed, Asked, Saving
  <2>. QED
    BY <1>0, <2>1, <2>2
<1>2. \A q \in Pages : k \notin page[q].marked /\ (q # p /\ page[q].pc = "name" => page[q].key # k)
  BY <1>1 DEF IInv, Unknown, Apart
<1>3. CASE k.product \in products
  <2>. DEFINE s == [r EXCEPT !.pc = "next", !.key = None, !.put = @ \ {k.file}]
  <2>1. /\ s \in Page /\ s.pc = "next" /\ s.photos = r.photos /\ s.gone = r.gone /\ s.marked = r.marked /\ s.dialog = r.dialog
        /\ s.del = r.del /\ s.put = r.put \ {k.file} /\ s.product = r.product /\ s.picked = r.picked
    BY <1>0 DEF Page
  <2>2. Set(p, s) /\ UNCHANGED <<products, objects, used, torn>> /\ rows' = rows \cup {k}
    BY <1>3 DEF CreateRow
  <2>. HIDE DEF s
  <2>3. page'[p] = s /\ \A q \in Pages \ {p} : page'[q] = page[q]
    BY <2>2 DEF Set, IInv, TypeOK
  <2>4. Fine(page[p])'
    <3>1. Known(page[p])'
      BY <1>0, <2>1, <2>2, <2>3 DEF Fine, Known
    <3>2. Keyed(page[p])' /\ Asked(page[p])'
      BY <1>1, <2>1, <2>3 DEF Keyed, Asked
    <3>3. (r.marked \ r.del) \cap (rows' \cup objects') = {}
      BY <1>0, <1>1, <1>2, <2>2 DEF Fine, Achieved, Saving
    <3>4. \A g \in r.picked \ (r.put \ {k.file}) : \E j \in used : j.product = r.product /\ j.file = g
      BY <1>0, <1>1 DEF Fine, Achieved, Saving
    <3>5. Achieved(page[p])'
      BY <2>1, <2>2, <2>3, <3>3, <3>4 DEF Achieved
    <3>. QED
      BY <3>1, <3>2, <3>5 DEF Fine
  <2>5. ASSUME NEW q \in Pages \ {p} PROVE Fine(page[q])'
    <3>1. Fine(page[q]) /\ page'[q] = page[q]
      BY <2>3 DEF IInv
    <3>2. Known(page[q])' /\ Asked(page[q])' /\ Keyed(page[q])'
      BY <1>2, <2>2, <3>1 DEF Fine, Known, Asked, Keyed
    <3>3. Achieved(page[q])'
      BY <1>2, <2>2, <3>1 DEF Fine, Achieved
    <3>. QED
      BY <3>2, <3>3 DEF Fine
  <2>6. StoreStep(p, s, k)
    <3>1. \A j \in Photo \ {k} : (j \in rows') = (j \in rows) /\ (j \in objects') = (j \in objects)
      BY <2>2
    <3>2. rows' \subseteq used' /\ objects' \subseteq used' /\ used' \subseteq Photo /\ k \in rows' /\ k \in objects'
      BY <1>0, <1>1, <2>2
    <3>. QED
      BY <1>1, <2>1, <2>2, <3>1, <3>2 DEF StoreStep
  <2>. QED
    BY <1>1, <2>4, <2>5, <2>6, StoreKeeps
<1>4. CASE k.product \notin products
  <2>1. torn' = torn \cup {k} /\ Set(p, Failed(r)) /\ UNCHANGED <<products, rows, objects, used>>
    BY <1>4 DEF CreateRow
  <2>2. torn \subseteq torn' /\ torn' \subseteq Photo /\ k \in torn' /\ products' \subseteq Products
    BY <1>0, <1>1, <2>1, Facts
  <2>. QED
    BY <2>1, <2>2, FailedStep
<1>. QED
  BY <1>3, <1>4

LEMMA RemoveStep == ASSUME IInv, NEW x \in Products, Remove(x) PROVE IInv'
<1>1. /\ products' = products \ {x} /\ rows' = rows \ Of(x) /\ torn' = torn \cup Of(x)
      /\ UNCHANGED <<objects, used, page>> /\ Of(x) \subseteq rows
  BY DEF Remove, Of
<1>2. TypeOK'
  BY <1>1 DEF IInv, TypeOK
<1>3. \A q \in Pages : Fine(page[q])'
  BY <1>1 DEF IInv, Fine, Known, Keyed, Asked, Achieved
<1>4. StoresAgree'
  BY <1>1 DEF IInv, StoresAgree, Between
<1>. QED
  BY <1>1, <1>2, <1>3, <1>4 DEF IInv, Unknown, Apart

LEMMA StepInv == IInv /\ [Next]_vars => IInv'
<1>. SUFFICES ASSUME IInv, [Next]_vars PROVE IInv'
  OBVIOUS
<1>1. ASSUME NEW p \in Pages, Call(p) PROVE IInv'
  BY <1>1, CallSteps, DeleteSteps, UploadSteps, CreateRowStep DEF Call
<1>2. ASSUME NEW p \in Pages, Dialog(p) PROVE IInv'
  BY <1>2, DialogSteps
<1>3. ASSUME NEW x \in Products, Remove(x) PROVE IInv'
  BY <1>3, RemoveStep
<1>4. CASE UNCHANGED vars
  <2>1. UNCHANGED <<products, rows, objects, used, torn, page>>
    BY <1>4 DEF vars
  <2>2. TypeOK' /\ StoresAgree'
    BY <2>1 DEF IInv, TypeOK, StoresAgree, Between
  <2>3. \A q \in Pages : Fine(page[q])'
    BY <2>1 DEF IInv, Fine, Known, Keyed, Asked, Achieved
  <2>. QED
    BY <2>1, <2>2, <2>3 DEF IInv, Unknown, Apart
<1>. QED
  BY <1>1, <1>2, <1>3, <1>4 DEF Next

-----------------------------------------------------------------------------
(* Where a photo may be known, what a call has in hand and what a save has *)
(* done is an invariant of any number of tabs, products and pictures       *)
(* (ProductEditModal, ProductAddModal, ProductsService).                   *)
THEOREM Invariance == Spec => []IInv
BY InitInv, StepInv, PTL DEF Spec

(* Every variable keeps its type.                                          *)
THEOREM TypeCorrect == Spec => []TypeOK
<1>1. IInv => TypeOK
  BY DEF IInv
<1>. QED
  BY <1>1, Invariance, PTL

(* The database and the bucket have the same photos, but for those a call  *)
(* died over, is working on, or whose product was removed, however the     *)
(* deletions and uploads of the tabs overlap (deleteImage, addImage).      *)
THEOREM Photos == Spec => []StoresAgree
<1>1. IInv => StoresAgree
  BY DEF IInv
<1>. QED
  BY <1>1, Invariance, PTL

(* A save that reaches its end has everything done that was asked for when *)
(* it was clicked, whatever its dialog was used for since (handleSave of   *)
(* both dialogs).                                                          *)
THEOREM SavesAreDone == Spec => []SavedIsDone
<1>1. IInv => SavedIsDone
  <2>. SUFFICES ASSUME IInv, NEW p \in Pages, page[p].pc = "done"
       PROVE  /\ page[p].marked \cap (rows \cup objects) = {}
              /\ \A f \in page[p].picked : \E k \in used : k.product = page[p].product /\ k.file = f
    BY DEF SavedIsDone
  <2>1. Asked(page[p]) /\ Achieved(page[p])
    BY DEF IInv, Fine
  <2>2. page[p].del = {} /\ page[p].put = {}
    BY <2>1 DEF Asked
  <2>. QED
    BY <2>1, <2>2 DEF Achieved, Saving
<1>. QED
  BY <1>1, Invariance, PTL
=============================================================================
