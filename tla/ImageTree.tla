----------------------------- MODULE ImageTree ------------------------------
(***************************************************************************)
(* src/fend/src/components/commands/diskimage/DiskImageTreeView.tsx, the   *)
(* tree of disk images by category, with the menu and the selection that   *)
(* DiskImageManagement.tsx keeps for it, and the server's routes that list,*)
(* rename and delete images (api/routers/dispatch.py, lib/disk_images.py). *)
(*                                                                         *)
(* The server lists one image per file name, although directories may have *)
(* more, and finds an image to rename or to delete in that list only.  If  *)
(* a list was generated beforehand it answers with that one.               *)
(*                                                                         *)
(* The categories are asked for once, the images at first and after each   *)
(* request to rename or to delete one.  While either is loading the tree   *)
(* is not rendered, and the dialogs in it lose their state.                *)
(*                                                                         *)
(* React: answers set their state whatever it was before, clicks are       *)
(* rendered at once, and effects run before the next of either.  A handler *)
(* with the rendering and the effects that follow is one step.             *)
(*                                                                         *)
(* Left out: the text of names, and names that begin with a dot or a       *)
(* slash, which the buttons refuse; the popup menu of an image; the box    *)
(* with an error message.                                                  *)
(***************************************************************************)
EXTENDS Naturals, FiniteSets

CONSTANTS
  Names,        \* names of files
  ImageNames,   \* those that end like the name of an image
  Categories,   \* types of images, each of which has a directory
  Order,        \* the place of each of these directories in os.listdir()
  Catalogs,     \* those that /dispatch/restore-types answers with
  FirstImages,  \* images on the disk at first
  ListFiles,    \* lists that may have been generated beforehand, or None
  None,         \* no image, no name, no list
  MaxEvents     \* bound: requests, saved images and failures of a session

Images == [category : Categories, name : Names]

ASSUME ImageTreeAssumption ==
  /\ ImageNames \subseteq Names
  /\ Order \in [Categories -> Nat]
  /\ \A c, d \in Categories : Order[c] = Order[d] => c = d
  /\ Catalogs \subseteq Categories /\ FirstImages \subseteq Images
  /\ ListFiles \subseteq (SUBSET Images) \cup {None}
  /\ None \notin Names \cup Images /\ MaxEvents \in Nat /\ MaxEvents > 1

VARIABLES
  images,       \* server: the files in the directories of the categories
  listFile,     \* server: the list that was generated beforehand, or None
  tree,         \* the state of DiskImageTreeView, see Tree
  rename,       \* the dialog to rename: its state, and the text in its field
  deletable,    \* the dialog to delete: its state is a text that may be deleted
  chosen,       \* DiskImageManagement: the names of the selected images
  command,      \* DiskImageManagement: the command of the menu for the tree
  asks,         \* requests on their way
  asked,        \* number of requests so far
  applied,      \* history: the latest list that was shown
  renewed,      \* history: the list was asked for again
  mishaps       \* history: what went wrong, see the properties

dialogVars == <<rename, deletable>>
parentVars == <<chosen, command>>
askVars    == <<asks, asked>>
history    == <<applied, renewed, mishaps>>
serverVars == <<images, listFile>>
vars == <<serverVars, tree, dialogVars, parentVars, askVars, history>>

Commands == {"expand", "collapse", "selectall", "deselectall"}

Tree == [sources : SUBSET Images, sourcesLoading : BOOLEAN,
         catalogs : SUBSET Categories, catalogsLoading : BOOLEAN,
         expanded : SUBSET Categories, selection : SUBSET Names,
         renameOpen : BOOLEAN, deleteOpen : BOOLEAN, target : Images \cup {None}]

\* A request; what the answer to it says once it is served.
Ask == [id : 1 .. MaxEvents, kind : {"sources", "catalogs", "rename", "delete"},
        image : Images \cup {None}, to : Names \cup {None},
        served : BOOLEAN, ok : BOOLEAN, images : SUBSET Images]
Request(id, kind, image, to) ==
  [id |-> id, kind |-> kind, image |-> image, to |-> to,
   served |-> FALSE, ok |-> TRUE, images |-> {}]

NoRename == [value |-> None, field |-> None]
FirstTree == [sources |-> {}, sourcesLoading |-> TRUE, catalogs |-> {},
              catalogsLoading |-> TRUE, expanded |-> {}, selection |-> {},
              renameOpen |-> FALSE, deleteOpen |-> FALSE, target |-> None]

Init ==
  /\ images = FirstImages /\ listFile \in ListFiles
  /\ tree = FirstTree
  /\ rename = NoRename /\ deletable = FALSE
  /\ chosen = {} /\ command = "none"
  /\ asks = {Request(1, "catalogs", None, None), Request(2, "sources", None, None)}
  /\ asked = 2 /\ applied = 0 /\ renewed = FALSE /\ mishaps = {}

Room == asked + Cardinality(mishaps \ {"late"}) < MaxEvents

(***************************************************************************)
(* The server.  Of the images that have the same name the one in the last  *)
(* directory is listed.  Renaming to a name that exists replaces the other *)
(* image of the category, and renaming what is not listed is no error.  A  *)
(* deletion that succeeds is answered without a body.                      *)
(***************************************************************************)
Listing ==
  {i \in images : /\ i.name \in ImageNames
                  /\ \A j \in images : j.name = i.name => Order[j.category] <= Order[i.category]}

DiskImages == IF listFile = None THEN Listing ELSE listFile

Renamed(r) == IF r.image \in Listing
              THEN (images \ {r.image}) \cup {[r.image EXCEPT !.name = r.to]}
              ELSE images

\* What the tree is not told of, if it makes a difference.
Unseen == IF DiskImages' = DiskImages THEN {} ELSE {"unseen"}

ServeList(r) ==
  /\ r.kind \in {"sources", "catalogs"}
  /\ asks' = (asks \ {r}) \cup {[r EXCEPT !.served = TRUE, !.images = DiskImages]}
  /\ UNCHANGED <<images, mishaps>>

ServeRename(r) ==
  /\ r.kind = "rename"
  /\ asks' = (asks \ {r}) \cup {[r EXCEPT !.served = TRUE]}
  /\ images' \in {Renamed(r), images}
  /\ UNCHANGED mishaps

RouteDelete(r) ==
  /\ r.kind = "delete"
  /\ \E ok \in BOOLEAN :
       /\ ok => r.image \in Listing
       /\ asks' = (asks \ {r}) \cup {[r EXCEPT !.served = TRUE, !.ok = ok]}
       /\ images' = IF ok THEN images \ {r.image} ELSE images
  /\ mishaps' = mishaps \cup Unseen

Serve(r) ==
  /\ r \in asks /\ ~ r.served
  /\ UNCHANGED <<listFile, tree, dialogVars, parentVars, asked, applied, renewed>>
  /\ ServeList(r) \/ ServeRename(r) \/ RouteDelete(r)

\* Another tab of the page may save an image.  The tree is not told.
SaveImage ==
  /\ Room /\ "unseen" \notin mishaps
  /\ \E i \in Images \ images : i.name \in ImageNames /\ images' = images \cup {i}
  /\ UNCHANGED <<listFile, tree, dialogVars, parentVars, askVars, applied, renewed>>
  /\ mishaps' = mishaps \cup Unseen
-----------------------------------------------------------------------------
(***************************************************************************)
(* Rendering and effects.                                                  *)
(***************************************************************************)
Visible(t) == ~ t.sourcesLoading /\ ~ t.catalogsLoading

\* updateCatalogIndex() and the list that is made of it: the images of each
\* category of the catalog; those of other categories are not in the tree.
InTree(t) == {i \in t.sources : i.category \in t.catalogs}
OnScreen(t) == {i \in InTree(t) : i.category \in t.expanded}

NameOf(image) == IF image = None THEN None ELSE image.name

\* The state t after an answer.  When the tree comes back on the screen, the dialogs
\* start with the name of the image that was the target last.
Loaded(t) ==
  /\ tree' = IF Visible(t) THEN [t EXCEPT !.expanded = {}] ELSE t
  /\ IF Visible(t) /\ ~ Visible(tree)
     THEN /\ rename' = [value |-> NameOf(t.target),
                        field |-> IF t.renameOpen THEN NameOf(t.target) ELSE None]
          /\ deletable' = (t.target # None)
     ELSE UNCHANGED dialogVars

Unmounted == rename' = NoRename /\ deletable' = FALSE

\* The dialog to rename is closed: its state stays, its field does not.
FieldGone == rename' = [rename EXCEPT !.field = None] /\ UNCHANGED deletable

\* fetchSources(), while the requests "before" are on their way.  The list that is
\* asked for will have what happened so far.
FetchSources(before) ==
  /\ Room /\ asked' = asked + 1
  /\ asks' = before \cup {Request(asked', "sources", None, None)}
  /\ renewed' = TRUE /\ mishaps' = mishaps \ {"unseen", "late"}
  /\ Unmounted

(***************************************************************************)
(* Answers.                                                                *)
(***************************************************************************)
ReceiveCatalogs(r) ==
  /\ r \in asks /\ r.kind = "catalogs" /\ r.served
  /\ asks' = asks \ {r}
  /\ Loaded([tree EXCEPT !.catalogs = Catalogs, !.catalogsLoading = FALSE])
  /\ UNCHANGED <<serverVars, parentVars, asked, history>>

ReceiveSources(r) ==
  /\ r \in asks /\ r.kind = "sources" /\ r.served
  /\ asks' = asks \ {r}
  /\ Loaded([tree EXCEPT !.sources = r.images, !.sourcesLoading = FALSE])
  /\ applied' = IF r.id < applied THEN applied ELSE r.id
  /\ mishaps' = IF r.id < applied THEN mishaps \cup {"late"} ELSE mishaps
  /\ UNCHANGED <<serverVars, parentVars, asked, renewed>>

\* mutant: the list is not asked for again
ReceiveRenameOnly(r) ==
  /\ r \in asks /\ r.kind = "rename" /\ r.served
  /\ asks' = asks \ {r}
  /\ tree' = [tree EXCEPT !.renameOpen = FALSE]
  /\ UNCHANGED <<serverVars, dialogVars, parentVars, asked, history>>

\* submitRename(): whatever the answer says, it is taken for success.
ReceiveRename(r) ==
  /\ r \in asks /\ r.kind = "rename" /\ r.served
  /\ FetchSources(asks \ {r})
  /\ tree' = [tree EXCEPT !.sourcesLoading = TRUE, !.renameOpen = FALSE]
  /\ UNCHANGED <<serverVars, parentVars, applied>>

\* submitDelete(): the answer without a body is no JSON, and taken for a failure;
\* the answer that says that it failed is taken for success.
ReceiveDelete(r) ==
  /\ r \in asks /\ r.kind = "delete" /\ r.served
  /\ IF r.ok
     THEN /\ asks' = asks \ {r}
          /\ tree' = [tree EXCEPT !.deleteOpen = FALSE]
          /\ UNCHANGED <<dialogVars, asked, renewed, mishaps>>
     ELSE /\ FetchSources(asks \ {r})
          /\ tree' = [tree EXCEPT !.sourcesLoading = TRUE,
                                  !.deleteOpen = FALSE]
  /\ UNCHANGED <<serverVars, parentVars, applied>>

\* The answer gets lost, before or after the request was served.  The images are
\* then loading for ever; the categories are not.
AskFails(r) ==
  /\ r \in asks /\ Room /\ "failed" \notin mishaps
  /\ asks' = asks \ {r} /\ mishaps' = mishaps \cup {"failed"}
  /\ CASE r.kind = "sources" -> UNCHANGED <<tree, dialogVars>>
       [] r.kind = "catalogs" -> Loaded([tree EXCEPT !.catalogsLoading = FALSE])
       [] r.kind = "rename" ->
            /\ tree' = [tree EXCEPT !.renameOpen = FALSE]
            /\ FieldGone
       [] r.kind = "delete" ->
            /\ tree' = [tree EXCEPT !.deleteOpen = FALSE]
            /\ UNCHANGED dialogVars
  /\ UNCHANGED <<serverVars, parentVars, asked, applied, renewed>>
-----------------------------------------------------------------------------
(***************************************************************************)
(* The user, who cannot click on the tree or the menu while a dialog is    *)
(* open.                                                                   *)
(***************************************************************************)
DialogOpen == Visible(tree) /\ (tree.renameOpen \/ tree.deleteOpen)
Click == ~ DialogOpen /\ UNCHANGED <<serverVars, askVars, history>>

OnCatalogClick(c) ==
  /\ Click /\ Visible(tree) /\ c \in tree.catalogs
  /\ tree' = [tree EXCEPT !.expanded = IF c \in @ THEN @ \ {c} ELSE @ \cup {c}]
  /\ UNCHANGED <<dialogVars, parentVars>>

\* The check box, and the popup menu, of an image that is on the screen.
Checked(t, i) == i.name \in t.selection
AtItem(i) == Click /\ Visible(tree) /\ i \in OnScreen(tree)

\* Tree and owner have a selection each; a request to sync sends the owner's.
SyncSources == chosen
Select(names) == tree' = [tree EXCEPT !.selection = names] /\ chosen' = names

\* mutant: the check box of an image has no value
SelectionChangedNameless(i) ==
  /\ AtItem(i)
  /\ Select(tree.selection \cup {None})
  /\ UNCHANGED <<dialogVars, command>>

SelectionChanged(i) ==
  /\ AtItem(i)
  /\ Select(IF Checked(tree, i) THEN tree.selection \ {i.name}
                                         ELSE tree.selection \cup {i.name})
  /\ UNCHANGED <<dialogVars, command>>

\* mutant: the tree forgets its selection, and the owner is not told
ExecuteQuietly(c) ==
  CASE c = "expand"   -> tree' = [tree EXCEPT !.expanded = tree.catalogs] /\ UNCHANGED chosen
    [] c = "collapse" -> tree' = [tree EXCEPT !.expanded = {}] /\ UNCHANGED chosen
    [] c = "selectall" -> Select({i.name : i \in tree.sources})
    [] c = "deselectall" -> tree' = [tree EXCEPT !.selection = {}] /\ UNCHANGED chosen

Execute(c) ==
  CASE c = "expand"   -> tree' = [tree EXCEPT !.expanded = tree.catalogs] /\ UNCHANGED chosen
    [] c = "collapse" -> tree' = [tree EXCEPT !.expanded = {}] /\ UNCHANGED chosen
    [] c = "selectall" -> Select({i.name : i \in tree.sources})
    [] c = "deselectall" -> Select({})

\* expandCats() and selectAll(), and the effect that depends on the command only:
\* a command that is given while the tree is loading stays, and has no effect.
MenuCommand(c) ==
  /\ Click /\ c # command
  /\ IF Visible(tree) THEN Execute(c) /\ command' = "none"
                      ELSE command' = c /\ UNCHANGED <<tree, chosen>>
  /\ UNCHANGED dialogVars

\* The field of the dialog shows the name of the image, its state is what it was.
HandleRenameCommand(i) ==
  /\ AtItem(i)
  /\ tree' = [tree EXCEPT !.target = i, !.renameOpen = TRUE]
  /\ rename' = [rename EXCEPT !.field = i.name]
  /\ UNCHANGED <<deletable, parentVars>>

HandleDeleteCommand(i) ==
  /\ AtItem(i)
  /\ tree' = [tree EXCEPT !.target = i, !.deleteOpen = TRUE]
  /\ UNCHANGED <<rename, deletable, parentVars>>

(***************************************************************************)
(* The dialogs.  The field of the one to delete cannot be changed: typing  *)
(* in it changes only the state.                                           *)
(***************************************************************************)
Renaming == Visible(tree) /\ tree.renameOpen
Deleting == Visible(tree) /\ tree.deleteOpen

TypeName(n) ==
  /\ Renaming
  /\ rename' = [value |-> n, field |-> n]
  /\ UNCHANGED <<serverVars, tree, deletable, parentVars, askVars, history>>

TypeAnything ==
  /\ Deleting
  /\ deletable' \in BOOLEAN
  /\ UNCHANGED <<serverVars, tree, rename, parentVars, askVars, history>>

HandleClose ==
  /\ DialogOpen
  /\ tree' = [tree EXCEPT !.renameOpen = FALSE, !.deleteOpen = FALSE]
  /\ FieldGone
  /\ UNCHANGED <<serverVars, parentVars, askVars, history>>

Submit(kind, to) ==
  /\ Room /\ asked' = asked + 1
  /\ asks' = asks \cup {Request(asked', kind, tree.target, to)}
  /\ FieldGone
  /\ UNCHANGED <<serverVars, parentVars, history>>

HandleRename ==
  /\ Renaming /\ rename.value \notin {None, tree.target.name}
  /\ Submit("rename", rename.value)
  /\ tree' = [tree EXCEPT !.renameOpen = FALSE]

HandleDelete ==
  /\ Deleting /\ deletable
  /\ Submit("delete", None)
  /\ tree' = [tree EXCEPT !.deleteOpen = FALSE]
-----------------------------------------------------------------------------
Server == SaveImage \/ \E r \in asks : Serve(r)
Answers ==
  \E r \in asks : \/ ReceiveCatalogs(r) \/ ReceiveSources(r) \/ ReceiveRename(r)
                  \/ ReceiveDelete(r) \/ AskFails(r)
User ==
  \/ \E c \in Categories : OnCatalogClick(c)
  \/ \E c \in Commands : MenuCommand(c)
  \/ \E i \in tree.sources :
       SelectionChanged(i) \/ HandleRenameCommand(i) \/ HandleDeleteCommand(i)
  \/ \E n \in Names : TypeName(n)
  \/ TypeAnything \/ HandleClose \/ HandleRename \/ HandleDelete

Next == Server \/ Answers \/ User

Spec == Init /\ [][Next]_vars
-----------------------------------------------------------------------------
(***************************************************************************)
(* Type correctness.                                                       *)
(***************************************************************************)
TypeOK ==
  /\ images \subseteq Images /\ listFile \in (SUBSET Images) \cup {None}
  /\ tree \in Tree
  /\ rename \in [value : Names \cup {None}, field : Names \cup {None}]
  /\ deletable \in BOOLEAN
  /\ chosen \subseteq Names /\ command \in Commands \cup {"none"}
  /\ asks \subseteq Ask /\ asked \in 2 .. MaxEvents /\ applied \in 0 .. asked
  /\ renewed \in BOOLEAN /\ mishaps \subseteq {"unseen", "late", "failed"}

\* When no answer is awaited and no request failed, the tree is on the screen, in
\* whatever order the answers came (DiskImageTreeView.tsx:436-475).  It then has
\* the images that the server lists, under their categories, unless since the
\* list was asked for last it has changed by an image that was saved or deleted,
\* or was overtaken by an older list.
TreeCatchesUp ==
  asks = {} /\ "failed" \notin mishaps =>
    /\ Visible(tree)
    /\ mishaps = {} => InTree(tree) = {i \in DiskImages : i.category \in Catalogs}

\* A request to sync sends the names that the tree shows as checked, and until the
\* list is asked for again they are names of images in it (after that they may be
\* names of images that are gone, which are sent all the same).
OwnerKnowsSelection ==
  /\ SyncSources = tree.selection
  /\ ~ renewed => SyncSources \subseteq {i.name : i \in tree.sources}

=============================================================================
