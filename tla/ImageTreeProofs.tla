-------------------------- MODULE ImageTreeProofs ---------------------------
(***************************************************************************)
(* What the tree of disk images promises, for every set of names and       *)
(* categories and any number of requests.                                  *)
(***************************************************************************)
EXTENDS ImageTree, FiniteSetTheorems, TLAPS

\* Requests are numbered, and a request to rename has a name to rename to.
AsksMakeSense ==
  \A r \in asks : r.id <= asked /\ (r.kind = "rename" => r.to \in Names)

TypeInv == TypeOK /\ AsksMakeSense

\* What the bound on the events leaves for requests.
LEMMA RoomForOne ==
  ASSUME TypeOK, Room
  PROVE  asked + 1 \in 2 .. MaxEvents /\ asked + 1 \in 1 .. MaxEvents
<1>1. IsFiniteSet({"unseen", "late", "failed"})
  <2>1. IsFiniteSet({} \cup {"unseen"})
    BY FS_EmptySet, FS_AddElement
  <2>2. IsFiniteSet(({} \cup {"unseen"}) \cup {"late"})
    BY <2>1, FS_AddElement
  <2>3. IsFiniteSet((({} \cup {"unseen"}) \cup {"late"}) \cup {"failed"})
    BY <2>2, FS_AddElement
  <2>4. (({} \cup {"unseen"}) \cup {"late"}) \cup {"failed"} = {"unseen", "late", "failed"}
    OBVIOUS
  <2> QED BY <2>3, <2>4
<1>2. mishaps \ {"late"} \subseteq {"unseen", "late", "failed"}
  BY DEF TypeOK
<1>3. Cardinality(mishaps \ {"late"}) \in Nat
  BY <1>1, <1>2, FS_Subset, FS_CardinalityType
<1> QED BY <1>3, ImageTreeAssumption DEF TypeOK, Room

LEMMA RequestType ==
  ASSUME NEW id \in 1 .. MaxEvents, NEW kind \in {"sources", "catalogs", "rename", "delete"},
         NEW image \in Images \cup {None}, NEW to \in Names \cup {None}
  PROVE  Request(id, kind, image, to) \in Ask
BY DEF Request, Ask

LEMMA TypeInit == Init => TypeInv
<1> SUFFICES ASSUME Init PROVE TypeInv
  OBVIOUS
<1>1. FirstTree \in Tree
  BY DEF FirstTree, Tree
<1>2. asks \subseteq Ask
  BY RequestType, ImageTreeAssumption DEF Init
<1>3. AsksMakeSense
  BY DEF Init, Request, AsksMakeSense
<1>4. asked \in 2 .. MaxEvents /\ applied \in 0 .. asked
  BY ImageTreeAssumption DEF Init
<1>5. images \subseteq Images /\ listFile \in (SUBSET Images) \cup {None}
  BY ImageTreeAssumption DEF Init
<1> QED BY <1>1, <1>2, <1>3, <1>4, <1>5 DEF Init, TypeInv, TypeOK, NoRename

LEMMA NameOfType == \A i \in Images \cup {None} : NameOf(i) \in Names \cup {None}
BY DEF NameOf, Images

LEMMA LoadedType ==
  ASSUME TypeOK, NEW t \in Tree, Loaded(t)
  PROVE  /\ tree' \in Tree
         /\ rename' \in [value : Names \cup {None}, field : Names \cup {None}]
         /\ deletable' \in BOOLEAN
<1>1. tree' \in Tree
  BY DEF Loaded, Tree
<1>2. NameOf(t.target) \in Names \cup {None}
  BY NameOfType DEF Tree
<1>3. CASE Visible(t) /\ ~ Visible(tree)
  BY <1>1, <1>2, <1>3 DEF Loaded
<1>4. CASE ~ (Visible(t) /\ ~ Visible(tree))
  BY <1>1, <1>4 DEF Loaded, TypeOK, dialogVars
<1> QED BY <1>3, <1>4

LEMMA FetchType ==
  ASSUME TypeOK, NEW before \in SUBSET asks, FetchSources(before)
  PROVE  /\ asks' \subseteq Ask /\ asked' \in 2 .. MaxEvents /\ asked' = asked + 1
         /\ renewed' \in BOOLEAN /\ mishaps' \subseteq {"unseen", "late", "failed"}
         /\ rename' \in [value : Names \cup {None}, field : Names \cup {None}]
         /\ deletable' \in BOOLEAN
<1>1. asked' = asked + 1 /\ asked' \in 2 .. MaxEvents /\ asked' \in 1 .. MaxEvents
  BY RoomForOne DEF FetchSources
<1>2. asks' \subseteq Ask
  BY <1>1, RequestType DEF FetchSources, TypeOK
<1>3. mishaps' \subseteq {"unseen", "late", "failed"}
  BY DEF FetchSources, TypeOK
<1> QED BY <1>1, <1>2, <1>3 DEF FetchSources, Unmounted, NoRename

\* What is listed are images.
LEMMA ListingType == TypeOK => Listing \subseteq images /\ DiskImages \subseteq Images
<1> SUFFICES ASSUME TypeOK PROVE Listing \subseteq images /\ DiskImages \subseteq Images
  OBVIOUS
<1>1. Listing \subseteq images
  BY DEF Listing
<1>2. images \subseteq Images /\ (listFile # None => listFile \subseteq Images)
  BY DEF TypeOK
<1> QED BY <1>1, <1>2 DEF DiskImages

LEMMA UnseenType == Unseen \subseteq {"unseen"}
BY DEF Unseen

LEMMA TypeNext == TypeInv /\ [Next]_vars => TypeOK'
<1> SUFFICES ASSUME TypeOK, AsksMakeSense, [Next]_vars PROVE TypeOK'
  BY DEF TypeInv
<1> USE DEF serverVars, dialogVars, parentVars, askVars, history
<1>1. CASE SaveImage
  BY <1>1, UnseenType DEF SaveImage, TypeOK
<1>2. ASSUME NEW r \in asks, Serve(r) PROVE TypeOK'
  <2> USE <1>2 DEF Serve
  <2>1. r \in Ask
    BY DEF TypeOK
  <2>2. CASE ServeList(r)
    <3>1. [r EXCEPT !.served = TRUE, !.images = DiskImages] \in Ask
      BY <2>1, ListingType DEF Ask
    <3> QED BY <2>2, <3>1 DEF ServeList, TypeOK
  <2>3. CASE ServeRename(r)
    <3>1. Renamed(r) \subseteq Images
      <4>1. r.to \in Names
        BY <2>3 DEF ServeRename, AsksMakeSense
      <4>2. r.image \in Listing => [r.image EXCEPT !.name = r.to] \in Images
        BY <4>1, ListingType DEF TypeOK, Images
      <4> QED BY <4>2 DEF Renamed, TypeOK
    <3>2. [r EXCEPT !.served = TRUE] \in Ask
      BY <2>1 DEF Ask
    <3> QED BY <2>3, <3>1, <3>2 DEF ServeRename, TypeOK
  <2>4. CASE RouteDelete(r)
    <3>1. \A ok \in BOOLEAN : [r EXCEPT !.served = TRUE, !.ok = ok] \in Ask
      BY <2>1 DEF Ask
    <3>2. asks' \subseteq Ask /\ images' \subseteq Images
      BY <2>4, <3>1 DEF RouteDelete, TypeOK
    <3> QED BY <2>4, <3>2, UnseenType DEF RouteDelete, TypeOK
  <2> QED BY <2>2, <2>3, <2>4
<1>3. ASSUME NEW r \in asks, ReceiveCatalogs(r) PROVE TypeOK'
  <2>1. [tree EXCEPT !.catalogs = Catalogs, !.catalogsLoading = FALSE] \in Tree
    BY ImageTreeAssumption DEF TypeOK, Tree
  <2> QED BY <1>3, <2>1, LoadedType DEF ReceiveCatalogs, TypeOK
<1>4. ASSUME NEW r \in asks, ReceiveSources(r) PROVE TypeOK'
  <2>1. r \in Ask /\ r.id \in 0 .. asked
    BY DEF TypeOK, Ask, AsksMakeSense
  <2>2. [tree EXCEPT !.sources = r.images, !.sourcesLoading = FALSE] \in Tree
    BY <2>1 DEF TypeOK, Tree, Ask
  <2>3. /\ tree' \in Tree /\ deletable' \in BOOLEAN
        /\ rename' \in [value : Names \cup {None}, field : Names \cup {None}]
    BY <1>4, <2>2, LoadedType DEF ReceiveSources
  <2> QED BY <1>4, <2>1, <2>3 DEF ReceiveSources, TypeOK
<1>5. ASSUME NEW r \in asks, ReceiveRename(r) PROVE TypeOK'
  <2>1. [tree EXCEPT !.sourcesLoading = TRUE, !.renameOpen = FALSE] \in Tree
    BY DEF TypeOK, Tree
  <2> QED BY <1>5, <2>1, FetchType DEF ReceiveRename, TypeOK
<1>6. ASSUME NEW r \in asks, ReceiveDelete(r) PROVE TypeOK'
  <2>1. /\ [tree EXCEPT !.deleteOpen = FALSE] \in Tree
        /\ [tree EXCEPT !.sourcesLoading = TRUE, !.deleteOpen = FALSE] \in Tree
    BY DEF TypeOK, Tree
  <2>2. CASE r.ok
    BY <1>6, <2>1, <2>2 DEF ReceiveDelete, TypeOK
  <2>3. CASE ~ r.ok
    BY <1>6, <2>1, <2>3, FetchType DEF ReceiveDelete, TypeOK
  <2> QED BY <2>2, <2>3
<1>7. ASSUME NEW r \in asks, AskFails(r) PROVE TypeOK'
  <2>1. /\ [tree EXCEPT !.catalogsLoading = FALSE] \in Tree
        /\ [tree EXCEPT !.renameOpen = FALSE] \in Tree
        /\ [tree EXCEPT !.deleteOpen = FALSE] \in Tree
    BY DEF TypeOK, Tree
  <2>2. r.kind \in {"sources", "catalogs", "rename", "delete"}
    BY DEF TypeOK, Ask
  <2>3. /\ tree' \in Tree /\ deletable' \in BOOLEAN
        /\ rename' \in [value : Names \cup {None}, field : Names \cup {None}]
    <3>1. CASE r.kind = "sources"
      BY <1>7, <3>1 DEF AskFails, TypeOK
    <3>2. CASE r.kind = "catalogs"
      BY <1>7, <2>1, <3>2, LoadedType DEF AskFails
    <3>3. CASE r.kind = "rename"
      BY <1>7, <2>1, <3>3 DEF AskFails, FieldGone, TypeOK
    <3>4. CASE r.kind = "delete"
      BY <1>7, <2>1, <3>4 DEF AskFails, TypeOK
    <3> QED BY <2>2, <3>1, <3>2, <3>3, <3>4
  <2> QED BY <1>7, <2>3 DEF AskFails, TypeOK
<1>8. ASSUME NEW c \in Categories, OnCatalogClick(c) PROVE TypeOK'
  BY <1>8 DEF OnCatalogClick, Click, TypeOK, Tree
<1>9. ASSUME NEW c \in Commands, MenuCommand(c) PROVE TypeOK'
  <2>1. {i.name : i \in tree.sources} \subseteq Names
    BY DEF TypeOK, Tree, Images
  <2>2. tree' \in Tree /\ chosen' \subseteq Names
    <3>1. CASE ~ Visible(tree)
      BY <1>9, <3>1 DEF MenuCommand, TypeOK
    <3>2. CASE Visible(tree) /\ c \in {"expand", "collapse"}
      BY <1>9, <3>2, ZenonT(60) DEF MenuCommand, Execute, TypeOK, Tree
    <3>3. CASE Visible(tree) /\ c \in {"selectall", "deselectall"}
      BY <1>9, <2>1, <3>3, ZenonT(60) DEF MenuCommand, Execute, Select, TypeOK, Tree
    <3> QED BY <3>1, <3>2, <3>3 DEF Commands
  <2> QED BY <1>9, <2>2 DEF MenuCommand, Click, TypeOK
<1>10. ASSUME NEW i \in tree.sources, SelectionChanged(i) PROVE TypeOK'
  <2>1. i.name \in Names
    BY DEF TypeOK, Tree, Images
  <2> QED BY <1>10, <2>1 DEF SelectionChanged, AtItem, Click, Select, TypeOK, Tree
<1>11. ASSUME NEW i \in tree.sources, HandleRenameCommand(i) PROVE TypeOK'
  <2>1. i \in Images /\ i.name \in Names
    BY DEF TypeOK, Tree, Images
  <2> QED BY <1>11, <2>1 DEF HandleRenameCommand, AtItem, Click, TypeOK, Tree
<1>12. ASSUME NEW i \in tree.sources, HandleDeleteCommand(i) PROVE TypeOK'
  BY <1>12 DEF HandleDeleteCommand, AtItem, Click, TypeOK, Tree
<1>13. ASSUME NEW n \in Names, TypeName(n) PROVE TypeOK'
  BY <1>13 DEF TypeName, TypeOK
<1>14. CASE TypeAnything
  BY <1>14 DEF TypeAnything, TypeOK
<1>15. CASE HandleClose
  BY <1>15 DEF HandleClose, FieldGone, TypeOK, Tree
<1>16. CASE HandleRename
  <2>1. tree.target \in Images \cup {None} /\ rename.value \in Names \cup {None}
    BY DEF TypeOK, Tree
  <2>2. asks' \subseteq Ask /\ asked' \in 2 .. MaxEvents
    BY <1>16, <2>1, RoomForOne, RequestType DEF HandleRename, Submit, TypeOK
  <2>3. tree' \in Tree
    BY <1>16 DEF HandleRename, TypeOK, Tree
  <2> QED BY <1>16, <2>2, <2>3 DEF HandleRename, Submit, FieldGone, TypeOK
<1>17. CASE HandleDelete
  <2>1. tree.target \in Images \cup {None}
    BY DEF TypeOK, Tree
  <2>2. asks' \subseteq Ask /\ asked' \in 2 .. MaxEvents
    <3>1. Room /\ asked' = asked + 1 /\ asks' = asks \cup {Request(asked', "delete", tree.target, None)}
      BY <1>17 DEF HandleDelete, Submit
    <3>2. Request(asked', "delete", tree.target, None) \in Ask
      BY <2>1, <3>1, RoomForOne, RequestType
    <3> QED BY <3>1, <3>2, RoomForOne DEF TypeOK
  <2>3. tree' \in Tree
    BY <1>17 DEF HandleDelete, TypeOK, Tree
  <2> QED BY <1>17, <2>2, <2>3 DEF HandleDelete, Submit, FieldGone, TypeOK
<1>18. CASE UNCHANGED vars
  BY <1>18 DEF vars, TypeOK
<1> QED
  BY <1>1, <1>2, <1>3, <1>4, <1>5, <1>6, <1>7, <1>8, <1>9, <1>10, <1>11, <1>12, <1>13, <1>14,
     <1>15, <1>16, <1>17, <1>18
  DEF Next, Server, Answers, User

\* What the server answers belongs to the request, and a list is what it lists.
LEMMA ServedRequest ==
  ASSUME TypeOK, NEW r \in asks, Serve(r)
  PROVE  \E s \in Ask : /\ s.id = r.id /\ s.kind = r.kind /\ s.to = r.to
                        /\ r.kind \in {"sources", "catalogs"} => s.images = DiskImages
                        /\ asks' = (asks \ {r}) \cup {s}
<1>1. r \in Ask
  BY DEF TypeOK
<1>2. CASE ServeList(r)
  <2>1. [r EXCEPT !.served = TRUE, !.images = DiskImages] \in Ask
    BY <1>1, ListingType DEF Ask
  <2> QED BY <1>1, <1>2, <2>1 DEF ServeList, Ask
<1>3. CASE ServeRename(r)
  <2>1. [r EXCEPT !.served = TRUE] \in Ask
    BY <1>1 DEF Ask
  <2> QED BY <1>1, <1>3, <2>1 DEF ServeRename, Ask
<1>4. CASE RouteDelete(r)
  <2>1. PICK ok \in BOOLEAN : asks' = (asks \ {r}) \cup {[r EXCEPT !.served = TRUE, !.ok = ok]}
    BY <1>4 DEF RouteDelete
  <2>2. [r EXCEPT !.served = TRUE, !.ok = ok] \in Ask
    BY <1>1 DEF Ask
  <2> QED BY <1>1, <1>4, <2>1, <2>2 DEF RouteDelete, Ask
<1> QED BY <1>2, <1>3, <1>4 DEF Serve

LEMMA AsksNext == TypeInv /\ [Next]_vars => AsksMakeSense'
<1> SUFFICES ASSUME TypeOK, AsksMakeSense, [Next]_vars PROVE AsksMakeSense'
  BY DEF TypeInv
<1> USE DEF serverVars, dialogVars, parentVars, askVars, history
<1>1. ASSUME NEW r \in asks, Serve(r) PROVE AsksMakeSense'
  <2>1. r \in Ask
    BY DEF TypeOK
  <2>2. PICK s \in Ask : s.id = r.id /\ s.kind = r.kind /\ s.to = r.to /\ asks' = (asks \ {r}) \cup {s}
    BY <1>1, ServedRequest
  <2> QED BY <1>1, <2>2 DEF Serve, AsksMakeSense
<1>2. ASSUME NEW r \in asks, FetchSources(asks \ {r}) PROVE AsksMakeSense'
  <2>1. asked \in Nat /\ asked' = asked + 1
    BY <1>2 DEF TypeOK, FetchSources
  <2>2. \A x \in asks : x.id <= asked'
    BY <2>1 DEF TypeOK, Ask, AsksMakeSense
  <2> QED BY <1>2, <2>1, <2>2 DEF FetchSources, Request, AsksMakeSense
<1>3. ASSUME NEW r \in asks, asks' = asks \ {r}, asked' = asked PROVE AsksMakeSense'
  BY <1>3 DEF AsksMakeSense
<1>4. ASSUME UNCHANGED <<asks, asked>> PROVE AsksMakeSense'
  BY <1>4 DEF AsksMakeSense
<1>5. ASSUME NEW kind, NEW to, kind = "rename" => to \in Names, Submit(kind, to) PROVE AsksMakeSense'
  <2>1. asked \in Nat /\ asked' = asked + 1
    BY <1>5 DEF TypeOK, Submit
  <2>2. \A x \in asks : x.id <= asked'
    BY <2>1 DEF TypeOK, Ask, AsksMakeSense
  <2> QED BY <1>5, <2>1, <2>2 DEF Submit, Request, AsksMakeSense
<1>6. CASE HandleRename
  <2>1. rename.value \in Names
    BY <1>6 DEF HandleRename, TypeOK
  <2> QED BY <1>5, <1>6, <2>1 DEF HandleRename
<1>7. CASE HandleDelete
  BY <1>5, <1>7 DEF HandleDelete
<1>8. CASE \E r \in asks : \/ ReceiveCatalogs(r) \/ ReceiveSources(r) \/ ReceiveRename(r)
                           \/ ReceiveDelete(r) \/ AskFails(r)
  BY <1>2, <1>3, <1>8 DEF ReceiveCatalogs, ReceiveSources, ReceiveRename, ReceiveDelete, AskFails
<1>9. CASE SaveImage
  BY <1>4, <1>9 DEF SaveImage
<1>10. CASE \/ \E c \in Categories : OnCatalogClick(c)
            \/ \E c \in Commands : MenuCommand(c)
            \/ \E i \in tree.sources :
                 SelectionChanged(i) \/ HandleRenameCommand(i) \/ HandleDeleteCommand(i)
  BY <1>4, <1>10 DEF OnCatalogClick, MenuCommand, SelectionChanged, HandleRenameCommand,
                     HandleDeleteCommand, AtItem, Click
<1>11. CASE (\E n \in Names : TypeName(n)) \/ TypeAnything \/ HandleClose \/ UNCHANGED vars
  BY <1>4, <1>11 DEF TypeName, TypeAnything, HandleClose, vars
<1> QED
  BY <1>1, <1>6, <1>7, <1>8, <1>9, <1>10, <1>11 DEF Next, Server, Answers, User

\* TypeOK holds in every behaviour: the dialogs, the selection and the requests
\* only ever hold names and images that the page was given.
THEOREM TypeCorrect == Spec => []TypeOK
<1>1. TypeInv /\ [Next]_vars => TypeInv'
  BY TypeNext, AsksNext DEF TypeInv
<1>2. TypeInv => TypeOK
  BY DEF TypeInv
<1> QED BY <1>1, <1>2, TypeInit, PTL DEF Spec
-----------------------------------------------------------------------------
(***************************************************************************)
(* The selection.  Nothing is selected before the first list has arrived,  *)
(* and it is asked for once, unless an image is renamed or deleted.        *)
(***************************************************************************)
FirstList ==
  /\ \A r, s \in asks : r.kind = "sources" /\ s.kind = "sources" => r = s
  /\ (\E r \in asks : r.kind = "sources") => tree.sourcesLoading
  /\ tree.sourcesLoading => tree.sources = {} /\ chosen = {}
  /\ chosen \subseteq {i.name : i \in tree.sources}

SelectionInv == tree.selection = chosen /\ (~ renewed => FirstList)

LEMMA SelectionInit == Init => SelectionInv
BY DEF Init, SelectionInv, FirstList, FirstTree, Request

\* A step that leaves the list and the selection alone, and asks for nothing.
LEMMA SelectionKept ==
  ASSUME SelectionInv, UNCHANGED <<tree.selection, tree.sources, tree.sourcesLoading, chosen, renewed>>,
         \A r \in asks' : r.kind = "sources" => r \in asks
  PROVE  SelectionInv'
<1>1. ~ renewed => FirstList'
  BY DEF SelectionInv, FirstList
<1> QED BY <1>1 DEF SelectionInv

LEMMA SelectionNext == TypeInv /\ SelectionInv /\ [Next]_vars => SelectionInv'
<1> SUFFICES ASSUME TypeOK, SelectionInv, [Next]_vars PROVE SelectionInv'
  BY DEF TypeInv
<1> USE DEF serverVars, dialogVars, parentVars, askVars, history
<1>0. tree \in Tree
  BY DEF TypeOK
<1>1. ASSUME NEW r \in asks, Serve(r) PROVE SelectionInv'
  <2>1. PICK s \in Ask : s.kind = r.kind /\ asks' = (asks \ {r}) \cup {s}
    BY <1>1, ServedRequest
  <2>2. UNCHANGED <<tree, chosen, renewed>>
    BY <1>1 DEF Serve
  <2>3. ~ renewed => FirstList'
    BY <2>1, <2>2 DEF SelectionInv, FirstList
  <2> QED BY <2>2, <2>3 DEF SelectionInv
<1>2. ASSUME NEW r \in asks, ReceiveSources(r) PROVE SelectionInv'
  <2>1. /\ tree'.selection = tree.selection /\ tree'.sources = r.images
        /\ ~ tree'.sourcesLoading
    BY <1>0, <1>2 DEF ReceiveSources, Loaded, Tree
  <2>2. UNCHANGED <<chosen, renewed>> /\ asks' = asks \ {r} /\ r.kind = "sources"
    BY <1>2 DEF ReceiveSources
  <2>3. ~ renewed => FirstList'
    BY <2>1, <2>2 DEF SelectionInv, FirstList
  <2> QED BY <2>1, <2>2, <2>3 DEF SelectionInv
<1>3. ASSUME NEW r \in asks, ReceiveRename(r) \/ (ReceiveDelete(r) /\ ~ r.ok) PROVE SelectionInv'
  <2>1. tree'.selection = tree.selection /\ UNCHANGED chosen /\ renewed'
    BY <1>0, <1>3 DEF ReceiveRename, ReceiveDelete, FetchSources, Tree
  <2> QED BY <2>1 DEF SelectionInv
<1>4. ASSUME NEW r \in asks, ReceiveCatalogs(r) \/ (ReceiveDelete(r) /\ r.ok) \/ AskFails(r)
      PROVE  SelectionInv'
  <2>1. UNCHANGED <<tree.selection, tree.sources, tree.sourcesLoading>>
    <3>1. CASE ReceiveCatalogs(r)
      BY <1>0, <3>1 DEF ReceiveCatalogs, Loaded, Tree
    <3>2. CASE ReceiveDelete(r) /\ r.ok
      BY <1>0, <3>2 DEF ReceiveDelete, Tree
    <3>3. CASE AskFails(r)
      <4>1. r.kind \in {"sources", "catalogs", "rename", "delete"}
        BY DEF TypeOK, Ask
      <4> QED BY <1>0, <3>3, <4>1 DEF AskFails, Loaded, Tree
    <3> QED BY <1>4, <3>1, <3>2, <3>3
  <2>2. asks' = asks \ {r} /\ UNCHANGED <<chosen, renewed>>
    BY <1>4 DEF ReceiveCatalogs, ReceiveDelete, AskFails
  <2> QED BY <2>1, <2>2, SelectionKept
<1>5. ASSUME NEW c \in Commands, MenuCommand(c) PROVE SelectionInv'
  <2>1. UNCHANGED <<asks, renewed>>
    BY <1>5 DEF MenuCommand, Click
  <2>2. CASE UNCHANGED <<tree.selection, tree.sources, tree.sourcesLoading, chosen>>
    BY <2>1, <2>2, SelectionKept
  <2>3. CASE /\ Visible(tree) /\ c \in {"selectall", "deselectall"}
    <3>1. /\ tree'.selection = chosen' /\ UNCHANGED <<tree.sources, tree.sourcesLoading>>
          /\ chosen' \in {{}, {i.name : i \in tree.sources}}
      BY <1>0, <1>5, <2>3 DEF MenuCommand, Execute, Select, Tree
    <3>2. ~ tree.sourcesLoading
      BY <2>3 DEF Visible
    <3> QED BY <2>1, <3>1, <3>2 DEF SelectionInv, FirstList
  <2> QED BY <1>0, <1>5, <2>2, <2>3 DEF MenuCommand, Execute, Commands, Tree
<1>6. ASSUME NEW i \in tree.sources, SelectionChanged(i) PROVE SelectionInv'
  <2>1. /\ tree'.selection = chosen' /\ UNCHANGED <<tree.sources, tree.sourcesLoading, asks, renewed>>
        /\ chosen' \subseteq tree.selection \cup {i.name}
    BY <1>0, <1>6 DEF SelectionChanged, AtItem, Click, Select, Tree
  <2>2. ~ tree.sourcesLoading
    BY <1>6 DEF SelectionChanged, AtItem, Visible
  <2> QED BY <2>1, <2>2 DEF SelectionInv, FirstList
<1>7. CASE \/ \E c \in Categories : OnCatalogClick(c)
           \/ \E i \in tree.sources : HandleRenameCommand(i) \/ HandleDeleteCommand(i)
           \/ HandleClose
  BY <1>0, <1>7, SelectionKept DEF OnCatalogClick, HandleRenameCommand, HandleDeleteCommand,
     HandleClose, AtItem, Click, Tree
<1>8. CASE SaveImage \/ (\E n \in Names : TypeName(n)) \/ TypeAnything \/ UNCHANGED vars
  BY <1>8, SelectionKept DEF SaveImage, TypeName, TypeAnything, vars
<1>9. CASE HandleRename \/ HandleDelete
  <2>1. PICK kind, to : kind \in {"rename", "delete"} /\ Submit(kind, to)
    BY <1>9 DEF HandleRename, HandleDelete
  <2>2. \A r \in asks' : r.kind = "sources" => r \in asks
    BY <2>1 DEF Submit, Request
  <2>3. UNCHANGED <<tree.selection, tree.sources, tree.sourcesLoading, chosen, renewed>>
    BY <1>0, <1>9, <2>1 DEF HandleRename, HandleDelete, Submit, Tree
  <2> QED BY <2>2, <2>3, SelectionKept
<1> QED
  BY <1>1, <1>2, <1>3, <1>4, <1>5, <1>6, <1>7, <1>8, <1>9 DEF Next, Server, Answers, User

\* OwnerKnowsSelection holds in every behaviour: what is sent for syncing
\* (DiskImageManagement.tsx:218-220) is what the tree shows as checked.
THEOREM SelectionIsKnown == Spec => []OwnerKnowsSelection
<1>1. Init => TypeInv /\ SelectionInv
  BY TypeInit, SelectionInit
<1>2. TypeInv /\ SelectionInv /\ [Next]_vars => (TypeInv /\ SelectionInv)'
  BY TypeNext, AsksNext, SelectionNext DEF TypeInv
<1>3. SelectionInv => OwnerKnowsSelection
  BY DEF SelectionInv, FirstList, OwnerKnowsSelection, SyncSources
<1> QED BY <1>1, <1>2, <1>3, PTL DEF Spec
-----------------------------------------------------------------------------
(***************************************************************************)
(* The tree.  What it waits for is on its way.  While the list can only    *)
(* have changed by a request to rename that is still on its way, the last  *)
(* list that was asked for has them, once it is served and once it is      *)
(* shown.                                                                  *)
(***************************************************************************)
Awaited ==
  "failed" \notin mishaps =>
    /\ tree.sourcesLoading => \E r \in asks : r.kind = "sources"
    /\ tree.catalogsLoading => \E r \in asks : r.kind = "catalogs"
    /\ ~ tree.catalogsLoading => tree.catalogs = Catalogs

\* L is the number of that request.
LastList(L) ==
  /\ applied <= L
  /\ \A r \in asks : r.kind = "sources" => r.id <= L
  /\ \/ \E r \in asks : r.kind = "rename"
     \/ /\ \A r \in asks : r.kind = "sources" /\ r.id = L /\ r.served => r.images = DiskImages
        /\ \/ \E r \in asks : r.kind = "sources" /\ r.id = L
           \/ applied = L /\ tree.sources = DiskImages

TreeInv == Awaited /\ (mishaps = {} => \E L \in 2 .. asked : LastList(L))

LEMMA TreeInit == Init => TreeInv
<1> SUFFICES ASSUME Init PROVE TreeInv
  OBVIOUS
<1> DEFINE c == Request(1, "catalogs", None, None)
           s == Request(2, "sources", None, None)
<1>1. /\ c.id = 1 /\ c.kind = "catalogs" /\ ~ c.served
      /\ s.id = 2 /\ s.kind = "sources" /\ ~ s.served
      /\ asks = {c, s}
  BY DEF Init, Request
<1> HIDE DEF c, s
<1>2. Awaited
  BY <1>1 DEF Init, FirstTree, Awaited
<1>3. LastList(2)
  BY <1>1 DEF Init, LastList
<1>4. 2 \in 2 .. asked
  BY DEF Init
<1> QED BY <1>2, <1>3, <1>4 DEF TreeInv

\* As long as the files stay, so does the list.
LEMMA ListKept == UNCHANGED serverVars => UNCHANGED DiskImages
BY DEF serverVars, DiskImages, Listing

\* A step that leaves lists and images alone, and at most adds other requests.
LEMMA TreeKept ==
  ASSUME TypeOK, TreeInv, UNCHANGED <<tree.sources, tree.sourcesLoading, tree.catalogs, tree.catalogsLoading>>,
         UNCHANGED <<DiskImages, applied, mishaps>>, asked' \in Nat, asked <= asked',
         asks \subseteq asks', \A r \in asks' \ asks : r.kind \notin {"sources", "catalogs"}
  PROVE  TreeInv'
<1>1. Awaited'
  BY DEF TreeInv, Awaited
<1>2. ASSUME mishaps = {} PROVE \E L \in 2 .. asked' : LastList(L)'
  <2>1. PICK L \in 2 .. asked : LastList(L)
    BY <1>2 DEF TreeInv
  <2>2. LastList(L)'
    BY <2>1 DEF LastList
  <2>3. L \in 2 .. asked'
    BY DEF TypeOK
  <2> QED BY <2>2, <2>3
<1> QED BY <1>1, <1>2 DEF TreeInv

LEMMA TreeNext == TypeInv /\ TreeInv /\ [Next]_vars => TreeInv'
<1> SUFFICES ASSUME TypeOK, AsksMakeSense, TreeInv, [Next]_vars PROVE TreeInv'
  BY DEF TypeInv
<1> USE DEF serverVars, dialogVars, parentVars, askVars, history
<1>0. tree \in Tree /\ asked \in Nat /\ applied \in Nat /\ \A r \in asks : r.id \in Nat
  BY DEF TypeOK, Ask
<1>1. ASSUME NEW r \in asks, Serve(r) PROVE TreeInv'
  <2>1. PICK s \in Ask : /\ s.id = r.id /\ s.kind = r.kind
                         /\ r.kind \in {"sources", "catalogs"} => s.images = DiskImages
                         /\ asks' = (asks \ {r}) \cup {s}
    BY <1>1, ServedRequest
  <2>2. /\ UNCHANGED <<tree, asked, applied>> /\ mishaps \subseteq mishaps'
        /\ mishaps' = {} /\ r.kind # "rename" => DiskImages' = DiskImages
    <3>1. CASE ServeList(r)
      BY <1>1, <3>1 DEF Serve, ServeList, DiskImages, Listing
    <3>2. CASE ServeRename(r)
      BY <1>1, <3>2 DEF Serve, ServeRename
    <3>3. CASE RouteDelete(r)
      BY <1>1, <3>3 DEF Serve, RouteDelete, Unseen
    <3> QED BY <1>1, <3>1, <3>2, <3>3 DEF Serve
  <2>3. Awaited'
    BY <2>1, <2>2 DEF TreeInv, Awaited
  <2>4. ASSUME mishaps' = {} PROVE \E L \in 2 .. asked' : LastList(L)'
    <3>1. PICK L \in 2 .. asked : LastList(L)
      BY <2>2, <2>4 DEF TreeInv
    <3>2. CASE \E x \in asks : x.kind = "rename"
      BY <2>1, <2>2, <3>1, <3>2 DEF LastList
    <3>3. CASE ~ \E x \in asks : x.kind = "rename"
      <4>1. DiskImages' = DiskImages
        BY <2>2, <2>4, <3>3
      <4> QED BY <2>1, <2>2, <3>1, <3>3, <4>1 DEF LastList
    <3> QED BY <3>2, <3>3
  <2> QED BY <2>3, <2>4 DEF TreeInv
<1>2. ASSUME NEW r \in asks, ReceiveSources(r) PROVE TreeInv'
  <2>1. /\ tree'.sources = r.images /\ ~ tree'.sourcesLoading
        /\ UNCHANGED <<tree.catalogs, tree.catalogsLoading>>
    BY <1>0, <1>2 DEF ReceiveSources, Loaded, Tree
  <2>2. /\ UNCHANGED <<DiskImages, asked>> /\ asks' = asks \ {r} /\ r.kind = "sources" /\ r.served
        /\ applied' = IF r.id < applied THEN applied ELSE r.id
        /\ mishaps \subseteq mishaps' /\ (mishaps' = {} => applied <= r.id)
    BY <1>0, <1>2, ListKept DEF ReceiveSources
  <2>3. Awaited'
    BY <2>1, <2>2 DEF TreeInv, Awaited
  <2>4. ASSUME mishaps' = {} PROVE \E L \in 2 .. asked' : LastList(L)'
    <3>1. PICK L \in 2 .. asked : LastList(L)
      BY <2>2, <2>4 DEF TreeInv
    <3>2. applied' = r.id /\ r.id <= L /\ L \in Nat
      BY <1>0, <2>2, <2>4, <3>1 DEF LastList
    <3>3. CASE \E x \in asks : x.kind = "rename"
      BY <2>2, <3>1, <3>2, <3>3 DEF LastList
    <3>4. CASE (~ \E x \in asks : x.kind = "rename") /\ r.id = L
      BY <2>1, <2>2, <3>1, <3>2, <3>4 DEF LastList
    <3>5. CASE (~ \E x \in asks : x.kind = "rename") /\ r.id # L
      <4>1. applied # L
        BY <1>0, <2>2, <2>4, <3>2, <3>5
      <4>2. PICK x \in asks : x.kind = "sources" /\ x.id = L
        BY <3>1, <3>5, <4>1 DEF LastList
      <4> QED BY <2>2, <3>1, <3>2, <3>5, <4>2 DEF LastList
    <3> QED BY <2>2, <3>3, <3>4, <3>5
  <2> QED BY <2>3, <2>4 DEF TreeInv
<1>3. ASSUME NEW r \in asks, ReceiveRename(r) \/ (ReceiveDelete(r) /\ ~ r.ok) PROVE TreeInv'
  <2> DEFINE n == Request(asked + 1, "sources", None, None)
  <2>1. n.id = asked + 1 /\ n.kind = "sources" /\ ~ n.served
    BY DEF Request
  <2>2. /\ asks' = (asks \ {r}) \cup {n} /\ asked' = asked + 1 /\ r.kind \in {"rename", "delete"}
        /\ UNCHANGED applied /\ ("failed" \notin mishaps' => "failed" \notin mishaps)
    BY <1>3 DEF ReceiveRename, ReceiveDelete, FetchSources
  <2> HIDE DEF n
  <2>3. UNCHANGED <<tree.catalogs, tree.catalogsLoading>>
    BY <1>0, <1>3 DEF ReceiveRename, ReceiveDelete, Tree
  <2>4. Awaited'
    BY <2>1, <2>2, <2>3 DEF TreeInv, Awaited
  <2>5. PICK L \in Nat : L = asked + 1
    BY <1>0
  <2>6. /\ \A x \in asks : x.id < L
        /\ applied <= L
    BY <1>0, <2>5 DEF AsksMakeSense, TypeOK
  <2>7. n \in asks' /\ applied' <= L /\ \A x \in asks' : x.id <= L
    BY <1>0, <2>1, <2>2, <2>5, <2>6
  <2>8. \A x \in asks' : x.id = L => x = n
    BY <1>0, <2>2, <2>6
  <2>9. LastList(L)'
    BY <2>1, <2>5, <2>7, <2>8 DEF LastList
  <2>10. L \in 2 .. asked'
    BY <2>2, <2>5 DEF TypeOK
  <2> QED BY <2>2, <2>4, <2>9, <2>10 DEF TreeInv
<1>4. ASSUME NEW r \in asks, ReceiveCatalogs(r) PROVE TreeInv'
  <2>1. /\ UNCHANGED <<tree.sources, tree.sourcesLoading>>
        /\ tree'.catalogs = Catalogs /\ ~ tree'.catalogsLoading
    BY <1>0, <1>4 DEF ReceiveCatalogs, Loaded, Tree
  <2>2. asks' = asks \ {r} /\ r.kind = "catalogs"
        /\ UNCHANGED <<DiskImages, asked, applied, mishaps>>
    BY <1>4, ListKept DEF ReceiveCatalogs
  <2> QED BY <2>1, <2>2 DEF TreeInv, Awaited, LastList
<1>5. ASSUME NEW r \in asks, ReceiveDelete(r), r.ok PROVE TreeInv'
  <2>1. /\ UNCHANGED <<tree.sources, tree.sourcesLoading, tree.catalogs, tree.catalogsLoading>>
        /\ asks' = asks \ {r} /\ r.kind = "delete"
        /\ UNCHANGED <<DiskImages, asked, applied, mishaps>>
    BY <1>0, <1>5, ListKept DEF ReceiveDelete, Tree
  <2> QED BY <2>1 DEF TreeInv, Awaited, LastList
<1>6. ASSUME NEW r \in asks, AskFails(r) PROVE TreeInv'
  BY <1>6 DEF AskFails, TreeInv, Awaited
<1>7. CASE SaveImage
  <2>1. /\ UNCHANGED <<tree, asks, asked, applied>> /\ mishaps \subseteq mishaps'
        /\ mishaps' = {} => UNCHANGED DiskImages
    BY <1>7 DEF SaveImage, Unseen
  <2>2. Awaited'
    BY <2>1 DEF TreeInv, Awaited
  <2> QED BY <2>1, <2>2 DEF TreeInv, LastList
<1>8. ASSUME \/ \E c \in Categories : OnCatalogClick(c)
             \/ \E c \in Commands : MenuCommand(c)
             \/ \E i \in tree.sources :
                  SelectionChanged(i) \/ HandleRenameCommand(i) \/ HandleDeleteCommand(i)
             \/ \E n \in Names : TypeName(n)
             \/ TypeAnything \/ HandleClose \/ UNCHANGED vars
      PROVE  TreeInv'
  <2>1. UNCHANGED <<tree.sources, tree.sourcesLoading, tree.catalogs, tree.catalogsLoading>>
    BY <1>0, <1>8, ZenonT(60)
       DEF OnCatalogClick, MenuCommand, Execute, Select, SelectionChanged, Commands,
       HandleRenameCommand, HandleDeleteCommand, TypeName, TypeAnything, HandleClose, Tree, vars
  <2>2. UNCHANGED <<DiskImages, asks, asked, applied, mishaps>>
    BY <1>8, ListKept DEF OnCatalogClick, MenuCommand, SelectionChanged, AtItem, Click,
       HandleRenameCommand, HandleDeleteCommand, TypeName, TypeAnything, HandleClose, vars
  <2> QED BY <1>0, <2>1, <2>2, TreeKept
<1>9. CASE HandleRename \/ HandleDelete
  <2>1. PICK kind, to : kind \in {"rename", "delete"} /\ Submit(kind, to)
    BY <1>9 DEF HandleRename, HandleDelete
  <2>2. \A r \in asks' \ asks : r.kind \notin {"sources", "catalogs"}
    BY <2>1 DEF Submit, Request
  <2>3. /\ UNCHANGED <<DiskImages, applied, mishaps>> /\ asks \subseteq asks' /\ asked' = asked + 1
        /\ UNCHANGED <<tree.sources, tree.sourcesLoading, tree.catalogs, tree.catalogsLoading>>
    BY <1>0, <1>9, <2>1, ListKept DEF HandleRename, HandleDelete, Submit, Tree
  <2> QED BY <1>0, <2>2, <2>3, TreeKept
<1> QED
  BY <1>1, <1>2, <1>3, <1>4, <1>5, <1>6, <1>7, <1>8, <1>9 DEF Next, Server, Answers, User

\* TreeCatchesUp holds in every behaviour: fetchSources() and fetchCatalogTypes()
\* bring the tree up to date, in whatever order their answers come.
THEOREM TreeIsCurrent == Spec => []TreeCatchesUp
<1>1. Init => TypeInv /\ TreeInv
  BY TypeInit, TreeInit
<1>2. TypeInv /\ TreeInv /\ [Next]_vars => (TypeInv /\ TreeInv)'
  BY TypeNext, AsksNext, TreeNext DEF TypeInv
<1>3. TreeInv => TreeCatchesUp
  BY DEF TreeInv, Awaited, LastList, TreeCatchesUp, Visible, InTree
<1> QED BY <1>1, <1>2, <1>3, PTL DEF Spec

=============================================================================
