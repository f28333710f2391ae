------------------------------- MODULE Parts --------------------------------
(* The parts of the system that share no state with the seats and the queues *)
(* or with one another: the cached course list, the screens of the web      *)
(* client, the audit pipeline behind its outbox, and the seed.  A behavior  *)
(* is a behavior of one of them.                                            *)
EXTENDS CatalogCache, CourseList, SearchBox, CatalogDrawer, WaitlistEditor,
        EnrollButton, Notices, AuditOutbox, Seed, TLC

VARIABLE part

Quiet(p) == part # p

PartsInit ==
    /\ part \in {"cache", "list", "box", "drawer", "editor", "button", "notices",
                 "toasts", "outbox", "seed"}
    /\ CacheInit /\ ListInit /\ BoxInit /\ DrawerInit /\ NoticesInit /\ ToastsInit
    /\ EditorInit /\ (Quiet("editor") => rows = <<>> /\ limits = [f \in DOMAIN limits |-> 1])
    /\ ButtonInit /\ (Quiet("button") => row = None /\ ~completed)
    /\ OutboxInit /\ (Quiet("outbox") => connected = {})
    /\ SeedInit /\ (Quiet("seed") => filled = {})

CachePart ==
    /\ part = "cache" /\ CacheNext
    /\ UNCHANGED <<part, listVars, boxVars, drawerVars, editorVars,
                   buttonVars, noticeVars, toastVars, outboxVars, seedVars>>
ListPart ==
    /\ part = "list" /\ ListNext
    /\ UNCHANGED <<part, cacheVars, boxVars, drawerVars, editorVars,
                   buttonVars, noticeVars, toastVars, outboxVars, seedVars>>
BoxPart ==
    /\ part = "box" /\ BoxNext
    /\ UNCHANGED <<part, cacheVars, listVars, drawerVars, editorVars,
                   buttonVars, noticeVars, toastVars, outboxVars, seedVars>>
DrawerPart ==
    /\ part = "drawer" /\ DrawerNext
    /\ UNCHANGED <<part, cacheVars, listVars, boxVars, editorVars,
                   buttonVars, noticeVars, toastVars, outboxVars, seedVars>>
EditorPart ==
    /\ part = "editor" /\ EditorNext
    /\ UNCHANGED <<part, cacheVars, listVars, boxVars, drawerVars,
                   buttonVars, noticeVars, toastVars, outboxVars, seedVars>>
ButtonPart ==
    /\ part = "button" /\ ButtonNext
    /\ UNCHANGED <<part, cacheVars, listVars, boxVars, drawerVars,
                   editorVars, noticeVars, toastVars, outboxVars, seedVars>>
NoticesPart ==
    /\ part = "notices" /\ NoticesNext
    /\ UNCHANGED <<part, cacheVars, listVars, boxVars, drawerVars,
                   editorVars, buttonVars, toastVars, outboxVars, seedVars>>
ToastsPart ==
    /\ part = "toasts" /\ ToastsNext
    /\ UNCHANGED <<part, cacheVars, listVars, boxVars, drawerVars,
                   editorVars, buttonVars, noticeVars, outboxVars, seedVars>>
OutboxPart ==
    /\ part = "outbox" /\ OutboxNext
    /\ UNCHANGED <<part, cacheVars, listVars, boxVars, drawerVars,
                   editorVars, buttonVars, noticeVars, toastVars, seedVars>>
SeedPart ==
    /\ part = "seed" /\ SeedNext
    /\ UNCHANGED <<part, cacheVars, listVars, boxVars, drawerVars,
                   editorVars, buttonVars, noticeVars, toastVars, outboxVars>>

PartsNext ==
    \/ CachePart \/ ListPart \/ BoxPart \/ DrawerPart \/ EditorPart \/ ButtonPart
    \/ NoticesPart \/ ToastsPart \/ OutboxPart \/ SeedPart

PartsSpec ==
    /\ PartsInit
    /\ [][PartsNext]_<<part, cacheVars, listVars, boxVars, drawerVars, editorVars, buttonVars,
                       noticeVars, toastVars, outboxVars, seedVars>>
    /\ BoxFairness /\ DrawerFairness /\ EditorFairness /\ ButtonFairness /\ NoticesFairness
    /\ OutboxFairness
-----------------------------------------------------------------------------
\* The screens settle: again and again nothing is under way on the screen that is
\* open.  Timers fire, requests are answered and pages arrive, so that no button says
\* "Working" for ever, a drawer has its details or an error card, and toasts that are
\* left alone go.
ScreensSettle ==
    /\ []<>BoxAtRest /\ []<>DrawerAtRest /\ []<>EditorAtRest /\ []<>ButtonAtRest
    /\ \A b \in Buttons : []<>NoticesAtRest(b)
    /\ []<>ToastsAtRest
=============================================================================
