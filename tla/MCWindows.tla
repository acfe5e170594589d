------------------------------ MODULE MCWindows ------------------------------
(* The media of the web application, and the windows, views and downloads  *)
(* of the desktop application, for TLC: what is promised of them is safety *)
(* only. They share no state, so that a behaviour is one of the part it    *)
(* has chosen in the beginning, and the others stay as they are.           *)
EXTENDS CallMedia, CallWidget, Downloads, DesktopViews, TLC

CONSTANTS v1, v2, c1, c2, f1, f2

VARIABLE part

windowsVars == <<mediaVars, widgetVars, downloadsVars, viewsVars, part>>

WindowsInit ==
    /\ part \in {"media", "widget", "downloads", "views"}
    /\ MediaInit /\ WidgetInit /\ DownloadsInit /\ ViewsInit
    /\ part # "views" => desk.current = 1
    /\ part # "media" => ~withVideo

WindowsNext ==
    /\ UNCHANGED part
    /\ \/ part = "media" /\ MediaNext /\ UNCHANGED <<widgetVars, downloadsVars, viewsVars>>
       \/ part = "widget" /\ WidgetNext /\ UNCHANGED <<mediaVars, downloadsVars, viewsVars>>
       \/ part = "downloads" /\ DownloadsNext /\ UNCHANGED <<mediaVars, widgetVars, viewsVars>>
       \/ part = "views" /\ ViewsNext /\ UNCHANGED <<mediaVars, widgetVars, downloadsVars>>

WindowsSpec == WindowsInit /\ [][WindowsNext]_windowsVars

\* Every variable of the parts has its type.
TypeOK == MediaTypeOK /\ WidgetTypeOK /\ DownloadsTypeOK /\ ViewsTypeOK
=============================================================================
