----------------------------- MODULE Enrichment -----------------------------
(***************************************************************************)
(* What process_click_event makes of a request's User-Agent: the browser,  *)
(* operating system and device of the row (analytics_enrichment.py).       *)
(*                                                                         *)
(* A User-Agent is the set of the markers its text contains, NoAgent when  *)
(* the header is missing or blank.  A marker stands for the substrings the *)
(* code takes for one: "bot" for any bot marker, "edge" for edg/ and       *)
(* edge/, "linux" for linux and x11, "tablet" for tablet and kindle, and   *)
(* so on.  What a label is when there is none is Null.                     *)
(***************************************************************************)
EXTENDS Naturals, FiniteSets

CONSTANT Null

ASSUME NullAssumption == Null \notin {"Bot", "Android", "iOS"}

BrowserMarkers == {"bot", "edge", "opera", "firefox", "chrome", "safari", "msie"}
SystemMarkers  == {"windows nt", "android", "iphone", "ipad", "ipod",
                   "mac os x", "linux"}
DeviceMarkers  == {"tablet", "mobile"}
Markers == BrowserMarkers \cup SystemMarkers \cup DeviceMarkers

NoAgent == {}

Has(agent, marker) == marker \in agent

(* The searches return at the first marker found.                          *)
DetectBrowser(agent) ==
    IF Has(agent, "bot") THEN "Bot"
    ELSE IF Has(agent, "edge") THEN "Edge"
    ELSE IF Has(agent, "opera") THEN "Opera"
    ELSE IF Has(agent, "firefox") THEN "Firefox"
    ELSE IF Has(agent, "chrome") THEN "Chrome"
    ELSE IF Has(agent, "safari") THEN "Safari"
    ELSE IF Has(agent, "msie") THEN "Internet Explorer"
    ELSE Null

Apple(agent) == agent \cap {"iphone", "ipad", "ipod"} # {}

DetectOs(agent) ==
    IF Has(agent, "windows nt") THEN "Windows"
    ELSE IF Has(agent, "android") THEN "Android"
    ELSE IF Apple(agent) THEN "iOS"
    ELSE IF Has(agent, "mac os x") THEN "macOS"
    ELSE IF Has(agent, "linux") THEN "Linux"
    ELSE Null

Tablet(agent) == agent \cap {"ipad", "tablet"} # {}
Mobile(agent) == agent \cap {"mobile", "iphone"} # {}
Desktop(agent) == agent \cap {"windows nt", "mac os x", "linux"} # {}

(* Mutant of DetectDeviceType: desktops are looked for before Android.     *)
DetectDesktopFirst(agent) ==
    IF Has(agent, "bot") THEN "bot"
    ELSE IF Tablet(agent) THEN "tablet"
    ELSE IF Mobile(agent) THEN "mobile"
    ELSE IF Desktop(agent) THEN "desktop"
    ELSE IF Has(agent, "android") THEN "tablet"
    ELSE "unknown"

(* An Android device without "mobile" is a tablet.                         *)
DetectDeviceType(agent) ==
    IF Has(agent, "bot") THEN "bot"
    ELSE IF Tablet(agent) THEN "tablet"
    ELSE IF Mobile(agent) THEN "mobile"
    ELSE IF Has(agent, "android") THEN "tablet"
    ELSE IF Desktop(agent) THEN "desktop"
    ELSE "unknown"

ParseUserAgent(agent) ==
    [browser |-> DetectBrowser(agent), os |-> DetectOs(agent),
     device |-> DetectDeviceType(agent)]
-----------------------------------------------------------------------------
(* The labels of an agent, found by three searches in different orders,    *)
(* agree: a bot is a bot as browser and as device, and an Android, iPhone  *)
(* or iPad is never a desktop, although those agents carry the markers of  *)
(* Linux and Mac OS X as well (parse_user_agent).                          *)
Consistent(agent) ==
    LET labels == ParseUserAgent(agent)
    IN  /\ labels.browser = "Bot" <=> labels.device = "bot"
        /\ \/ labels.os = "Android"
           \/ labels.os = "iOS" /\ agent \cap {"iphone", "ipad"} # {}
           => labels.device \in {"mobile", "tablet", "bot"}
=============================================================================
