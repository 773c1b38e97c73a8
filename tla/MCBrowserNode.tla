---------------------------- MODULE MCBrowserNode ----------------------------
(* Three loads of the page: two tabs of which one is reloaded, or a page       *)
(* reloaded twice.                                                            *)
EXTENDS BrowserNode

CONSTANTS l1, l2, l3
=============================================================================
