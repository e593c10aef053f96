------------------------------ MODULE Runtime -------------------------------
(***************************************************************************)
(* What the code of an app meets while it runs: the captured console       *)
(* (ConsoleCapture), its storage and the queries over it (KVStore), the    *)
(* products and remotes it asks (ProductApi), the web triggers it is run   *)
(* by (WebTriggers), the keys that route calls to its code (Routing), the  *)
(* windows of its UI and their modals (Frames), the histories of its       *)
(* routers (History), its texts (Translations), the language model its     *)
(* agents converse with (LanguageModel), the events and schedules that     *)
(* fire its triggers (Triggers), the forms of its UI (Forms) and its       *)
(* database (SqlServer).  Apart from reset(), no part touches another's    *)
(* state.                                                                  *)
(*                                                                         *)
(* Bound: a behaviour uses one of them, `service`, chosen at the start.    *)
(* The storage is used either by the calls PagedCalls, around a query, or  *)
(* by the others, without one.                                             *)
(***************************************************************************)
EXTENDS ConsoleCapture, KVStore, ProductApi, WebTriggers, Routing, Frames,
        History, Translations, LanguageModel, Triggers, Forms, SqlServer

CONSTANT PagedCalls

VARIABLE service

runtimeVars == <<captureVars, allVars, paVars, wtVars, rtVars, frVars, hiVars, trVars,
                 lmVars, tgVars, fmVars, sqVars, service>>

NotConsole ==
  <<allVars, paVars, wtVars, rtVars, frVars, hiVars, trVars,
    lmVars, tgVars, fmVars, sqVars, service>>
NotStorage ==
  <<captureVars, paVars, wtVars, rtVars, frVars, hiVars, trVars,
    lmVars, tgVars, fmVars, sqVars, service>>
NotProducts ==
  <<captureVars, allVars, wtVars, rtVars, frVars, hiVars, trVars,
    lmVars, tgVars, fmVars, sqVars, service>>
NotTriggers ==
  <<captureVars, allVars, paVars, rtVars, frVars, hiVars, trVars,
    lmVars, tgVars, fmVars, sqVars, service>>
NotRoutes ==
  <<captureVars, allVars, paVars, wtVars, frVars, hiVars, trVars,
    lmVars, tgVars, fmVars, sqVars, service>>
NotFrames ==
  <<captureVars, allVars, paVars, wtVars, rtVars, hiVars, trVars,
    lmVars, tgVars, fmVars, sqVars, service>>
NotHistory ==
  <<captureVars, allVars, paVars, wtVars, rtVars, frVars, trVars,
    lmVars, tgVars, fmVars, sqVars, service>>
NotTexts ==
  <<captureVars, allVars, paVars, wtVars, rtVars, frVars, hiVars,
    lmVars, tgVars, fmVars, sqVars, service>>
NotModel ==
  <<captureVars, allVars, paVars, wtVars, rtVars, frVars, hiVars,
    trVars, tgVars, fmVars, sqVars, service>>
NotFirings ==
  <<captureVars, allVars, paVars, wtVars, rtVars, frVars, hiVars, trVars,
    lmVars, fmVars, sqVars, service>>
NotForms ==
  <<captureVars, allVars, paVars, wtVars, rtVars, frVars, hiVars, trVars,
    lmVars, tgVars, sqVars, service>>
NotDatabase ==
  <<captureVars, allVars, paVars, wtVars, rtVars, frVars, hiVars, trVars,
    lmVars, tgVars, fmVars, service>>

UseConsole == service = "console" /\ CaptureNext /\ UNCHANGED NotConsole
UseQueries ==
  /\ service = "queries" /\ QueryNext
  /\ clock' = clock /\ \A c \in Calls \ PagedCalls : at'[c] = at[c]
  /\ UNCHANGED NotStorage
UseStorage ==
  /\ service = "storage" /\ Next
  /\ \A c \in PagedCalls : at'[c] = at[c]
  /\ UNCHANGED <<queryVars, NotStorage>>
UseProducts == service = "products" /\ ProductNext /\ UNCHANGED NotProducts
UseTriggers == service = "triggers" /\ TriggersNext /\ UNCHANGED NotTriggers
UseRoutes == service = "routes" /\ RoutingNext /\ UNCHANGED NotRoutes
UseEvents == service = "events" /\ EventsNext /\ UNCHANGED NotFrames
UseModals == service = "modals" /\ ModalsNext /\ UNCHANGED NotFrames
UseHistory == service = "history" /\ HistoryNext /\ UNCHANGED NotHistory
UseTexts == service = "texts" /\ TranslationsNext /\ UNCHANGED NotTexts
UseModel == service = "model" /\ LanguageModelNext /\ UNCHANGED NotModel
UseFirings == service = "firings" /\ FiringNext /\ UNCHANGED NotFirings
UseForms == service = "forms" /\ FormsNext /\ UNCHANGED NotForms
UseDatabase == service = "database" /\ SqlNext /\ UNCHANGED NotDatabase

RuntimeInit ==
  /\ CaptureInit /\ QueryInit /\ ProductInit /\ TriggersInit
  /\ RoutingInit /\ FramesInit /\ HistoryInit /\ TranslationsInit
  /\ LanguageModelInit /\ FiringInit /\ FormsInit /\ SqlInit
  /\ service \in {"console", "queries", "storage", "products", "triggers", "routes",
                  "events", "modals", "history", "texts", "model",
                  "firings", "forms", "database"}
  /\ service \notin {"queries", "storage"} => schemas = {}
  /\ service # "history" => kind = "memory"
  /\ service # "model" => ~hasKey
  /\ service # "forms" => style = "registered"

RuntimeNext ==
  \/ UseConsole \/ UseQueries \/ UseStorage \/ UseProducts \/ UseTriggers
  \/ UseRoutes \/ UseEvents \/ UseModals \/ UseHistory \/ UseTexts
  \/ UseModel \/ UseFirings \/ UseForms \/ UseDatabase

RuntimeSpec == RuntimeInit /\ [][RuntimeNext]_runtimeVars
=============================================================================
