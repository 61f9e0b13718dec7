--------------------------- MODULE DomainCommands ---------------------------
(***************************************************************************)
(* The command wrappers of the domain layer (chrome.*.go).  Every wrapper  *)
(* builds a protocol.Command with a wire method "Domain.name", hands it to *)
(* socket.SendCommand, and then either returns command.Err (the "err"     *)
(* wrappers) or checks command.Err, command.Result and the decoding of the *)
(* result into the wrapper's result type (the "result" wrappers).         *)
(*                                                                         *)
(* A wire method is a record of its domain prefix and its name: the only  *)
(* part of the string the browser's dispatch looks at apart from identity. *)
(* The browser answers a method of a domain it implements with a result    *)
(* or a protocol error, and anything else with "method not found".         *)
(***************************************************************************)
EXTENDS Sequences

CONSTANTS
  ProtocolDomains,   \* the domains the browser implements
  DecodeMayFail,     \* the browser's result may not fit the result type
  TransportMayFail   \* the write or read of the command may fail

\* One wrapper per method: its wire method and which of the two bodies it has.
Table(domain, errs, results) ==
  {[domain |-> domain, name |-> n, shape |-> "err"] : n \in errs}
    \cup {[domain |-> domain, name |-> n, shape |-> "result"] : n \in results}

DatabaseWrappers ==
  Table("Database", {"disable", "enable", "getDatabaseTableNames"},
        {"executeSQL"})

DOMWrappers ==
  Table("DOM",
    {"disable", "discardSearchResults", "enable", "focus", "markUndoableState",
     "redo", "removeAttribute", "removeNode", "requestChildNodes",
     "setAttributeValue", "setAttributesAsText", "setFileInputFiles",
     "setInspectedNode", "setNodeValue", "setOuterHTML", "undo"},
    {"collectClassNamesFromSubtree", "copyTo", "describeNode", "getAttributes",
     "getBoxModel", "getDocument", "getFlattenedDocument",
     "getNodeForLocation", "getOuterHTML", "getRelayoutBoundary",
     "getSearchResults", "moveTo", "performSearch", "pushNodeByPathToFrontend",
     "pushNodesByBackendIdsToFrontend", "querySelector", "querySelectorAll",
     "requestNode", "resolveNode", "setNodeName"})

LogWrappers ==
  Table("Log", {"clear", "disable", "enable", "startViolationsReport",
                "stopViolationsReport"}, {})

OverlayWrappers ==
  Table("Overlay",
    {"disable", "enable", "hideHighlight", "highlightFrame", "highlightNode",
     "highlightQuad", "highlightRect", "setInspectMode",
     "setPausedInDebuggerMessage", "setShowDebugBorders", "setShowFPSCounter",
     "setShowScrollBottleneckRects", "setShowViewportSizeOnResize",
     "setSuspended"},
    {"getHighlightObjectForTest"})

ServiceWorkerWrappers ==
  Table("ServiceWorker",
    {"deliverPushMessage", "disable", "dispatchSyncEvent", "enable",
     "inspectWorker", "setForceUpdateOnPageLoad", "skipWaiting", "startWorker",
     "stopAllWorkers", "stopWorker", "unregister", "updateRegistration"}, {})

StorageWrappers ==
  Table("storage",
    {"clearDataForOrigin", "trackCacheStorageForOrigin",
     "trackIndexedDBForOrigin", "untrackCacheStorageForOrigin",
     "untrackIndexedDBForOrigin"},
    {"getUsageAndQuota"})

Wrappers ==
  DatabaseWrappers \cup DOMWrappers \cup LogWrappers \cup OverlayWrappers
    \cup ServiceWorkerWrappers \cup StorageWrappers

\* The event names the On* wrappers register their handlers under.
Events(domain, names) == {[domain |-> domain, name |-> n] : n \in names}

DatabaseEvents == Events("Database", {"addDatabase"})

DOMEvents ==
  Events("DOM",
    {"attributeModified", "attributeRemoved", "characterDataModified",
     "childNodeCountUpdated", "childNodeInserted", "childNodeRemoved",
     "distributedNodesUpdated", "documentUpdated", "inlineStyleInvalidated",
     "pseudoElementAdded", "pseudoElementRemoved", "setChildNodes",
     "shadowRootPopped", "shadowRootPushed"})

LogEvents == Events("Log", {"entryAdded"})

OverlayEvents ==
  Events("Overlay",
    {"inspectNodeRequested", "nodeHighlightRequested", "screenshotRequested"})

ServiceWorkerEvents ==
  Events("ServiceWorker",
    {"workerErrorReported", "workerRegistrationUpdated",
     "workerVersionUpdated"})

\* Mutant of StorageEvents: the domain written in lower case, as the
\* Storage command wrappers write it.
StorageEventsLower ==
  Events("storage",
    {"cacheStorageContentUpdated", "cacheStorageListUpdated",
     "indexedDBContentUpdated", "indexedDBListUpdated"})

StorageEvents ==
  Events("Storage",
    {"cacheStorageContentUpdated", "cacheStorageListUpdated",
     "indexedDBContentUpdated", "indexedDBListUpdated"})

EventWrappers ==
  DatabaseEvents \cup DOMEvents \cup LogEvents \cup OverlayEvents
    \cup ServiceWorkerEvents \cup StorageEvents

\* What the browser may answer to a command, or the transport report.
Answers(w) ==
  (IF w.domain \in ProtocolDomains
   THEN {[result |-> "fits", error |-> "none"],
         [result |-> "none", error |-> "protocol"]}
          \cup (IF DecodeMayFail THEN {[result |-> "misfit", error |-> "none"]}
                                 ELSE {})
   ELSE {[result |-> "none", error |-> "notFound"]})
  \cup (IF TransportMayFail THEN {[result |-> "none", error |-> "transport"]}
                            ELSE {})

\* command.Respond: the response's error goes to command.Err, its result
\* to command.Result ("nil" for no error, "none" for no result).
Respond(resp) ==
  [Err |-> IF resp.error = "none" THEN "nil" ELSE resp.error,
   Result |-> resp.result]

\* The "err" wrappers: socket.SendCommand(command); return command.Err
ErrCall(cmd) == [val |-> "zero", err |-> cmd.Err]

\* Mutant of ResultCall: the error of json.Unmarshal is not checked.
ResultCallUnchecked(cmd) ==
  CASE cmd.Err # "nil"         -> [val |-> "zero", err |-> cmd.Err]
    [] cmd.Result = "none"     -> [val |-> "zero", err |-> cmd.Err]
    [] cmd.Result = "misfit"   -> [val |-> "partial", err |-> cmd.Err]
    [] OTHER                   -> [val |-> "data", err |-> cmd.Err]

\* The "result" wrappers: return the zero result with command.Err if it
\* is set; decode command.Result if there is one (json.Marshal of a decoded
\* value cannot fail; json.Unmarshal into the result type can, leaving it
\* partly filled); return the result with command.Err.
ResultCall(cmd) ==
  CASE cmd.Err # "nil"         -> [val |-> "zero", err |-> cmd.Err]
    [] cmd.Result = "none"     -> [val |-> "zero", err |-> cmd.Err]
    [] cmd.Result = "misfit"   -> [val |-> "partial", err |-> "decode"]
    [] OTHER                   -> [val |-> "data", err |-> cmd.Err]

\* A whole wrapper call, socket.SendCommand returning once the command is
\* resolved.
Call(w, resp) ==
  IF w.shape = "err" THEN ErrCall(Respond(resp)) ELSE ResultCall(Respond(resp))

VARIABLES
  last,       \* <<>>, or the last call: wrapper, response, returned value
  registered  \* <<>>, or the event name the last On* call registered under

vars == <<last, registered>>

Init == last = <<>> /\ registered = <<>>

Invoke(w) ==
  \E resp \in Answers(w) :
    /\ last' = <<[w |-> w, resp |-> resp, ret |-> Call(w, resp)]>>
    /\ UNCHANGED registered

\* An On* wrapper: socket.AddEventHandler(protocol.NewEventHandler(name, ...))
\* under the name of its table.
On(e) ==
  /\ registered' = <<e>>
  /\ UNCHANGED last

Next == (\E w \in Wrappers : Invoke(w)) \/ (\E e \in EventWrappers : On(e))

Spec == Init /\ [][Next]_vars

-----------------------------------------------------------------------------
(* What the spec (section 7) says a domain call returns: the error of its  *)
(* response, a transport failure as its own error, a result that does not  *)
(* decode as an error, and otherwise, for a wrapper with a result type,    *)
(* the decoded result.                                                     *)
Surface(w, resp) ==
  [err |-> CASE resp.error # "none"                             -> resp.error
             [] w.shape = "result" /\ resp.result = "misfit" -> "decode"
             [] OTHER                                         -> "nil",
   val |-> IF w.shape = "result" /\ resp.result = "fits" /\ resp.error = "none"
           THEN "data" ELSE "zero"]

(* Every wrapper returns exactly the error its command's response carries  *)
(* (or the decoding error), and when it returns no error it returns the   *)
(* decoded result: the Err check, the Result check and the Unmarshal      *)
(* check of the result wrappers, and the Err return of the others.         *)
SurfacesOwnResponse ==
  \A i \in DOMAIN last :
    LET c == last[i] IN
    /\ c.ret.err = Surface(c.w, c.resp).err
    /\ c.ret.err = "nil" => c.ret.val = Surface(c.w, c.resp).val

(* No wrapper sends a method the browser does not know: every call that   *)
(* reaches the browser is answered with a result or a protocol error.      *)
MethodsFound ==
  \A i \in DOMAIN last : last[i].ret.err # "notFound"

(* handleEvent finds handlers by the exact method string of the frame, so  *)
(* an On* wrapper's handler is only ever called if it registers under a   *)
(* name of a domain the browser implements, spelled as the browser does.  *)
EventNamesInProtocol ==
  \A i \in DOMAIN registered : registered[i].domain \in ProtocolDomains
=============================================================================
