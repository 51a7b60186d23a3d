------------------------ MODULE MCModuleLifecycle ------------------------
(***************************************************************************)
(* ModuleLifecycle for a master and one worker.  The application           *)
(* and the distro both have the library lib and composer's own loader.     *)
(***************************************************************************)
EXTENDS ModuleLifecycle

CONSTANTS lib, loader, master, worker

\* Opcache runs, waits for its restart, or preloads; in the last state its
\* functions are also closed to the script, so that its status is not known.
Opcache(preloading, status) ==
    [enable |-> TRUE, enable_cli |-> FALSE, preload |-> TRUE, preloading |-> preloading,
     restrict_api |-> preloading, scriptAllowed |-> FALSE, status |-> status]
MCOpcacheStates == {Opcache(FALSE, "running"), Opcache(FALSE, "restart_pending"), Opcache(TRUE, "restart_pending")}

Options(enabled, inferred, diagnostics) ==
    [enabled |-> enabled, bootstrap |-> enabled, inferred |-> inferred, guard |-> inferred, diagnostics |-> diagnostics]
MCConfigs == {Options(TRUE, TRUE, TRUE), Options(TRUE, FALSE, FALSE), Options(FALSE, TRUE, FALSE)}

MCOthers == {{"earlier", "later"}}
MCFiles == {"distro", "app"} \X {lib, loader}
=============================================================================
