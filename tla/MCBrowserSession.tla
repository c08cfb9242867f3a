-------------------------- MODULE MCBrowserSession --------------------------
(* BrowserSession on small instances: pages of every kind the routes have. *)
EXTENDS BrowserSession, TLC

MCPages == {"root", "home", "login", "logout", "settings", "invite", "reset_token",
            "signup_partner", "inventories", "inventories_report"}
=============================================================================
