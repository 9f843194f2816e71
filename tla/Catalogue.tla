----------------------------- MODULE Catalogue -----------------------------
(***************************************************************************)
(* The providers of internal/notify, file by file, and what tells their    *)
(* sends apart: how they talk to the other side, whether they address the  *)
(* "to" of the target and what they do with attachments.  Which fields a   *)
(* body has, and under what names, is left out.                            *)
(***************************************************************************)

coreProviders ==
    {"webhook", "discord", "slack", "teams", "telegram", "ntfy", "gotify",
     "pushover", "smtp"}

\* Webhooks, home automation and alarms of http_api.go.
WebhookProviders ==
    {"google_chat", "mattermost", "rocketchat", "msteams", "workflows",
     "webexteams", "zoom", "guilded", "revolt", "custom_json", "custom_form",
     "custom_xml", "dingtalk", "wecombot", "feishu", "lark", "ifttt",
     "apprise_api", "notifiarr", "home_assistant", "jellyfin", "emby"}

MailProviders ==
    {"mailgun", "sendgrid", "resend", "postmark", "brevo", "sparkpost", "ses"}

PhoneProviders ==
    {"twilio", "vonage", "plivo", "clicksend", "messagebird", "pushbullet",
     "one_signal", "opsgenie", "pagerduty"}

httpAPIProviders == WebhookProviders \cup MailProviders \cup PhoneProviders

mobilePushProviders ==
    {"bark", "chanify", "pushplus", "serverchan", "simplepush", "pushdeer",
     "pushsafer", "pushme", "spugpush", "spike", "notica", "popcorn_notify",
     "techuluspush", "qq", "wxpusher"}

socialChatProviders ==
    {"mastodon", "misskey", "bluesky", "line", "viber", "whatsapp",
     "signal_api", "zulip", "nextcloudtalk", "flock", "ryver", "twist",
     "reddit"}

smsGatewayProviders ==
    {"africas_talking", "bulksms", "burstsms", "d7networks", "kavenegar",
     "msg91", "sinch", "seven", "smsmanager", "smseagle", "freemobile",
     "fortysixelks", "exotel", "clickatell", "octopush", "sfr", "voipms",
     "httpsms"}

opsMediaProviders ==
    {"signl4", "pagertree", "splunk", "jira", "parseplatform",
     "notificationapi", "kumulos", "lametric", "streamlabs", "synology",
     "nextcloud", "kodi", "xbmc", "syslog", "rsyslog"}

remainingPushProviders ==
    {"pushy", "pushed", "pushjet", "prowl", "join", "notifico",
     "lametric_cloud", "aprs", "dapnet", "dot"}

finalParityProviders ==
    {"sns", "blink1", "bulkvs", "dbus", "enigma2", "evolution", "fluxer",
     "glib", "gnome", "growl", "mqtt", "office365", "smpp", "smtp2go",
     "sendpulse", "threema", "twitter", "wechat", "windows", "macosx"}

\* What the registry knows.  No two groups share an id, so it does not matter
\* that the first one to register an id keeps it.
Providers ==
    UNION {coreProviders, httpAPIProviders, mobilePushProviders,
           socialChatProviders, smsGatewayProviders, opsMediaProviders,
           remainingPushProviders, finalParityProviders}

-----------------------------------------------------------------------------
\* Those that write a line to a connection and read nothing.
LineProviders == {"aprs", "growl", "syslog", "rsyslog"}

\* Those that fetch a token by one request and use it in another.
TokenProviders == {"bluesky", "wechat"}

\* How a provider talks to the other side.
KindOf(provider) ==
    CASE provider \in {"smtp", "mqtt"}   -> provider
      [] provider \in LineProviders      -> "line"
      [] provider \in TokenProviders     -> "token"
      [] OTHER                           -> "http"

\* Those whose send goes to the "to" of the target, file by file.
AddressedPhone == {"twilio", "vonage", "plivo", "clicksend", "messagebird"}

AddressedPush == {"popcorn_notify"}

AddressedChat == {"line", "whatsapp", "signal_api", "zulip"}

AddressedSMS == smsGatewayProviders \ {"freemobile", "sfr"}

AddressedRemaining == {"pushy"}

AddressedParity ==
    {"bulkvs", "evolution", "office365", "smpp", "smtp2go", "sendpulse",
     "threema"}

AddressedProviders ==
    UNION {{"smtp"}, MailProviders, AddressedPhone, AddressedPush, AddressedChat,
           AddressedSMS, AddressedRemaining, AddressedParity}

\* Those that declare dynamic_recipients: mail, ids with "sms" in them, and a
\* few more.
DynamicProviders ==
    MailProviders \cup {"smtp", "smtp2go", "sendpulse", "office365"}
        \cup {"bulksms", "burstsms", "smsmanager", "smseagle", "httpsms"}
        \cup {"twilio", "vonage", "plivo", "whatsapp", "signal_api", "line",
              "viber"}

\* Those that declare attachments.
AttachingProviders == {"smtp", "discord"}

\* Those that post the whole message as it is, attachments and all.
PassingProviders == {"webhook", "apprise_api"}
=============================================================================
